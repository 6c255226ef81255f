---------------------------- MODULE Directory_proofs ----------------------------
(* Proofs about Directory: for any number of calls, ids, keys and requests,    *)
(* with and without faults.                                                    *)
EXTENDS Directory, Tables_proofs

Creators == {"CreateUser", "CreateCompany", "CreateEmployee"}
Updaters == {"UpdateUser", "UpdateCompany", "UpdateEmployee"}
Deleters == {"DeleteUser", "DeleteCompany", "DeleteEmployee"}
Getters == {"GetUser", "GetCompany", "GetEmployee"}

Inside == {"find", "check", "write", "commit", "rollback"}

\* w is the write that call c asks for, given the row it has read.
WriteFor(c, w) ==
    LET r == req[c] IN
    \/ r.op = "CreateUser" /\ \E u \in UserId : w = InsertUser(u, r)
    \/ r.op = "UpdateUser" /\ w = UpdateUserRow(r.id, MergedUser(r, seen[c]))
    \/ r.op = "DeleteUser" /\ w = DeleteUserRow(r.id)
    \/ r.op = "CreateCompany" /\ \E k \in CompanyId : w = InsertCompany(k, r)
    \/ r.op = "UpdateCompany" /\ w = UpdateCompanyRow(r.id, MergedCompany(r, seen[c]))
    \/ r.op = "DeleteCompany" /\ w = DeleteCompanyRow(r.id)
    \/ r.op = "CreateEmployee" /\ \E e \in EmployeeId : w = InsertEmployee(e, r)
    \/ r.op = "UpdateEmployee" /\ w = UpdateEmployeeRow(r.id, MergedEmployee(r, seen[c]))
    \/ r.op = "DeleteEmployee" /\ w = DeleteEmployeeRow(r.id)

\* What a call knows of a row that it has read, however long ago: only the row's
\* address, or its company, is still what it was.
RowSeen(r, row) ==
    /\ r.op \in Updaters \cup Getters
    /\ r.op = "UpdateUser" =>
          /\ row \in UserRow /\ r.id \in UserId /\ r.name # Blank
          /\ row.email.spelling = "lower" /\ users[r.id] # Unborn
          /\ r.id \in Live(users) => users[r.id].email = row.email
    /\ r.op = "UpdateCompany" =>
          /\ row \in CompanyRow /\ r.id \in CompanyId /\ r.name # Blank /\ r.code # Malformed
          /\ row.code.spelling = "lower"
    /\ r.op = "UpdateEmployee" =>
          /\ row \in EmployeeRow /\ r.id \in EmployeeId /\ r.code \notin {Malformed, Blank}
          /\ row.code.spelling = "lower" /\ employees[r.id] # Unborn
          /\ r.id \in Live(employees) => employees[r.id].company = row.company

\* Where the call stands, what it has been told and what the database knows of it.
TransAtLocation(c) ==
    /\ pc[c] = "idle" <=> req[c] = NoRequest
    /\ pc[c] \in {"idle", "begin"} => trans[c] = "none"
    /\ pc[c] \in Inside <=> trans[c] = "open"
    /\ pc[c] \in {"idle", "begin", "find", "check", "write", "commit"} => code[c] = "none"
    /\ pc[c] \in {"rollback", "done"} => code[c] # "none"
    /\ pc[c] = "rollback" => code[c] # "OK"
    /\ code[c] = "OK" => trans[c] = "committed"
    /\ trans[c] = "committed" => code[c] \in {"OK", "Internal"}
    /\ trans[c] = "committing" => code[c] = "Internal"

\* A call's write stays uncommitted from its execution to its end, and only then.
WriteAtLocation(c) ==
    Pending(c) => /\ pc[c] \in {"commit", "done"} /\ trans[c] \in {"open", "committing", "dropped"}
                  /\ WriteFor(c, pend[c]) /\ RequestError(req[c]) = "nil"

RequestAtLocation(c) ==
    /\ pc[c] \in {"begin", "find", "check", "write", "commit"} => RequestError(req[c]) = "nil"
    /\ pc[c] = "find" => req[c].op \in Updaters \cup Getters
    /\ pc[c] = "check" => req[c].op \in Creators \cup {"UpdateCompany", "UpdateEmployee"}
    /\ pc[c] = "write" => req[c].op \in Creators \cup Updaters \cup Deleters
    /\ pc[c] = "write" /\ req[c].op = "CreateEmployee" => req[c].company # Malformed
    /\ pc[c] = "commit" => ~HasInvalidField(req[c]) /\ ~Misread(req[c]) /\ ~HasInvalidPeriod(c)

SeenAtLocation(c) ==
    /\ pc[c] \in {"idle", "begin", "find"} => seen[c] = NoRow
    /\ seen[c] # NoRow => RowSeen(req[c], seen[c])
    /\ pc[c] \in {"check", "write"} /\ req[c].op \in Updaters => seen[c] # NoRow
    /\ pc[c] = "check" /\ req[c].op \in Updaters =>
          req[c].code # Unset /\ normalizeCode(req[c].code) # seen[c].code

\* What Directory says of every answer, for one call.
Exact(c) ==
    /\ code[c] = "OK" => ~HasInvalidField(req[c]) /\ ~Misread(req[c]) /\ ~HasInvalidPeriod(c)
    /\ code[c] = "InvalidArgument" => HasInvalidField(req[c]) \/ HasInvalidPeriod(c)
    /\ code[c] = "Internal" /\ ~Faults => Malformed \in IdsAsked(req[c]) \/ Misread(req[c]) \/ req[c].op = "DeleteUser"

CallInv(c) == /\ TransAtLocation(c) /\ WriteAtLocation(c) /\ RequestAtLocation(c)
              /\ SeenAtLocation(c) /\ Exact(c)

IInv == TypeOK /\ TablesInv /\ \A c \in Call : CallInv(c)
-------------------------------------------------------------------------------
(* Requests.                                                                   *)

\* The operation tells the fields.
LEMMA RequestType ==
  ASSUME NEW r \in Request
  PROVE  /\ r.op \in UserOps \cup CompanyOps \cup EmployeeOps /\ r # NoRequest
         /\ r.op = "CreateUser" => r \in CreateUserRequest
         /\ r.op = "UpdateUser" => r \in UpdateUserRequest
         /\ r.op \in {"DeleteUser", "GetUser"} => r \in UserIdRequest
         /\ r.op = "CreateCompany" => r \in CreateCompanyRequest
         /\ r.op = "UpdateCompany" => r \in UpdateCompanyRequest
         /\ r.op \in {"DeleteCompany", "GetCompany"} => r \in CompanyIdRequest
         /\ r.op = "CreateEmployee" => r \in CreateEmployeeRequest
         /\ r.op = "UpdateEmployee" => r \in UpdateEmployeeRequest
         /\ r.op \in {"DeleteEmployee", "GetEmployee"} => r \in EmployeeIdRequest
<1>1. /\ \A x \in CreateUserRequest : x.op = "CreateUser"
      /\ \A x \in UpdateUserRequest : x.op = "UpdateUser"
      /\ \A x \in UserIdRequest : x.op \in {"DeleteUser", "GetUser"}
      /\ \A x \in CreateCompanyRequest : x.op = "CreateCompany"
      /\ \A x \in UpdateCompanyRequest : x.op = "UpdateCompany"
      /\ \A x \in CompanyIdRequest : x.op \in {"DeleteCompany", "GetCompany"}
      /\ \A x \in CreateEmployeeRequest : x.op = "CreateEmployee"
      /\ \A x \in UpdateEmployeeRequest : x.op = "UpdateEmployee"
      /\ \A x \in EmployeeIdRequest : x.op \in {"DeleteEmployee", "GetEmployee"}
  BY DEF CreateUserRequest, UpdateUserRequest, UserIdRequest, CreateCompanyRequest, UpdateCompanyRequest,
         CompanyIdRequest, CreateEmployeeRequest, UpdateEmployeeRequest, EmployeeIdRequest
<1>2. NoRequest.op = "none"
  BY DEF NoRequest
<1> QED
  BY <1>1, <1>2, DirectoryAssumption DEF UserOps, CompanyOps, EmployeeOps

\* What validation looks at first.
LEMMA WhichError ==
  ASSUME NEW r \in Request
  PROVE  /\ r.op = "CreateUser" => RequestError(r) = CreateUserError(r)
         /\ r.op = "UpdateUser" => RequestError(r) = UpdateUserError(r)
         /\ r.op = "CreateCompany" => RequestError(r) = CreateCompanyError(r)
         /\ r.op = "UpdateCompany" => RequestError(r) = UpdateCompanyError(r)
         /\ r.op = "CreateEmployee" => RequestError(r) = CreateEmployeeError(r)
         /\ r.op = "UpdateEmployee" => RequestError(r) = UpdateEmployeeError(r)
         /\ r.op \in Deleters \cup Getters => RequestError(r) = IdError(r)
<1>1. CASE r.op \in UserOps
  <2>1. RequestError(r) = UserRequestError(r)
    BY <1>1 DEF RequestError, UserOps, CompanyOps, EmployeeOps
  <2> QED
    BY <1>1, <2>1 DEF UserRequestError, UserOps, Deleters, Getters
<1>2. CASE r.op \in CompanyOps
  <2>1. RequestError(r) = CompanyRequestError(r)
    BY <1>2 DEF RequestError, UserOps, CompanyOps, EmployeeOps
  <2> QED
    BY <1>2, <2>1 DEF CompanyRequestError, CompanyOps, Deleters, Getters
<1>3. CASE r.op \in EmployeeOps
  <2>1. RequestError(r) = EmployeeRequestError(r)
    BY <1>3 DEF RequestError, UserOps, CompanyOps, EmployeeOps
  <2> QED
    BY <1>3, <2>1 DEF EmployeeRequestError, EmployeeOps, Deleters, Getters
<1> QED
  BY <1>1, <1>2, <1>3, RequestType

\* The fields that can be invalid, by operation.
LEMMA InvalidFields ==
  ASSUME NEW r \in Request
  PROVE  /\ r.op = "CreateUser" => (HasInvalidField(r) <=> r.email = Malformed \/ r.name = Blank)
         /\ r.op = "UpdateUser" =>
               (HasInvalidField(r) <=> r.id \in {Malformed, Blank} \/ r.name = Blank \/ r.status = Malformed)
         /\ r.op = "CreateCompany" => (HasInvalidField(r) <=> r.code = Malformed \/ r.name = Blank)
         /\ r.op = "UpdateCompany" =>
               (HasInvalidField(r) <=> \/ r.id \in {Malformed, Blank} \/ r.code = Malformed
                                       \/ r.name = Blank \/ r.status = Malformed)
         /\ r.op = "CreateEmployee" =>
               (HasInvalidField(r) <=> \/ r.company \in {Malformed, Blank} \/ r.code = Malformed
                                       \/ r.user \in {Malformed, Blank} \/ r.status = Malformed
                                       \/ BadDate \in {r.hired, r.terminated})
         /\ r.op = "UpdateEmployee" =>
               (HasInvalidField(r) <=> \/ r.id \in {Malformed, Blank} \/ r.code \in {Malformed, Blank}
                                       \/ r.user \in {Malformed, Blank} \/ r.status = Malformed
                                       \/ BadDate \in {r.hired, r.terminated})
         /\ r.op \in Deleters \cup Getters => (HasInvalidField(r) <=> r.id \in {Malformed, Blank})
<1> USE DirectoryAssumption, UseCasesAssumption DEF HasInvalidField
<1> DEFINE bad == {Blank, Malformed}
<1>0. r.op \notin bad
  BY RequestType
<1>1. ASSUME r.op = "CreateUser" PROVE HasInvalidField(r) <=> r.email = Malformed \/ r.name = Blank
  <2>1. r \in CreateUserRequest /\ DOMAIN r = {"op", "email", "name"}
    BY <1>1, RequestType DEF CreateUserRequest
  <2> QED
    BY <1>0, <1>1, <2>1 DEF CreateUserRequest
<1>2. ASSUME r.op = "UpdateUser"
      PROVE  HasInvalidField(r) <=> r.id \in {Malformed, Blank} \/ r.name = Blank \/ r.status = Malformed
  <2>1. r \in UpdateUserRequest /\ DOMAIN r = {"op", "id", "name", "status"}
    BY <1>2, RequestType DEF UpdateUserRequest
  <2> QED
    BY <1>0, <1>2, <2>1 DEF UpdateUserRequest
<1>3. ASSUME r.op = "CreateCompany" PROVE HasInvalidField(r) <=> r.code = Malformed \/ r.name = Blank
  <2>1. r \in CreateCompanyRequest /\ DOMAIN r = {"op", "code", "name"}
    BY <1>3, RequestType DEF CreateCompanyRequest
  <2> QED
    BY <1>0, <1>3, <2>1 DEF CreateCompanyRequest
<1>4. ASSUME r.op = "UpdateCompany"
      PROVE  HasInvalidField(r) <=> \/ r.id \in {Malformed, Blank} \/ r.code = Malformed
                                    \/ r.name = Blank \/ r.status = Malformed
  <2>1. r \in UpdateCompanyRequest /\ DOMAIN r = {"op", "id", "code", "name", "status"}
    BY <1>4, RequestType DEF UpdateCompanyRequest
  <2> QED
    BY <1>0, <1>4, <2>1 DEF UpdateCompanyRequest
<1>5. ASSUME r.op = "CreateEmployee"
      PROVE  HasInvalidField(r) <=> \/ r.company \in {Malformed, Blank} \/ r.code = Malformed
                                    \/ r.user \in {Malformed, Blank} \/ r.status = Malformed
                                    \/ BadDate \in {r.hired, r.terminated}
  <2>1. r \in CreateEmployeeRequest
    BY <1>5, RequestType
  <2>2. DOMAIN r = {"op", "company", "code", "user", "status", "hired", "terminated"}
    BY <2>1 DEF CreateEmployeeRequest
  <2>3. r.hired \notin bad /\ r.terminated \notin bad
    BY <2>1 DEF CreateEmployeeRequest
  <2>4. r.code # Blank /\ r.status # Blank
    BY <2>1 DEF CreateEmployeeRequest
  <2> QED
    BY <1>0, <1>5, <2>2, <2>3, <2>4
<1>6. ASSUME r.op = "UpdateEmployee"
      PROVE  HasInvalidField(r) <=> \/ r.id \in {Malformed, Blank} \/ r.code \in {Malformed, Blank}
                                    \/ r.user \in {Malformed, Blank} \/ r.status = Malformed
                                    \/ BadDate \in {r.hired, r.terminated}
  <2>1. r \in UpdateEmployeeRequest
    BY <1>6, RequestType
  <2>2. DOMAIN r = {"op", "id", "code", "user", "status", "hired", "terminated"}
    BY <2>1 DEF UpdateEmployeeRequest
  <2>3. r.hired \notin bad /\ r.terminated \notin bad
    BY <2>1 DEF UpdateEmployeeRequest
  <2>4. r.status # Blank
    BY <2>1 DEF UpdateEmployeeRequest
  <2> QED
    BY <1>0, <1>6, <2>2, <2>3, <2>4
<1>7. ASSUME r.op \in Deleters \cup Getters PROVE HasInvalidField(r) <=> r.id \in {Malformed, Blank}
  <2>1. DOMAIN r = {"op", "id"} /\ r.op \notin {"CreateEmployee", "UpdateEmployee"}
    BY <1>7, RequestType DEF Deleters, Getters, UserIdRequest, CompanyIdRequest, EmployeeIdRequest
  <2> QED
    BY <1>0, <2>1
<1> QED
  BY <1>1, <1>2, <1>3, <1>4, <1>5, <1>6, <1>7

\* A request that passes validation has no field that validation looks at amiss.
LEMMA ValidRequest ==
  ASSUME NEW r \in Request, RequestError(r) = "nil"
  PROVE  /\ r.op = "CreateUser" => r.email \in Key /\ r.name \in Name
         /\ r.op = "UpdateUser" => r.id \in UserId \cup {Malformed} /\ r.status \in Status \cup {Unset}
         /\ r.op = "CreateCompany" => r.code \in Key /\ r.name \in Name
         /\ r.op = "UpdateCompany" => r.id \in CompanyId \cup {Malformed} /\ r.status \in Status \cup {Unset}
         /\ r.op = "CreateEmployee" =>
               /\ r.company \in CompanyId \cup {Malformed} /\ r.code \in Key /\ r.user \in UserId \cup {Urn}
               /\ r.status \in Status \cup {Unset} /\ PeriodOK(r)
               /\ r.hired \in Date \cup {NoDate} /\ r.terminated \in Date \cup {NoDate}
         /\ r.op = "UpdateEmployee" =>
               /\ r.id \in EmployeeId \cup {Malformed} /\ r.status \in Status \cup {Unset}
               /\ r.hired \in Date \cup {NoDate, UnsetDate} /\ r.terminated \in Date \cup {NoDate, UnsetDate}
         /\ r.op \in {"DeleteUser", "GetUser"} => r.id \in UserId \cup {Malformed}
         /\ r.op \in {"DeleteCompany", "GetCompany"} => r.id \in CompanyId \cup {Malformed}
         /\ r.op \in {"DeleteEmployee", "GetEmployee"} => r.id \in EmployeeId \cup {Malformed}
<1>1. r.op \in Updaters \cup Deleters \cup Getters => IdError(r) = "nil"
  <2>1. ASSUME r.op \in {"UpdateUser", "UpdateCompany", "UpdateEmployee"} PROVE IdError(r) = "nil"
    BY <2>1, WhichError DEF UpdateUserError, UpdateCompanyError, UpdateEmployeeError
  <2> QED
    BY <2>1, WhichError DEF Updaters
<1>2. r.op \in Updaters \cup Deleters \cup Getters => r.id # Blank
  BY <1>1 DEF IdError
<1>3. r.op \in {"DeleteUser", "GetUser"} => r.id \in UserId \cup {Malformed}
  BY <1>2, RequestType DEF UserIdRequest, Deleters, Getters
<1>4. r.op \in {"DeleteCompany", "GetCompany"} => r.id \in CompanyId \cup {Malformed}
  BY <1>2, RequestType DEF CompanyIdRequest, Deleters, Getters
<1>5. r.op \in {"DeleteEmployee", "GetEmployee"} => r.id \in EmployeeId \cup {Malformed}
  BY <1>2, RequestType DEF EmployeeIdRequest, Deleters, Getters
<1>6. ASSUME r.op = "CreateUser" PROVE r.email \in Key /\ r.name \in Name
  <2>1. r \in CreateUserRequest /\ CreateUserError(r) = "nil"
    BY <1>6, RequestType, WhichError
  <2> QED
    BY <2>1 DEF CreateUserRequest, CreateUserError
<1>7. ASSUME r.op = "CreateCompany" PROVE r.code \in Key /\ r.name \in Name
  <2>1. r \in CreateCompanyRequest /\ CreateCompanyError(r) = "nil"
    BY <1>7, RequestType, WhichError
  <2> QED
    BY <2>1 DEF CreateCompanyRequest, CreateCompanyError
<1>8. ASSUME r.op = "UpdateUser" PROVE r.id \in UserId \cup {Malformed} /\ r.status \in Status \cup {Unset}
  <2>1. r \in UpdateUserRequest /\ UpdateUserError(r) = "nil" /\ r.id # Blank
    BY <1>2, <1>8, RequestType, WhichError DEF Updaters
  <2> QED
    BY <2>1 DEF UpdateUserRequest, UpdateUserError
<1>9. ASSUME r.op = "UpdateCompany" PROVE r.id \in CompanyId \cup {Malformed} /\ r.status \in Status \cup {Unset}
  <2>1. r \in UpdateCompanyRequest /\ UpdateCompanyError(r) = "nil" /\ r.id # Blank
    BY <1>2, <1>9, RequestType, WhichError DEF Updaters
  <2> QED
    BY <2>1 DEF UpdateCompanyRequest, UpdateCompanyError
<1>10. ASSUME r.op = "UpdateEmployee"
       PROVE  /\ r.id \in EmployeeId \cup {Malformed} /\ r.status \in Status \cup {Unset}
              /\ r.hired \in Date \cup {NoDate, UnsetDate} /\ r.terminated \in Date \cup {NoDate, UnsetDate}
  <2>1. r \in UpdateEmployeeRequest /\ UpdateEmployeeError(r) = "nil" /\ r.id # Blank
    BY <1>2, <1>10, RequestType, WhichError DEF Updaters
  <2> QED
    BY <2>1 DEF UpdateEmployeeRequest, UpdateEmployeeError
<1>11. ASSUME r.op = "CreateEmployee"
       PROVE  /\ r.company \in CompanyId \cup {Malformed} /\ r.code \in Key /\ r.user \in UserId \cup {Urn}
              /\ r.status \in Status \cup {Unset} /\ PeriodOK(r)
              /\ r.hired \in Date \cup {NoDate} /\ r.terminated \in Date \cup {NoDate}
  <2>1. r \in CreateEmployeeRequest /\ CreateEmployeeError(r) = "nil"
    BY <1>11, RequestType, WhichError
  <2>2. /\ BadDate \notin {r.hired, r.terminated} /\ r.status # Malformed /\ r.company # Blank
        /\ r.code # Malformed /\ normalizeUserID(r.user) = "nil"
        /\ PeriodError(r.hired, r.terminated) = "nil"
    BY <2>1 DEF CreateEmployeeError
  <2>3. r.user \notin {Malformed, Blank}
    BY <2>2 DEF normalizeUserID
  <2>4. r.hired \in Date \cup {NoDate} /\ r.terminated \in Date \cup {NoDate}
    BY <2>1, <2>2 DEF CreateEmployeeRequest
  <2>5. PeriodOK(r)
    BY <2>2, <2>4 DEF PeriodError, PeriodOK, Date, NoDate
  <2> QED
    BY <2>1, <2>2, <2>3, <2>4, <2>5 DEF CreateEmployeeRequest
<1> QED
  BY <1>3, <1>4, <1>5, <1>6, <1>7, <1>8, <1>9, <1>10, <1>11

\* The code of each error.
LEMMA StatusOfError ==
  /\ toStatusError("nil") = "OK"
  /\ \A err \in Invalid : toStatusError(err) = "InvalidArgument"
  /\ \A err \in Duplicate : toStatusError(err) = "AlreadyExists"
  /\ \A err \in Missing : toStatusError(err) = "NotFound"
  /\ \A err \in {"22P02", "23514", "employees_company_id_fkey", "employees_user_id_fkey"} :
        toStatusError(err) = "Internal"
<1> USE DEF Invalid, Duplicate, Missing
<1>1. toStatusError("nil") = "OK"
  BY DEF toStatusError
<1>2. \A err \in Invalid : toStatusError(err) = "InvalidArgument"
  BY DEF toStatusError
<1>3. \A err \in Duplicate : toStatusError(err) = "AlreadyExists"
  BY DEF toStatusError
<1>4. \A err \in Missing : toStatusError(err) = "NotFound"
  BY DEF toStatusError
<1>5. \A err \in {"22P02", "23514", "employees_company_id_fkey", "employees_user_id_fkey"} :
         toStatusError(err) = "Internal"
  BY DEF toStatusError
<1> QED
  BY <1>1, <1>2, <1>3, <1>4, <1>5

\* The code of each answer of the database, by service.
LEMMA StatusOfAnswer ==
  /\ toStatusError(translatePgError("no rows")) = "NotFound"
  /\ toStatusError(translatePgError("23505")) = "AlreadyExists"
  /\ \A a \in {"22P02", "23514", "employees_company_id_fkey", "employees_user_id_fkey"} :
        toStatusError(translatePgError(a)) = "Internal"
  /\ toStatusError(translateCompanyPgError("no rows")) = "NotFound"
  /\ toStatusError(translateCompanyPgError("23505")) = "AlreadyExists"
  /\ \A a \in {"22P02", "23514", "employees_company_id_fkey", "employees_user_id_fkey"} :
        toStatusError(translateCompanyPgError(a)) = "Internal"
  /\ toStatusError(translateEmployeePgError("no rows")) = "NotFound"
  /\ toStatusError(translateEmployeePgError("23505")) = "AlreadyExists"
  /\ toStatusError(translateEmployeePgError("employees_company_id_fkey")) = "NotFound"
  /\ toStatusError(translateEmployeePgError("employees_user_id_fkey")) = "NotFound"
  /\ toStatusError(translateEmployeePgError("23514")) = "InvalidArgument"
  /\ toStatusError(translateEmployeePgError("22P02")) = "Internal"
<1>1. /\ translatePgError("no rows") = "ErrUserNotFound"
      /\ translatePgError("23505") = "ErrEmailAlreadyExists"
      /\ \A a \in {"22P02", "23514", "employees_company_id_fkey", "employees_user_id_fkey"} :
            translatePgError(a) = a
  BY DEF translatePgError
<1>2. /\ translateCompanyPgError("no rows") = "ErrCompanyNotFound"
      /\ translateCompanyPgError("23505") = "ErrCodeAlreadyExists"
      /\ \A a \in {"22P02", "23514", "employees_company_id_fkey", "employees_user_id_fkey"} :
            translateCompanyPgError(a) = a
  BY DEF translateCompanyPgError
<1>3. /\ translateEmployeePgError("no rows") = "ErrEmployeeNotFound"
      /\ translateEmployeePgError("23505") = "ErrEmployeeCodeAlreadyExists"
      /\ translateEmployeePgError("employees_company_id_fkey") = "ErrCompanyNotFound"
      /\ translateEmployeePgError("employees_user_id_fkey") = "ErrUserNotFound"
      /\ translateEmployeePgError("23514") = "ErrInvalidDateRange"
      /\ translateEmployeePgError("22P02") = "22P02"
  BY DEF translateEmployeePgError
<1>4. /\ "ErrInvalidDateRange" \in Invalid
      /\ {"ErrEmailAlreadyExists", "ErrCodeAlreadyExists", "ErrEmployeeCodeAlreadyExists"} \subseteq Duplicate
      /\ {"ErrUserNotFound", "ErrCompanyNotFound", "ErrEmployeeNotFound"} \subseteq Missing
  BY DEF Invalid, Duplicate, Missing
<1> QED
  BY <1>1, <1>2, <1>3, <1>4, StatusOfError

\* A request that validation refuses is answered INVALID_ARGUMENT, and rightly.
LEMMA InvalidRequest ==
  ASSUME NEW r \in Request, RequestError(r) # "nil"
  PROVE  /\ toStatusError(RequestError(r)) = "InvalidArgument"
         /\ HasInvalidField(r) \/ (r.op = "CreateEmployee" /\ ~PeriodOK(r))
<1> USE DEF Invalid
<1>1. ASSUME r.op \in Updaters \cup Deleters \cup Getters, IdError(r) # "nil"
      PROVE  IdError(r) \in Invalid /\ HasInvalidField(r)
  BY <1>1, InvalidFields DEF IdError, Updaters, Deleters, Getters
<1>2. CASE r.op \in Deleters \cup Getters
  BY <1>1, <1>2, WhichError, StatusOfError
<1>3. CASE r.op = "UpdateUser"
  <2>1. RequestError(r) = UpdateUserError(r)
    BY <1>3, WhichError
  <2>2. CASE r.status = Malformed
    BY <1>3, <2>1, <2>2, InvalidFields, StatusOfError DEF UpdateUserError
  <2>3. CASE r.status # Malformed
    BY <1>1, <1>3, <2>1, <2>3, StatusOfError DEF UpdateUserError, Updaters
  <2> QED
    BY <2>2, <2>3
<1>4. CASE r.op = "UpdateCompany"
  <2>1. RequestError(r) = UpdateCompanyError(r)
    BY <1>4, WhichError
  <2>2. CASE r.status = Malformed
    BY <1>4, <2>1, <2>2, InvalidFields, StatusOfError DEF UpdateCompanyError
  <2>3. CASE r.status # Malformed
    BY <1>1, <1>4, <2>1, <2>3, StatusOfError DEF UpdateCompanyError, Updaters
  <2> QED
    BY <2>2, <2>3
<1>5. CASE r.op = "UpdateEmployee"
  <2>1. RequestError(r) = UpdateEmployeeError(r)
    BY <1>5, WhichError
  <2>2. CASE r.status = Malformed
    BY <1>5, <2>1, <2>2, InvalidFields, StatusOfError DEF UpdateEmployeeError
  <2>3. CASE r.status # Malformed /\ BadDate \in {r.hired, r.terminated}
    BY <1>5, <2>1, <2>3, InvalidFields, StatusOfError DEF UpdateEmployeeError
  <2>4. CASE r.status # Malformed /\ BadDate \notin {r.hired, r.terminated}
    BY <1>1, <1>5, <2>1, <2>4, StatusOfError DEF UpdateEmployeeError, Updaters
  <2> QED
    BY <2>2, <2>3, <2>4
<1>6. CASE r.op = "CreateUser"
  BY <1>6, WhichError, InvalidFields, StatusOfError DEF CreateUserError
<1>7. CASE r.op = "CreateCompany"
  BY <1>7, WhichError, InvalidFields, StatusOfError DEF CreateCompanyError
<1>8. CASE r.op = "CreateEmployee"
  <2>1. RequestError(r) = CreateEmployeeError(r) /\ r \in CreateEmployeeRequest
    BY <1>8, WhichError, RequestType
  <2>2. CASE BadDate \in {r.hired, r.terminated} \/ r.status = Malformed \/ r.company = Blank \/ r.code = Malformed
    <3>1. CreateEmployeeError(r) \in Invalid
      BY <2>2 DEF CreateEmployeeError
    <3> QED
      BY <1>8, <2>1, <2>2, <3>1, InvalidFields, StatusOfError
  <2>3. CASE r.user \in {Malformed, Blank}
    <3>1. CreateEmployeeError(r) \in Invalid
      BY <2>3 DEF CreateEmployeeError, normalizeUserID
    <3> QED
      BY <1>8, <2>1, <2>3, <3>1, InvalidFields, StatusOfError
  <2>4. CASE ~( \/ BadDate \in {r.hired, r.terminated} \/ r.status = Malformed \/ r.company = Blank
                \/ r.code = Malformed \/ r.user \in {Malformed, Blank} )
    <3>1. CreateEmployeeError(r) = PeriodError(r.hired, r.terminated)
      BY <2>4 DEF CreateEmployeeError, normalizeUserID
    <3>2. PeriodError(r.hired, r.terminated) = "ErrInvalidDateRange"
      BY <2>1, <3>1 DEF PeriodError
    <3>3. r.hired \in Int /\ r.terminated \in Int
      BY <2>1 DEF CreateEmployeeRequest, Date, NoDate, BadDate
    <3>4. ~PeriodOK(r)
      BY <3>2, <3>3 DEF PeriodError, PeriodOK
    <3> QED
      BY <1>8, <2>1, <3>1, <3>2, <3>4, StatusOfError
  <2> QED
    BY <2>2, <2>3, <2>4
<1> QED
  BY <1>2, <1>3, <1>4, <1>5, <1>6, <1>7, <1>8, RequestType
     DEF UserOps, CompanyOps, EmployeeOps, Deleters, Getters
-------------------------------------------------------------------------------
(* What a call can do by itself while its function runs in the transaction.     *)
(* Each of the eighteen steps of the services is one of these five.             *)

Begins(c) == \E l \in {"find", "check", "write"} :
    /\ Begin(c, l)
    /\ l = "find" => req[c].op \in Updaters \cup Getters
    /\ l = "check" => req[c].op \in Creators
    /\ l = "write" => req[c].op \in Deleters

\* The key asked for is free.
Passes(c) == /\ pc[c] = "check" /\ Goto(c, "write")
             /\ req[c].op = "CreateEmployee" => req[c].company # Malformed
             /\ UNCHANGED <<tables, pend, req, seen, code, trans>>

Reads(c) == \E l \in {"check", "write", "commit"}, row \in UserRow \cup CompanyRow \cup EmployeeRow :
    /\ pc[c] = "find" /\ Goto(c, l)
    /\ seen' = [seen EXCEPT ![c] = row] /\ RowSeen(req[c], row)
    /\ l = "commit" => req[c].op \in Getters /\ ~HasInvalidField(req[c])
    /\ l # "commit" => req[c].op \in Updaters
    /\ l = "check" => /\ req[c].op # "UpdateUser" /\ req[c].code # Unset
                      /\ normalizeCode(req[c].code) # row.code
    /\ UNCHANGED <<tables, pend, req, code, trans>>

\* The statement is executed; the row is not committed yet.
Executes(c) == \E w \in Write :
    /\ pc[c] = "write" /\ Goto(c, "commit")
    /\ WriteFor(c, w) /\ Proper(w) /\ "ok" \in Answers(w) /\ ~MustWait(c, w)
    /\ w.kind = "insert" => \A d \in Call : Pending(d) => pend[d].id # w.id
    /\ ~HasInvalidField(req[c]) /\ ~Misread(req[c]) /\ ~HasInvalidPeriod(c)
    /\ pend' = [pend EXCEPT ![c] = w]
    /\ UNCHANGED <<tables, req, seen, code, trans>>

\* The code says what is the matter.
Justified(c, k) ==
    /\ k \in {"InvalidArgument", "AlreadyExists", "NotFound", "Internal"}
    /\ k = "InvalidArgument" => HasInvalidField(req[c]) \/ HasInvalidPeriod(c)
    /\ k = "AlreadyExists" => KeyIsTaken(c)
    /\ k = "NotFound" => SomethingIsMissing(c)
    /\ k = "Internal" => Malformed \in IdsAsked(req[c]) \/ Misread(req[c]) \/ req[c].op = "DeleteUser"

Refuses(c) == /\ pc[c] \in {"find", "check", "write"}
              /\ \E err : Refuse(c, err) /\ Justified(c, toStatusError(err))

Acts(c) == Begins(c) \/ Passes(c) \/ Reads(c) \/ Executes(c) \/ Refuses(c)

\* What a call's own part of the invariant says in plain words.
LEMMA AtCall ==
  ASSUME IInv, NEW c \in Call
  PROVE  /\ TypeOK /\ TablesInv /\ TablesTypeOK /\ CallInv(c)
         /\ pc[c] \in {"begin", "find", "check", "write", "commit"} =>
               req[c] \in Request /\ RequestError(req[c]) = "nil"
         /\ pc[c] \in {"find", "check", "write"} => ~Pending(c)
<1>1. TypeOK /\ TablesInv /\ TablesTypeOK /\ CallInv(c)
  BY DEF IInv, TypeOK
<1>2. pc[c] \in {"begin", "find", "check", "write", "commit"} => req[c] \in Request /\ RequestError(req[c]) = "nil"
  BY <1>1 DEF TypeOK, CallInv, TransAtLocation, RequestAtLocation
<1>3. pc[c] \in {"find", "check", "write"} => ~Pending(c)
  BY <1>1 DEF CallInv, WriteAtLocation
<1> QED
  BY <1>1, <1>2, <1>3

\* An executed write, or the refusal of one.
LEMMA ExecuteShape ==
  ASSUME NEW c \in Call, NEW w \in Write, NEW a \in Answers(w), NEW err,
         pc[c] = "write", Execute(c, w, a, err),
         a = "ok" => /\ WriteFor(c, w) /\ Proper(w) /\ ~HasInvalidField(req[c]) /\ ~Misread(req[c]) /\ ~HasInvalidPeriod(c)
                     /\ w.kind = "insert" => \A d \in Call : Pending(d) => pend[d].id # w.id,
         a # "ok" => Justified(c, toStatusError(err))
  PROVE  Executes(c) \/ Refuses(c)
<1>1. CASE a = "ok"
  BY <1>1 DEF Execute, Executes
<1>2. CASE a # "ok"
  BY <1>2 DEF Execute, Refuses
<1> QED
  BY <1>1, <1>2

\* BEGIN.
LEMMA BeginShape ==
  ASSUME IInv, NEW c \in Call, BeginUser(c) \/ BeginCompany(c) \/ BeginEmployee(c)
  PROVE  Begins(c)
<1>1. CASE BeginUser(c)
  <2>1. CASE req[c].op = "CreateUser"
    BY <1>1, <2>1 DEF BeginUser, Begins, Creators
  <2>2. CASE req[c].op = "DeleteUser"
    BY <1>1, <2>2 DEF BeginUser, Begins, Deleters
  <2>3. CASE req[c].op \in {"UpdateUser", "GetUser"}
    BY <1>1, <2>3 DEF BeginUser, Begins, Updaters, Getters
  <2> QED
    BY <1>1, <2>1, <2>2, <2>3 DEF BeginUser, UserOps
<1>2. CASE BeginCompany(c)
  <2>1. CASE req[c].op = "CreateCompany"
    BY <1>2, <2>1 DEF BeginCompany, Begins, Creators
  <2>2. CASE req[c].op = "DeleteCompany"
    BY <1>2, <2>2 DEF BeginCompany, Begins, Deleters
  <2>3. CASE req[c].op \in {"UpdateCompany", "GetCompany"}
    BY <1>2, <2>3 DEF BeginCompany, Begins, Updaters, Getters
  <2> QED
    BY <1>2, <2>1, <2>2, <2>3 DEF BeginCompany, CompanyOps
<1>3. CASE BeginEmployee(c)
  <2>1. CASE req[c].op = "CreateEmployee"
    BY <1>3, <2>1 DEF BeginEmployee, Begins, Creators
  <2>2. CASE req[c].op = "DeleteEmployee"
    BY <1>3, <2>2 DEF BeginEmployee, Begins, Deleters
  <2>3. CASE req[c].op \in {"UpdateEmployee", "GetEmployee"}
    BY <1>3, <2>3 DEF BeginEmployee, Begins, Updaters, Getters
  <2> QED
    BY <1>3, <2>1, <2>2, <2>3 DEF BeginEmployee, EmployeeOps
<1> QED
  BY <1>1, <1>2, <1>3

\* The three services look a key up in the same way.
LEMMA CheckShape ==
  ASSUME IInv, NEW c \in Call,
         ensureEmailNotExists(c) \/ ensureCodeNotExists(c) \/ ensureEmployeeCodeNotExists(c)
  PROVE  Passes(c) \/ Refuses(c)
<1>0. /\ pc[c] = "check" /\ req[c] \in Request /\ RequestError(req[c]) = "nil"
      /\ SeenAtLocation(c) /\ TablesTypeOK /\ TypeOK
  BY AtCall DEF ensureEmailNotExists, ensureCodeNotExists, ensureEmployeeCodeNotExists, CallInv
<1>1. CASE ensureEmailNotExists(c)
  <2>1. req[c].op = "CreateUser"
    BY <1>1 DEF ensureEmailNotExists
  <2>2. KeyOwners(c) = FindByEmail(normalizeEmail(req[c].email))
    BY <2>1 DEF KeyOwners, KeyAsked, CompanyOps
  <2>3. CASE KeyOwners(c) = {}
    BY <1>0, <1>1, <2>1, <2>2, <2>3 DEF ensureEmailNotExists, Passes
  <2>4. CASE KeyOwners(c) # {}
    <3>1. Refuse(c, "ErrEmailAlreadyExists")
      BY <1>1, <2>2, <2>4 DEF ensureEmailNotExists
    <3>2. KeyIsTaken(c)
      BY <2>1, <2>4 DEF KeyIsTaken, Updates
    <3>3. toStatusError("ErrEmailAlreadyExists") = "AlreadyExists"
      BY StatusOfError DEF Duplicate
    <3> QED
      BY <1>0, <3>1, <3>2, <3>3 DEF Refuses, Justified
  <2> QED
    BY <2>3, <2>4
<1>2. CASE ensureCodeNotExists(c)
  <2>1. req[c].op \in {"CreateCompany", "UpdateCompany"} /\ req[c].op # "CreateEmployee"
    BY <1>2 DEF ensureCodeNotExists
  <2>2. req[c].op = "UpdateCompany" => req[c].code # Unset /\ normalizeCode(req[c].code) # seen[c].code
    BY <1>0 DEF SeenAtLocation, Updaters
  <2>3. req[c].op = "CreateCompany" => req[c].code # Unset
    BY <1>0, ValidRequest, UseCasesAssumption
  <2>4. KeyAsked(c) = normalizeCode(req[c].code)
    BY <2>1, <2>2, <2>3 DEF KeyAsked
  <2>5. KeyOwners(c) = FindByCode(normalizeCode(req[c].code))
    BY <2>1, <2>4 DEF KeyOwners, CompanyOps
  <2>6. CASE KeyOwners(c) = {}
    BY <1>0, <1>2, <2>1, <2>5, <2>6 DEF ensureCodeNotExists, Passes
  <2>7. CASE KeyOwners(c) # {}
    <3>1. Refuse(c, "ErrCodeAlreadyExists")
      BY <1>2, <2>5, <2>7 DEF ensureCodeNotExists
    <3>2. KeyIsTaken(c)
      BY <2>1, <2>2, <2>4, <2>7 DEF KeyIsTaken, Updates
    <3>3. toStatusError("ErrCodeAlreadyExists") = "AlreadyExists"
      BY StatusOfError DEF Duplicate
    <3> QED
      BY <1>0, <3>1, <3>2, <3>3 DEF Refuses, Justified
  <2> QED
    BY <2>6, <2>7
<1>3. CASE ensureEmployeeCodeNotExists(c)
  <2>1. req[c].op \in {"CreateEmployee", "UpdateEmployee"}
    BY <1>3 DEF ensureEmployeeCodeNotExists
  <2>2. req[c].op = "UpdateEmployee" =>
           /\ req[c].code # Unset /\ normalizeCode(req[c].code) # seen[c].code
           /\ seen[c] \in EmployeeRow
    BY <1>0 DEF SeenAtLocation, Updaters, RowSeen
  <2>3. req[c].op = "CreateEmployee" => req[c].code # Unset
    BY <1>0, ValidRequest, UseCasesAssumption
  <2>4. normalizeEmployeeCode(req[c].code) = normalizeCode(req[c].code)
    BY DEF normalizeCode, normalizeEmployeeCode
  <2>5. KeyAsked(c) = normalizeCode(req[c].code)
    BY <2>1, <2>2, <2>3 DEF KeyAsked
  <2>6. KeyOwners(c) = FindByCompanyAndCode(CompanyOf(c), normalizeEmployeeCode(req[c].code))
    BY <2>1, <2>4, <2>5 DEF KeyOwners, CompanyOps
  <2>7. CASE CompanyOf(c) = Malformed
    <3>1. req[c].op = "CreateEmployee" /\ req[c].company = Malformed
      <4>1. seen[c] \in EmployeeRow => seen[c].company # Malformed
        BY UseCasesAssumption DEF EmployeeRow
      <4> QED
        BY <2>1, <2>2, <2>7, <4>1 DEF CompanyOf
    <3>2. Refuse(c, translateEmployeePgError("22P02"))
      BY <1>3, <2>7 DEF ensureEmployeeCodeNotExists
    <3>3. Malformed \in IdsAsked(req[c])
      BY <3>1 DEF IdsAsked
    <3> QED
      BY <1>0, <3>2, <3>3, StatusOfAnswer DEF Refuses, Justified
  <2>8. CASE CompanyOf(c) # Malformed /\ KeyOwners(c) = {}
    <3>1. Goto(c, "write") /\ UNCHANGED <<tables, pend, req, seen, code, trans>>
      BY <1>3, <2>6, <2>8 DEF ensureEmployeeCodeNotExists
    <3> QED
      BY <1>0, <2>8, <3>1 DEF Passes, CompanyOf
  <2>9. CASE CompanyOf(c) # Malformed /\ KeyOwners(c) # {}
    <3>1. Refuse(c, "ErrEmployeeCodeAlreadyExists")
      BY <1>3, <2>6, <2>9 DEF ensureEmployeeCodeNotExists
    <3>2. KeyIsTaken(c)
      BY <2>1, <2>2, <2>5, <2>9 DEF KeyIsTaken, Updates
    <3>3. toStatusError("ErrEmployeeCodeAlreadyExists") = "AlreadyExists"
      BY StatusOfError DEF Duplicate
    <3> QED
      BY <1>0, <3>1, <3>2, <3>3 DEF Refuses, Justified
  <2> QED
    BY <2>7, <2>8, <2>9
<1> QED
  BY <1>1, <1>2, <1>3

\* What it takes for a refusal to be true, by operation.
LEMMA MissingMeans ==
  ASSUME NEW c \in Call
  PROVE  LET r == req[c]
         IN  /\ r.op \in UserOps \ {"CreateUser"} /\ r.id \notin Live(users) => SomethingIsMissing(c)
             /\ r.op \in CompanyOps \ {"CreateCompany"} /\ r.id \notin Live(companies) => SomethingIsMissing(c)
             /\ r.op \in EmployeeOps \ {"CreateEmployee"} /\ r.id \notin Live(employees) => SomethingIsMissing(c)
             /\ r.op = "CreateEmployee" /\ (r.company \notin Live(companies) \/ r.user \notin Live(users)) =>
                   SomethingIsMissing(c)
             /\ r.op = "UpdateEmployee" /\ MergedEmployee(r, seen[c]).user \notin Live(users) =>
                   SomethingIsMissing(c)
<1> DEFINE r == req[c]
<1> USE DEF UserOps, CompanyOps, EmployeeOps
<1>1. r.op \in UserOps \ {"CreateUser"} /\ r.id \notin Live(users) => SomethingIsMissing(c)
  BY DEF SomethingIsMissing
<1>2. r.op \in CompanyOps \ {"CreateCompany"} /\ r.id \notin Live(companies) => SomethingIsMissing(c)
  BY DEF SomethingIsMissing
<1>3. r.op \in {"DeleteEmployee", "GetEmployee"} /\ r.id \notin Live(employees) => SomethingIsMissing(c)
  BY DEF SomethingIsMissing
<1>4. r.op = "CreateEmployee" /\ (r.company \notin Live(companies) \/ r.user \notin Live(users)) =>
         SomethingIsMissing(c)
  BY DEF SomethingIsMissing
<1>5. /\ r.op = "UpdateEmployee"
      /\ r.id \notin Live(employees) \/ MergedEmployee(r, seen[c]).user \notin Live(users)
      => SomethingIsMissing(c)
  BY DEF SomethingIsMissing
<1> QED
  BY <1>1, <1>2, <1>3, <1>4, <1>5

\* A key that another live row holds is found taken by the look-up.
LEMMA TakenMeans ==
  ASSUME NEW c \in Call
  PROVE  LET r == req[c]
         IN  /\ r.op = "CreateUser" /\ (\E u \in Live(users) : users[u].email = KeyAsked(c)) => KeyIsTaken(c)
             /\ r.op = "CreateCompany" /\ (\E k \in Live(companies) : companies[k].code = KeyAsked(c)) =>
                   KeyIsTaken(c)
             /\ r.op = "UpdateCompany" /\ (\E k \in Live(companies) \ {r.id} : companies[k].code = KeyAsked(c)) =>
                   KeyIsTaken(c)
             /\ /\ r.op = "CreateEmployee"
                /\ \E e \in Live(employees) : employees[e].company = r.company /\ employees[e].code = KeyAsked(c)
                => KeyIsTaken(c)
             /\ /\ r.op = "UpdateEmployee"
                /\ \E e \in Live(employees) \ {r.id} :
                      employees[e].company = seen[c].company /\ employees[e].code = KeyAsked(c)
                => KeyIsTaken(c)
<1> DEFINE r == req[c]
<1>1. /\ r.op = "CreateUser" => KeyOwners(c) = FindByEmail(KeyAsked(c))
      /\ r.op \in {"CreateCompany", "UpdateCompany"} => KeyOwners(c) = FindByCode(KeyAsked(c))
      /\ r.op \in {"CreateEmployee", "UpdateEmployee"} =>
            KeyOwners(c) = FindByCompanyAndCode(CompanyOf(c), KeyAsked(c))
  BY DEF KeyOwners, CompanyOps
<1>2. /\ r.op = "CreateEmployee" => CompanyOf(c) = r.company
      /\ r.op = "UpdateEmployee" => CompanyOf(c) = seen[c].company
  BY DEF CompanyOf
<1>3. \A i \in KeyOwners(c) : ~(Updates(c) /\ i = r.id) => KeyIsTaken(c)
  BY DEF KeyIsTaken
<1>4. Updates(c) <=> r.op \in {"UpdateCompany", "UpdateEmployee"}
  BY DEF Updates
<1> QED
  BY <1>1, <1>2, <1>3, <1>4 DEF FindByEmail, FindByCode, FindByCompanyAndCode, EmployeesOf

\* The three services read a row in the same way.
LEMMA FindShape ==
  ASSUME IInv, NEW c \in Call, FindUser(c) \/ FindCompany(c) \/ FindEmployee(c)
  PROVE  Reads(c) \/ Refuses(c)
<1> DEFINE r == req[c]
<1>0. /\ pc[c] = "find" /\ r \in Request /\ RequestError(r) = "nil"
      /\ TablesTypeOK /\ TablesInv /\ Lowered
  BY AtCall DEF FindUser, FindCompany, FindEmployee, TablesInv
<1>1. ASSUME r.op \notin Creators PROVE IdsAsked(r) = {r.id}
  BY <1>1 DEF IdsAsked, Creators
<1>2. CASE FindUser(c)
  <2>1. r.op \in {"UpdateUser", "GetUser"} /\ r.op \in UserOps /\ r.op \notin Creators
    BY <1>2 DEF FindUser, UserOps, Creators
  <2>2. CASE r.id = Malformed
    BY <1>0, <1>1, <1>2, <2>1, <2>2, StatusOfAnswer DEF FindUser, Refuses, Justified
  <2>3. CASE r.id # Malformed /\ r.id \notin Live(users)
    <3>1. SomethingIsMissing(c)
      BY <2>1, <2>3, MissingMeans DEF Creators
    <3> QED
      BY <1>0, <1>2, <2>3, <3>1, StatusOfAnswer DEF FindUser, Refuses, Justified
  <2>4. CASE r.id # Malformed /\ r.id \in Live(users) /\ r.op = "UpdateUser" /\ r.name = Blank
    <3>1. HasInvalidField(r) /\ toStatusError("ErrInvalidName") = "InvalidArgument"
      BY <1>0, <2>4, InvalidFields, StatusOfError DEF Invalid
    <3> QED
      BY <1>0, <1>2, <2>4, <3>1 DEF FindUser, Refuses, Justified
  <2>5. CASE r.id # Malformed /\ r.id \in Live(users) /\ ~(r.op = "UpdateUser" /\ r.name = Blank)
    <3>1. r.id \in UserId /\ users[r.id] \in UserRow /\ users[r.id] # Unborn
      BY <1>0, <2>5, LiveRows DEF NotLive
    <3>2. users[r.id].email.spelling = "lower"
      BY <1>0, <2>5 DEF Lowered
    <3>3. RowSeen(r, users[r.id])
      BY <2>1, <2>5, <3>1, <3>2 DEF RowSeen, Updaters, Getters
    <3>4. /\ seen' = [seen EXCEPT ![c] = users[r.id]]
          /\ Goto(c, IF r.op = "GetUser" THEN "commit" ELSE "write")
          /\ UNCHANGED <<tables, pend, req, code, trans>>
      BY <1>2, <2>5 DEF FindUser
    <3>5. r.op = "GetUser" => r.op \in Getters /\ ~HasInvalidField(r)
      BY <1>0, <3>1, InvalidFields, UseCasesAssumption DEF Getters
    <3>6. CASE r.op = "GetUser"
      BY <1>0, <3>1, <3>3, <3>4, <3>5, <3>6 DEF Reads
    <3>7. CASE r.op = "UpdateUser"
      BY <1>0, <3>1, <3>3, <3>4, <3>7 DEF Reads, Updaters
    <3> QED
      BY <2>1, <3>6, <3>7
  <2> QED
    BY <2>2, <2>3, <2>4, <2>5
<1>3. CASE FindCompany(c)
  <2>1. r.op \in {"UpdateCompany", "GetCompany"} /\ r.op \in CompanyOps /\ r.op \notin Creators
    BY <1>3 DEF FindCompany, CompanyOps, Creators
  <2>2. CASE r.id = Malformed
    BY <1>0, <1>1, <1>3, <2>1, <2>2, StatusOfAnswer DEF FindCompany, Refuses, Justified
  <2>3. CASE r.id # Malformed /\ r.id \notin Live(companies)
    <3>1. SomethingIsMissing(c)
      BY <2>1, <2>3, MissingMeans DEF Creators
    <3> QED
      BY <1>0, <1>3, <2>3, <3>1, StatusOfAnswer DEF FindCompany, Refuses, Justified
  <2>4. CASE r.id # Malformed /\ r.id \in Live(companies) /\ r.op = "UpdateCompany" /\ r.name = Blank
    <3>1. HasInvalidField(r) /\ toStatusError("ErrInvalidName") = "InvalidArgument"
      BY <1>0, <2>4, InvalidFields, StatusOfError DEF Invalid
    <3> QED
      BY <1>0, <1>3, <2>4, <3>1 DEF FindCompany, Refuses, Justified
  <2>5. CASE /\ r.id # Malformed /\ r.id \in Live(companies) /\ r.op = "UpdateCompany"
             /\ r.name # Blank /\ r.code = Malformed
    <3>1. HasInvalidField(r) /\ toStatusError("ErrInvalidCode") = "InvalidArgument"
      BY <1>0, <2>5, InvalidFields, StatusOfError DEF Invalid
    <3> QED
      BY <1>0, <1>3, <2>5, <3>1 DEF FindCompany, Refuses, Justified
  <2>6. CASE /\ r.id # Malformed /\ r.id \in Live(companies)
             /\ r.op = "UpdateCompany" => r.name # Blank /\ r.code # Malformed
    <3>1. r.id \in CompanyId /\ companies[r.id] \in CompanyRow
      BY <1>0, <2>6, LiveRows
    <3>2. companies[r.id].code.spelling = "lower"
      BY <1>0, <2>6 DEF Lowered
    <3>3. RowSeen(r, companies[r.id])
      BY <2>1, <2>6, <3>1, <3>2 DEF RowSeen, Updaters, Getters
    <3>4. /\ seen' = [seen EXCEPT ![c] = companies[r.id]]
          /\ Goto(c, IF r.op = "GetCompany" THEN "commit"
                     ELSE IF CodeChanges(r, companies[r.id]) THEN "check" ELSE "write")
          /\ UNCHANGED <<tables, pend, req, code, trans>>
      BY <1>3, <2>6 DEF FindCompany
    <3>5. r.op = "GetCompany" => r.op \in Getters /\ ~HasInvalidField(r)
      BY <1>0, <3>1, InvalidFields, UseCasesAssumption DEF Getters
    <3>6. CASE r.op = "GetCompany"
      BY <1>0, <3>1, <3>3, <3>4, <3>5, <3>6 DEF Reads
    <3>7. CASE r.op = "UpdateCompany" /\ CodeChanges(r, companies[r.id])
      BY <1>0, <3>1, <3>3, <3>4, <3>7 DEF Reads, Updaters, CodeChanges
    <3>8. CASE r.op = "UpdateCompany" /\ ~CodeChanges(r, companies[r.id])
      BY <1>0, <3>1, <3>3, <3>4, <3>8 DEF Reads, Updaters
    <3> QED
      BY <2>1, <3>6, <3>7, <3>8
  <2> QED
    BY <2>2, <2>3, <2>4, <2>5, <2>6
<1>4. CASE FindEmployee(c)
  <2>1. /\ r.op \in {"UpdateEmployee", "GetEmployee"} /\ r.op \in EmployeeOps /\ r.op \notin Creators
    BY <1>4 DEF FindEmployee, EmployeeOps, Creators
  <2>2. CASE r.id = Malformed
    BY <1>0, <1>1, <1>4, <2>1, <2>2, StatusOfAnswer DEF FindEmployee, Refuses, Justified
  <2>3. CASE r.id # Malformed /\ r.id \notin Live(employees)
    <3>1. SomethingIsMissing(c)
      BY <2>1, <2>3, MissingMeans DEF Creators
    <3> QED
      BY <1>0, <1>4, <2>3, <3>1, StatusOfAnswer DEF FindEmployee, Refuses, Justified
  <2>4. CASE /\ r.id # Malformed /\ r.id \in Live(employees) /\ r.op = "UpdateEmployee"
             /\ r.code \in {Malformed, Blank}
    <3>1. HasInvalidField(r) /\ toStatusError("ErrInvalidEmployeeCode") = "InvalidArgument"
      BY <1>0, <2>4, InvalidFields, StatusOfError DEF Invalid
    <3> QED
      BY <1>0, <1>4, <2>4, <3>1 DEF FindEmployee, Refuses, Justified
  <2>5. CASE /\ r.id # Malformed /\ r.id \in Live(employees)
             /\ r.op = "UpdateEmployee" => r.code \notin {Malformed, Blank}
    <3>1. r.id \in EmployeeId /\ employees[r.id] \in EmployeeRow /\ employees[r.id] # Unborn
      BY <1>0, <2>5, LiveRows DEF NotLive
    <3>2. employees[r.id].code.spelling = "lower"
      BY <1>0, <2>5 DEF Lowered
    <3>3. RowSeen(r, employees[r.id])
      BY <2>1, <2>5, <3>1, <3>2 DEF RowSeen, Updaters, Getters
    <3>4. /\ seen' = [seen EXCEPT ![c] = employees[r.id]]
          /\ Goto(c, IF r.op = "GetEmployee" THEN "commit"
                     ELSE IF EmployeeCodeChanges(r, employees[r.id]) THEN "check" ELSE "write")
          /\ UNCHANGED <<tables, pend, req, code, trans>>
      BY <1>4, <2>5 DEF FindEmployee
    <3>5. r.op = "GetEmployee" => r.op \in Getters /\ ~HasInvalidField(r)
      BY <1>0, <3>1, InvalidFields, UseCasesAssumption DEF Getters
    <3>6. EmployeeCodeChanges(r, employees[r.id]) <=>
             r.code # Unset /\ normalizeCode(r.code) # employees[r.id].code
      BY DEF EmployeeCodeChanges, normalizeCode, normalizeEmployeeCode
    <3>7. CASE r.op = "GetEmployee"
      BY <1>0, <3>1, <3>3, <3>4, <3>5, <3>7 DEF Reads
    <3>8. CASE r.op = "UpdateEmployee" /\ EmployeeCodeChanges(r, employees[r.id])
      BY <1>0, <3>1, <3>3, <3>4, <3>6, <3>8 DEF Reads, Updaters
    <3>9. CASE r.op = "UpdateEmployee" /\ ~EmployeeCodeChanges(r, employees[r.id])
      BY <1>0, <3>1, <3>3, <3>4, <3>9 DEF Reads, Updaters
    <3> QED
      BY <2>1, <3>7, <3>8, <3>9
  <2> QED
    BY <2>2, <2>3, <2>4, <2>5
<1> QED
  BY <1>2, <1>3, <1>4

\* Lowering a key keeps its text.
LEMMA NormalizedKey ==
  ASSUME NEW k \in Key
  PROVE  /\ normalizeCode(k) \in Key /\ normalizeCode(k).spelling = "lower" /\ normalizeCode(k).text = k.text
         /\ normalizeEmail(k) = normalizeCode(k) /\ normalizeEmployeeCode(k) = normalizeCode(k)
  BY DEF normalizeCode, normalizeEmail, normalizeEmployeeCode, Key, Spelling

\* What is written back: a row of the table whose key is in lower case, and whose
\* address, or company, is the one that was read.
LEMMA MergedUserRow ==
  ASSUME NEW r \in UpdateUserRequest, NEW row \in UserRow, r.name # Blank, r.status # Malformed
  PROVE  MergedUser(r, row) \in UserRow /\ MergedUser(r, row).email = row.email
<1>1. r.name \in Name \cup {Unset} /\ r.status \in Status \cup {Unset}
  BY DEF UpdateUserRequest
<1> QED
  BY <1>1 DEF MergedUser, UserRow

\* A company merged from an accepted request is a row again, its code lower case.
LEMMA MergedCompanyRow ==
  ASSUME NEW r \in UpdateCompanyRequest, NEW row \in CompanyRow, row.code.spelling = "lower",
         r.name # Blank, r.status # Malformed, r.code # Malformed
  PROVE  /\ MergedCompany(r, row) \in CompanyRow /\ MergedCompany(r, row).code.spelling = "lower"
         /\ MergedCompany(r, row).code = IF r.code = Unset THEN row.code ELSE normalizeCode(r.code)
<1>1. r.name \in Name \cup {Unset} /\ r.status \in Status \cup {Unset} /\ r.code \in Key \cup {Unset}
  BY DEF UpdateCompanyRequest
<1>2. r.code # Unset => normalizeCode(r.code) \in Key /\ normalizeCode(r.code).spelling = "lower"
  BY <1>1, NormalizedKey
<1> QED
  BY <1>1, <1>2 DEF MergedCompany, CompanyRow

\* So is an employee, unless the request names a user whose id is no UUID.
LEMMA MergedEmployeeRow ==
  ASSUME NEW r \in UpdateEmployeeRequest, NEW row \in EmployeeRow, row.code.spelling = "lower",
         r.status # Malformed, r.code \notin {Malformed, Blank}, BadDate \notin {r.hired, r.terminated}
  PROVE  LET m == MergedEmployee(r, row)
         IN  /\ r.user \notin {Malformed, Blank, Urn} => m \in EmployeeRow
             /\ m.code.spelling = "lower"
             /\ m.code = IF r.code = Unset THEN row.code ELSE normalizeCode(r.code)
             /\ m.company = row.company /\ m.hired \in Int /\ m.terminated \in Int
<1>1. /\ r.status \in Status \cup {Unset} /\ r.code \in Key \cup {Unset}
      /\ r.user \in UserId \cup {Unset, Malformed, Blank, Urn}
      /\ r.hired \in Date \cup {NoDate, UnsetDate} /\ r.terminated \in Date \cup {NoDate, UnsetDate}
  BY DEF UpdateEmployeeRequest
<1>2. r.code # Unset => /\ normalizeCode(r.code) \in Key /\ normalizeCode(r.code).spelling = "lower"
                        /\ normalizeEmployeeCode(r.code) = normalizeCode(r.code)
  BY <1>1, NormalizedKey
<1> DEFINE m == MergedEmployee(r, row)
<1>3. /\ row.company \in CompanyId /\ row.code \in Key /\ row.user \in UserId /\ row.status \in Status
      /\ row.hired \in Date \cup {NoDate} /\ row.terminated \in Date \cup {NoDate}
      /\ DOMAIN row = {"company", "code", "user", "status", "hired", "terminated"}
  BY DEF EmployeeRow
<1>4. /\ m.code = (IF r.code = Unset THEN row.code ELSE normalizeEmployeeCode(r.code))
      /\ m.status = (IF r.status = Unset THEN row.status ELSE r.status)
      /\ m.hired = (IF r.hired = UnsetDate THEN row.hired ELSE r.hired)
      /\ m.terminated = (IF r.terminated = UnsetDate THEN row.terminated ELSE r.terminated)
      /\ m.company = row.company
  BY <1>3 DEF MergedEmployee
<1> HIDE DEF m
<1>5. /\ m.code \in Key /\ m.code.spelling = "lower"
      /\ m.code = IF r.code = Unset THEN row.code ELSE normalizeCode(r.code)
  BY <1>1, <1>2, <1>3, <1>4
<1>6. m.status \in Status /\ m.hired \in Date \cup {NoDate} /\ m.terminated \in Date \cup {NoDate}
  BY <1>1, <1>3, <1>4
<1>7. m.company = row.company
  BY <1>4
<1>8. r.user \notin {Malformed, Blank, Urn} => m \in EmployeeRow
  <2>1. DOMAIN m = {"company", "code", "user", "status", "hired", "terminated"}
    BY <1>3 DEF m, MergedEmployee
  <2>2. m.user = (IF r.user = Unset THEN row.user ELSE r.user)
    BY <1>3 DEF m, MergedEmployee
  <2>3. m = [i \in DOMAIN row |-> m[i]]
    BY DEF m, MergedEmployee
  <2>4. m = [company |-> m.company, code |-> m.code, user |-> m.user, status |-> m.status,
             hired |-> m.hired, terminated |-> m.terminated]
    BY <1>3, <2>1, <2>3
  <2> QED
    BY <1>1, <1>3, <1>5, <1>6, <1>7, <2>2, <2>4 DEF EmployeeRow
<1>9. m.hired \in Int /\ m.terminated \in Int
  BY <1>6 DEF Date, NoDate
<1> QED
  BY <1>5, <1>7, <1>8, <1>9 DEF m

\* The statements on users.
LEMMA WriteUserShape ==
  ASSUME IInv, NEW c \in Call, CreateUser(c) \/ UpdateUser(c) \/ DeleteUser(c)
  PROVE  Executes(c) \/ Refuses(c)
<1> DEFINE r == req[c]
<1>0. /\ pc[c] = "write" /\ r \in Request /\ RequestError(r) = "nil"
      /\ TablesTypeOK /\ TablesInv /\ SeenAtLocation(c)
  BY AtCall DEF CreateUser, UpdateUser, DeleteUser, CallInv
<1>1. r.op # "CreateEmployee" /\ r.op # "UpdateEmployee" => ~HasInvalidPeriod(c) /\ ~Misread(r)
  BY DEF HasInvalidPeriod, Misread
<1>2. CASE CreateUser(c)
  <2>1. r.op = "CreateUser"
    BY <1>2 DEF CreateUser
  <2>2. PICK u \in UserId : /\ users[u] = Unborn
                            /\ \A d \in Call : pend[d] # NoWrite => pend[d].id # u
                            /\ ExecuteUser(c, InsertUser(u, r))
    BY <1>2 DEF CreateUser
  <2> DEFINE w == InsertUser(u, r)
  <2>3. r.email \in Key /\ r.name \in Name
    BY <1>0, <2>1, ValidRequest
  <2>4. /\ w.table = "users" /\ w.kind = "insert" /\ w.id = u /\ w.row.email = normalizeEmail(r.email)
        /\ w \in Write /\ w.row.email.spelling = "lower"
    BY <2>3, NormalizedKey DEF InsertUser, Write, UserRow, Status
  <2>5. WriteFor(c, w)
    BY <2>1 DEF WriteFor
  <2>6. PICK a \in Answers(w) : Execute(c, w, a, translatePgError(a))
    BY <2>2 DEF ExecuteUser
  <2> HIDE DEF w
  <2>7. Proper(w)
    BY <2>2, <2>4 DEF Proper, Rows
  <2>8. ~HasInvalidField(r)
    BY <1>0, <2>1, <2>3, InvalidFields, UseCasesAssumption
  <2>9. w.kind = "insert" => \A d \in Call : Pending(d) => pend[d].id # w.id
    BY <2>2, <2>4 DEF Pending
  <2>10. ASSUME a # "ok" PROVE Justified(c, toStatusError(translatePgError(a)))
    <3>1. a = "23505" /\ \E x \in Live(users) : users[x].email = normalizeEmail(r.email)
      BY <2>4, <2>10, UserRefusals
    <3>2. KeyIsTaken(c)
      BY <2>1, <3>1, TakenMeans DEF KeyAsked
    <3> QED
      BY <3>1, <3>2, StatusOfAnswer DEF Justified
  <2> QED
    BY <1>0, <1>1, <2>1, <2>4, <2>5, <2>6, <2>7, <2>8, <2>9, <2>10, ExecuteShape
<1>3. CASE UpdateUser(c)
  <2>1. r.op = "UpdateUser"
    BY <1>3 DEF UpdateUser
  <2> DEFINE w == UpdateUserRow(r.id, MergedUser(r, seen[c]))
  <2>2. RowSeen(r, seen[c])
    BY <1>0, <2>1 DEF SeenAtLocation, Updaters
  <2>3. /\ seen[c] \in UserRow /\ r.id \in UserId /\ r.name # Blank /\ seen[c].email.spelling = "lower"
        /\ users[r.id] # Unborn /\ (r.id \in Live(users) => users[r.id].email = seen[c].email)
    BY <2>1, <2>2 DEF RowSeen
  <2>4. r \in UpdateUserRequest /\ r.status # Malformed
    BY <1>0, <2>1, RequestType, ValidRequest, UseCasesAssumption
  <2>5. MergedUser(r, seen[c]) \in UserRow /\ MergedUser(r, seen[c]).email = seen[c].email
    BY <2>3, <2>4, MergedUserRow
  <2>6. /\ w.table = "users" /\ w.kind = "update" /\ w.id = r.id /\ w.row.email = seen[c].email
        /\ w \in Write
    BY <2>3, <2>5 DEF UpdateUserRow, Write
  <2>7. WriteFor(c, w)
    BY <2>1 DEF WriteFor
  <2>8. PICK a \in Answers(w) : Execute(c, w, a, translatePgError(a))
    BY <1>3 DEF UpdateUser, ExecuteUser
  <2> HIDE DEF w
  <2>9. Proper(w)
    BY <2>3, <2>6 DEF Proper
  <2>10. ~HasInvalidField(r)
    BY <1>0, <2>1, <2>3, <2>4, InvalidFields, UseCasesAssumption
  <2>11. ASSUME a # "ok" PROVE Justified(c, toStatusError(translatePgError(a)))
    <3>1. ~(SetsKey(w) /\ a = "23505")
      BY <2>3, <2>6 DEF SetsKey, UniqueKey, Rows
    <3>2. a = "no rows" /\ r.id \notin Live(users)
      BY <2>6, <2>11, <3>1, UserRefusals
    <3>3. SomethingIsMissing(c)
      BY <2>1, <3>2, MissingMeans DEF UserOps
    <3> QED
      BY <3>2, <3>3, StatusOfAnswer DEF Justified
  <2> QED
    BY <1>0, <1>1, <2>1, <2>6, <2>7, <2>8, <2>9, <2>10, <2>11, ExecuteShape
<1>4. CASE DeleteUser(c)
  <2>1. r.op = "DeleteUser"
    BY <1>4 DEF DeleteUser
  <2>2. CASE r.id = Malformed
    BY <1>0, <1>4, <2>1, <2>2, StatusOfAnswer DEF DeleteUser, Refuses, Justified
  <2>3. CASE r.id # Malformed
    <3> DEFINE w == DeleteUserRow(r.id)
    <3>1. r.id \in UserId
      BY <1>0, <2>1, <2>3, ValidRequest
    <3>2. w.table = "users" /\ w.kind = "delete" /\ w.id = r.id /\ w \in Write
      BY <3>1 DEF DeleteUserRow, Write
    <3>3. WriteFor(c, w)
      BY <2>1 DEF WriteFor
    <3>4. PICK a \in Answers(w) : Execute(c, w, a, translatePgError(a))
      BY <1>4, <2>3 DEF DeleteUser, ExecuteUser
    <3> HIDE DEF w
    <3>5. Proper(w)
      BY <3>2 DEF Proper
    <3>6. ~HasInvalidField(r)
      BY <1>0, <2>1, <3>1, InvalidFields, UseCasesAssumption DEF Deleters
    <3>7. ASSUME a # "ok" PROVE Justified(c, toStatusError(translatePgError(a)))
      <4>1. \/ a = "no rows" /\ r.id \notin Live(users)
            \/ a = "employees_user_id_fkey"
        BY <3>2, <3>7, UserRefusals
      <4>2. a = "no rows" => SomethingIsMissing(c)
        BY <2>1, <4>1, MissingMeans DEF UserOps
      <4> QED
        BY <2>1, <4>1, <4>2, StatusOfAnswer DEF Justified
    <3> QED
      BY <1>0, <1>1, <2>1, <3>2, <3>3, <3>4, <3>5, <3>6, <3>7, ExecuteShape
  <2> QED
    BY <2>2, <2>3
<1> QED
  BY <1>2, <1>3, <1>4

\* The statements on companies.
LEMMA WriteCompanyShape ==
  ASSUME IInv, NEW c \in Call, CreateCompany(c) \/ UpdateCompany(c) \/ DeleteCompany(c)
  PROVE  Executes(c) \/ Refuses(c)
<1> DEFINE r == req[c]
<1>0. /\ pc[c] = "write" /\ r \in Request /\ RequestError(r) = "nil"
      /\ TablesTypeOK /\ TablesInv /\ SeenAtLocation(c)
  BY AtCall DEF CreateCompany, UpdateCompany, DeleteCompany, CallInv
<1>1. r.op # "CreateEmployee" /\ r.op # "UpdateEmployee" => ~HasInvalidPeriod(c) /\ ~Misread(r)
  BY DEF HasInvalidPeriod, Misread
<1>2. CASE CreateCompany(c)
  <2>1. r.op = "CreateCompany"
    BY <1>2 DEF CreateCompany
  <2>2. PICK k \in CompanyId : /\ companies[k] = Unborn
                               /\ \A d \in Call : pend[d] # NoWrite => pend[d].id # k
                               /\ ExecuteCompany(c, InsertCompany(k, r))
    BY <1>2 DEF CreateCompany
  <2> DEFINE w == InsertCompany(k, r)
  <2>3. r.code \in Key /\ r.name \in Name /\ r.code # Unset
    BY <1>0, <2>1, ValidRequest, UseCasesAssumption
  <2>4. /\ w.table = "companies" /\ w.kind = "insert" /\ w.id = k /\ w.row.code = normalizeCode(r.code)
        /\ w \in Write /\ w.row.code.spelling = "lower"
    BY <2>3, NormalizedKey DEF InsertCompany, Write, CompanyRow, Status
  <2>5. WriteFor(c, w)
    BY <2>1 DEF WriteFor
  <2>6. PICK a \in Answers(w) : Execute(c, w, a, translateCompanyPgError(a))
    BY <2>2 DEF ExecuteCompany
  <2> HIDE DEF w
  <2>7. Proper(w)
    BY <2>2, <2>4 DEF Proper, Rows
  <2>8. ~HasInvalidField(r)
    BY <1>0, <2>1, <2>3, InvalidFields, UseCasesAssumption
  <2>9. w.kind = "insert" => \A d \in Call : Pending(d) => pend[d].id # w.id
    BY <2>2, <2>4 DEF Pending
  <2>10. ASSUME a # "ok" PROVE Justified(c, toStatusError(translateCompanyPgError(a)))
    <3>1. a = "23505" /\ \E x \in Live(companies) : companies[x].code = normalizeCode(r.code)
      BY <2>4, <2>10, CompanyRefusals
    <3>2. KeyIsTaken(c)
      BY <2>1, <2>3, <3>1, TakenMeans DEF KeyAsked
    <3> QED
      BY <3>1, <3>2, StatusOfAnswer DEF Justified
  <2> QED
    BY <1>0, <1>1, <2>1, <2>4, <2>5, <2>6, <2>7, <2>8, <2>9, <2>10, ExecuteShape
<1>3. CASE UpdateCompany(c)
  <2>1. r.op = "UpdateCompany"
    BY <1>3 DEF UpdateCompany
  <2> DEFINE w == UpdateCompanyRow(r.id, MergedCompany(r, seen[c]))
  <2>2. RowSeen(r, seen[c])
    BY <1>0, <2>1 DEF SeenAtLocation, Updaters
  <2>3. /\ seen[c] \in CompanyRow /\ r.id \in CompanyId /\ r.name # Blank /\ r.code # Malformed
        /\ seen[c].code.spelling = "lower"
    BY <2>1, <2>2 DEF RowSeen
  <2>4. r \in UpdateCompanyRequest /\ r.status # Malformed
    BY <1>0, <2>1, RequestType, ValidRequest, UseCasesAssumption
  <2>5. /\ MergedCompany(r, seen[c]) \in CompanyRow /\ MergedCompany(r, seen[c]).code = KeyAsked(c)
        /\ MergedCompany(r, seen[c]).code.spelling = "lower"
    BY <2>1, <2>3, <2>4, MergedCompanyRow DEF KeyAsked
  <2>6. /\ w.table = "companies" /\ w.kind = "update" /\ w.id = r.id /\ w.row.code = KeyAsked(c)
        /\ w.row.code.spelling = "lower" /\ w \in Write
    BY <2>3, <2>5 DEF UpdateCompanyRow, Write
  <2>7. WriteFor(c, w)
    BY <2>1 DEF WriteFor
  <2>8. PICK a \in Answers(w) : Execute(c, w, a, translateCompanyPgError(a))
    BY <1>3 DEF UpdateCompany, ExecuteCompany
  <2> HIDE DEF w
  <2>9. Proper(w)
    BY <2>6 DEF Proper
  <2>10. ~HasInvalidField(r)
    BY <1>0, <2>1, <2>3, <2>4, InvalidFields, UseCasesAssumption
  <2>11. ASSUME a # "ok" PROVE Justified(c, toStatusError(translateCompanyPgError(a)))
    <3>1. \/ a = "no rows" /\ r.id \notin Live(companies)
          \/ a = "23505" /\ \E x \in Live(companies) \ {r.id} : companies[x].code = KeyAsked(c)
      BY <2>6, <2>11, CompanyRefusals
    <3>2. a = "no rows" => SomethingIsMissing(c)
      BY <2>1, <3>1, MissingMeans DEF CompanyOps
    <3>3. a = "23505" => KeyIsTaken(c)
      BY <2>1, <3>1, TakenMeans
    <3> QED
      BY <3>1, <3>2, <3>3, StatusOfAnswer DEF Justified
  <2> QED
    BY <1>0, <1>1, <2>1, <2>6, <2>7, <2>8, <2>9, <2>10, <2>11, ExecuteShape
<1>4. CASE DeleteCompany(c)
  <2>1. r.op = "DeleteCompany"
    BY <1>4 DEF DeleteCompany
  <2>2. CASE r.id = Malformed
    <3>1. Malformed \in IdsAsked(r)
      BY <2>1, <2>2 DEF IdsAsked
    <3> QED
      BY <1>0, <1>4, <2>2, <3>1, StatusOfAnswer DEF DeleteCompany, Refuses, Justified
  <2>3. CASE r.id # Malformed
    <3> DEFINE w == DeleteCompanyRow(r.id)
    <3>1. r.id \in CompanyId
      BY <1>0, <2>1, <2>3, ValidRequest
    <3>2. w.table = "companies" /\ w.kind = "delete" /\ w.id = r.id /\ w \in Write
      BY <3>1 DEF DeleteCompanyRow, Write
    <3>3. WriteFor(c, w)
      BY <2>1 DEF WriteFor
    <3>4. PICK a \in Answers(w) : Execute(c, w, a, translateCompanyPgError(a))
      BY <1>4, <2>3 DEF DeleteCompany, ExecuteCompany
    <3> HIDE DEF w
    <3>5. Proper(w)
      BY <3>2 DEF Proper
    <3>6. ~HasInvalidField(r)
      BY <1>0, <2>1, <3>1, InvalidFields, UseCasesAssumption DEF Deleters
    <3>7. ASSUME a # "ok" PROVE Justified(c, toStatusError(translateCompanyPgError(a)))
      <4>1. a = "no rows" /\ r.id \notin Live(companies)
        BY <3>2, <3>7, CompanyRefusals
      <4>2. SomethingIsMissing(c)
        BY <2>1, <4>1, MissingMeans DEF CompanyOps
      <4> QED
        BY <4>1, <4>2, StatusOfAnswer DEF Justified
    <3> QED
      BY <1>0, <1>1, <2>1, <3>2, <3>3, <3>4, <3>5, <3>6, <3>7, ExecuteShape
  <2> QED
    BY <2>2, <2>3
<1> QED
  BY <1>2, <1>3, <1>4

\* The statements on employees.
LEMMA WriteEmployeeShape ==
  ASSUME IInv, NEW c \in Call, CreateEmployee(c) \/ UpdateEmployee(c) \/ DeleteEmployee(c)
  PROVE  Executes(c) \/ Refuses(c)
<1> DEFINE r == req[c]
<1>0. /\ pc[c] = "write" /\ r \in Request /\ RequestError(r) = "nil"
      /\ TablesTypeOK /\ TablesInv /\ SeenAtLocation(c) /\ RequestAtLocation(c)
  BY AtCall DEF CreateEmployee, UpdateEmployee, DeleteEmployee, CallInv
<1>1. CASE CreateEmployee(c) /\ r.user # Urn
  <2>1. r.op = "CreateEmployee"
    BY <1>1 DEF CreateEmployee
  <2>2. PICK e \in EmployeeId : /\ employees[e] = Unborn
                                /\ \A d \in Call : pend[d] # NoWrite => pend[d].id # e
                                /\ ExecuteEmployee(c, InsertEmployee(e, r))
    BY <1>1 DEF CreateEmployee
  <2> DEFINE w == InsertEmployee(e, r)
  <2>3. /\ r.company \in CompanyId /\ r.code \in Key /\ r.user \in UserId /\ r.code # Unset
        /\ r.status \in Status \cup {Unset} /\ PeriodOK(r)
        /\ r.hired \in Date \cup {NoDate} /\ r.terminated \in Date \cup {NoDate}
    BY <1>0, <1>1, <2>1, ValidRequest, UseCasesAssumption DEF RequestAtLocation
  <2>4. normalizeEmployeeCode(r.code) = normalizeCode(r.code) /\ normalizeCode(r.code) \in Key
        /\ normalizeCode(r.code).spelling = "lower"
    BY <2>3, NormalizedKey
  <2>5. /\ w.table = "employees" /\ w.kind = "insert" /\ w.id = e /\ w.row.company = r.company
        /\ w.row.code = normalizeCode(r.code) /\ w.row.user = r.user
        /\ w.row.hired = r.hired /\ w.row.terminated = r.terminated
    BY <2>4 DEF InsertEmployee
  <2>6. w \in Write
    <3>1. w.row \in EmployeeRow
      BY <2>3, <2>4 DEF InsertEmployee, EmployeeRow, Status
    <3>2. w = [table |-> "employees", kind |-> "insert", id |-> e, row |-> w.row]
      BY DEF InsertEmployee
    <3> QED
      BY <3>1, <3>2 DEF Write
  <2>7. WriteFor(c, w)
    BY <2>1 DEF WriteFor
  <2>8. PICK a \in Answers(w) : Execute(c, w, a, translateEmployeePgError(a))
    BY <2>2 DEF ExecuteEmployee
  <2> HIDE DEF w
  <2>9. Proper(w)
    BY <2>2, <2>4, <2>5 DEF Proper, Rows
  <2>10. ~HasInvalidField(r)
    <3>1. BadDate \notin {r.hired, r.terminated}
      BY <2>3 DEF Date, NoDate, BadDate
    <3> QED
      BY <1>0, <2>1, <2>3, <3>1, InvalidFields, UseCasesAssumption
  <2>11. ~HasInvalidPeriod(c) /\ ~Misread(r)
    BY <1>1, <2>1, <2>3 DEF HasInvalidPeriod, Misread
  <2>12. w.kind = "insert" => \A d \in Call : Pending(d) => pend[d].id # w.id
    BY <2>2, <2>5 DEF Pending
  <2>13. ASSUME a # "ok" PROVE Justified(c, toStatusError(translateEmployeePgError(a)))
    <3>1. \/ /\ a = "23505"
             /\ \E x \in Live(employees) : /\ employees[x].company = r.company
                                           /\ employees[x].code = normalizeCode(r.code)
          \/ a = "employees_company_id_fkey" /\ r.company \notin Live(companies)
          \/ a = "employees_user_id_fkey" /\ r.user \notin Live(users)
      <4>1. PeriodOK(w.row)
        BY <2>3, <2>5 DEF PeriodOK
      <4> QED
        BY <2>5, <2>6, <2>13, <4>1, EmployeeRefusals
    <3>2. a = "23505" => KeyIsTaken(c)
      BY <2>1, <2>3, <3>1, TakenMeans DEF KeyAsked
    <3>3. a # "23505" => SomethingIsMissing(c)
      BY <2>1, <3>1, MissingMeans
    <3> QED
      BY <3>1, <3>2, <3>3, StatusOfAnswer DEF Justified
  <2> QED
    BY <1>0, <2>6, <2>7, <2>8, <2>9, <2>10, <2>11, <2>12, <2>13, ExecuteShape
<1>2. CASE UpdateEmployee(c)
  <2>1. r.op = "UpdateEmployee"
    BY <1>2 DEF UpdateEmployee
  <2> DEFINE m == MergedEmployee(r, seen[c])
             w == UpdateEmployeeRow(r.id, m)
  <2>2. RowSeen(r, seen[c]) /\ seen[c] # NoRow
    BY <1>0, <2>1 DEF SeenAtLocation, Updaters
  <2>3. /\ seen[c] \in EmployeeRow /\ r.id \in EmployeeId /\ r.code \notin {Malformed, Blank}
        /\ seen[c].code.spelling = "lower"
        /\ r.id \in Live(employees) => employees[r.id].company = seen[c].company
    BY <2>1, <2>2 DEF RowSeen
  <2>4. /\ r \in UpdateEmployeeRequest /\ r.status # Malformed
        /\ r.hired \in Date \cup {NoDate, UnsetDate} /\ r.terminated \in Date \cup {NoDate, UnsetDate}
    BY <1>0, <2>1, RequestType, ValidRequest, UseCasesAssumption
  <2>5. BadDate \notin {r.hired, r.terminated}
    BY <2>4 DEF Date, NoDate, UnsetDate, BadDate
  <2>6. /\ r.user \notin {Malformed, Blank, Urn} => m \in EmployeeRow
        /\ m.code.spelling = "lower" /\ m.code = KeyAsked(c)
        /\ m.company = seen[c].company /\ m.hired \in Int /\ m.terminated \in Int
    BY <2>1, <2>3, <2>4, <2>5, MergedEmployeeRow DEF KeyAsked
  <2> HIDE DEF m
  <2>7. CASE r.user \in {Malformed, Blank}
    <3>1. MergeError(r, seen[c]) = "ErrInvalidUserID"
      BY <2>7 DEF MergeError, normalizeUserID
    <3>2. HasInvalidField(r) /\ toStatusError("ErrInvalidUserID") = "InvalidArgument"
      BY <1>0, <2>1, <2>7, InvalidFields, StatusOfError DEF Invalid
    <3> QED
      BY <1>0, <1>2, <3>1, <3>2 DEF UpdateEmployee, Refuses, Justified
  <2>8. CASE r.user \notin {Malformed, Blank} /\ ~PeriodOK(m)
    <3>1. MergeError(r, seen[c]) = "ErrInvalidDateRange"
      BY <2>6, <2>8 DEF MergeError, normalizeUserID, PeriodError, PeriodOK, m
    <3>2. HasInvalidPeriod(c)
      BY <2>1, <2>2, <2>8 DEF HasInvalidPeriod, m
    <3>3. toStatusError("ErrInvalidDateRange") = "InvalidArgument"
      BY StatusOfError DEF Invalid
    <3> QED
      BY <1>0, <1>2, <3>1, <3>2, <3>3 DEF UpdateEmployee, Refuses, Justified
  <2>9. CASE r.user = Urn /\ PeriodOK(m)
    <3>1. MergeError(r, seen[c]) = "nil"
      BY <2>6, <2>9, UseCasesAssumption DEF MergeError, normalizeUserID, PeriodError, PeriodOK, m
    <3>2. Misread(r)
      BY <2>1, <2>9 DEF Misread
    <3> QED
      BY <1>0, <1>2, <2>9, <3>1, <3>2, StatusOfAnswer DEF UpdateEmployee, Refuses, Justified
  <2>10. CASE r.user \notin {Malformed, Blank, Urn} /\ PeriodOK(m)
    <3>1. MergeError(r, seen[c]) = "nil"
      BY <2>6, <2>10 DEF MergeError, normalizeUserID, PeriodError, PeriodOK, m
    <3>2. w.table = "employees" /\ w.kind = "update" /\ w.id = r.id /\ w.row = m /\ w \in Write
      BY <2>3, <2>6, <2>10 DEF UpdateEmployeeRow, Write
    <3>3. WriteFor(c, w)
      BY <2>1 DEF WriteFor, m
    <3>4. PICK a \in Answers(w) : Execute(c, w, a, translateEmployeePgError(a))
      BY <1>2, <2>10, <3>1 DEF UpdateEmployee, ExecuteEmployee, m
    <3> HIDE DEF w
    <3>5. Proper(w)
      BY <2>3, <2>6, <3>2 DEF Proper
    <3>6. ~HasInvalidField(r)
      BY <1>0, <2>1, <2>3, <2>4, <2>5, <2>10, InvalidFields, UseCasesAssumption
    <3>7. ~HasInvalidPeriod(c) /\ ~Misread(r)
      BY <2>1, <2>10 DEF HasInvalidPeriod, Misread, m
    <3>8. ASSUME a # "ok" PROVE Justified(c, toStatusError(translateEmployeePgError(a)))
      <4>1. \/ a = "no rows" /\ r.id \notin Live(employees)
            \/ /\ a = "23505"
               /\ \E x \in Live(employees) \ {r.id} :
                     employees[x].company = seen[c].company /\ employees[x].code = KeyAsked(c)
            \/ a = "employees_user_id_fkey" /\ m.user \notin Live(users)
        BY <2>6, <2>10, <3>2, <3>8, EmployeeRefusals
      <4>2. a = "23505" => KeyIsTaken(c)
        BY <2>1, <4>1, TakenMeans
      <4>3. a # "23505" => SomethingIsMissing(c)
        BY <2>1, <4>1, MissingMeans DEF EmployeeOps, m
      <4> QED
        BY <4>1, <4>2, <4>3, StatusOfAnswer DEF Justified
    <3> QED
      BY <1>0, <3>2, <3>3, <3>4, <3>5, <3>6, <3>7, <3>8, ExecuteShape
  <2> QED
    BY <2>7, <2>8, <2>9, <2>10
<1>3. CASE DeleteEmployee(c)
  <2>1. r.op = "DeleteEmployee" /\ ~HasInvalidPeriod(c) /\ ~Misread(r)
    BY <1>3 DEF DeleteEmployee, HasInvalidPeriod, Misread
  <2>2. CASE r.id = Malformed
    <3>1. Malformed \in IdsAsked(r)
      BY <2>1, <2>2 DEF IdsAsked
    <3> QED
      BY <1>0, <1>3, <2>2, <3>1, StatusOfAnswer DEF DeleteEmployee, Refuses, Justified
  <2>3. CASE r.id # Malformed
    <3> DEFINE w == DeleteEmployeeRow(r.id)
    <3>1. r.id \in EmployeeId
      BY <1>0, <2>1, <2>3, ValidRequest
    <3>2. w.table = "employees" /\ w.kind = "delete" /\ w.id = r.id /\ w \in Write
      BY <3>1 DEF DeleteEmployeeRow, Write
    <3>3. WriteFor(c, w)
      BY <2>1 DEF WriteFor
    <3>4. PICK a \in Answers(w) : Execute(c, w, a, translateEmployeePgError(a))
      BY <1>3, <2>3 DEF DeleteEmployee, ExecuteEmployee
    <3> HIDE DEF w
    <3>5. Proper(w)
      BY <3>2 DEF Proper
    <3>6. ~HasInvalidField(r)
      BY <1>0, <2>1, <3>1, InvalidFields, UseCasesAssumption DEF Deleters
    <3>7. ASSUME a # "ok" PROVE Justified(c, toStatusError(translateEmployeePgError(a)))
      <4>1. a = "no rows" /\ r.id \notin Live(employees)
        BY <3>2, <3>7, EmployeeRefusals
      <4>2. SomethingIsMissing(c)
        BY <2>1, <4>1, MissingMeans DEF EmployeeOps
      <4> QED
        BY <4>1, <4>2, StatusOfAnswer DEF Justified
    <3> QED
      BY <1>0, <2>1, <3>2, <3>3, <3>4, <3>5, <3>6, <3>7, ExecuteShape
  <2> QED
    BY <2>2, <2>3
<1>4. CASE CreateEmployee(c) /\ r.user = Urn
  <2>1. Misread(r) /\ Refuse(c, translateEmployeePgError("22P02"))
    BY <1>4 DEF CreateEmployee, Misread
  <2> QED
    BY <1>0, <2>1, StatusOfAnswer DEF Refuses, Justified
<1> QED
  BY <1>1, <1>2, <1>3, <1>4

\* Every step of the services is one of the five.
LEMMA Shape ==
  ASSUME IInv, NEW c \in Call, UserStep(c) \/ CompanyStep(c) \/ EmployeeStep(c)
  PROVE  Acts(c)
<1>1. \/ BeginUser(c) \/ BeginCompany(c) \/ BeginEmployee(c)
      \/ ensureEmailNotExists(c) \/ ensureCodeNotExists(c) \/ ensureEmployeeCodeNotExists(c)
      \/ FindUser(c) \/ FindCompany(c) \/ FindEmployee(c)
      \/ CreateUser(c) \/ UpdateUser(c) \/ DeleteUser(c)
      \/ CreateCompany(c) \/ UpdateCompany(c) \/ DeleteCompany(c)
      \/ CreateEmployee(c) \/ UpdateEmployee(c) \/ DeleteEmployee(c)
  BY DEF UserStep, CompanyStep, EmployeeStep
<1> QED
  BY <1>1, BeginShape, CheckShape, FindShape, WriteUserShape, WriteCompanyShape, WriteEmployeeShape DEF Acts
-------------------------------------------------------------------------------
(* Every step keeps the invariant: what it does to the tables, to the call that *)
(* takes it and, because rows change under calls that have read them, to every  *)
(* other call.                                                                  *)

\* The step is c's: no other call's own state changes.
Frame(c) == \A d \in Call : d # c =>
    /\ pc'[d] = pc[d] /\ req'[d] = req[d] /\ seen'[d] = seen[d]
    /\ code'[d] = code[d] /\ trans'[d] = trans[d] /\ pend'[d] = pend[d]

\* What a call knows of a row outlives whatever happens to the row.
LEMMA RowSeenStays ==
  ASSUME TablesTypeOK, TablesTypeOK', RowsKeep
  PROVE  \A r, row : RowSeen(r, row) => RowSeen(r, row)'
<1> SUFFICES ASSUME NEW r, NEW row, RowSeen(r, row) PROVE RowSeen(r, row)'
  OBVIOUS
<1>1. ASSUME r.op = "UpdateUser"
      PROVE  /\ users'[r.id] # Unborn
             /\ r.id \in Live(users)' => users'[r.id].email = row.email
  <2>1. r.id \in UserId /\ users[r.id] # Unborn /\ (r.id \in Live(users) => users[r.id].email = row.email)
    BY <1>1 DEF RowSeen
  <2> QED
    BY <2>1 DEF RowsKeep, Live, TablesTypeOK
<1>2. ASSUME r.op = "UpdateEmployee"
      PROVE  /\ employees'[r.id] # Unborn
             /\ r.id \in Live(employees)' => employees'[r.id].company = row.company
  <2>1. /\ r.id \in EmployeeId /\ employees[r.id] # Unborn
        /\ r.id \in Live(employees) => employees[r.id].company = row.company
    BY <1>2 DEF RowSeen
  <2> QED
    BY <2>1 DEF RowsKeep, Live, TablesTypeOK
<1> QED
  BY <1>1, <1>2 DEF RowSeen

\* The other calls.
LEMMA OtherCall ==
  ASSUME IInv, NEW c \in Call, Frame(c), TablesTypeOK', RowsKeep, NEW d \in Call, d # c
  PROVE  CallInv(d)'
<1>1. /\ pc'[d] = pc[d] /\ req'[d] = req[d] /\ seen'[d] = seen[d]
      /\ code'[d] = code[d] /\ trans'[d] = trans[d] /\ pend'[d] = pend[d]
  BY DEF Frame
<1>2. CallInv(d) /\ TablesTypeOK
  BY AtCall
<1>3. \A r, row : RowSeen(r, row) => RowSeen(r, row)'
  BY <1>2, RowSeenStays
<1>4. HasInvalidPeriod(d)' <=> HasInvalidPeriod(d)
  BY <1>1 DEF HasInvalidPeriod
<1>5. TransAtLocation(d)'
  BY <1>1, <1>2 DEF CallInv, TransAtLocation
<1>6. WriteAtLocation(d)'
  BY <1>1, <1>2 DEF CallInv, WriteAtLocation, WriteFor, Pending
<1>7. RequestAtLocation(d)'
  BY <1>1, <1>2, <1>4 DEF CallInv, RequestAtLocation
<1>8. SeenAtLocation(d)'
  BY <1>1, <1>2, <1>3 DEF CallInv, SeenAtLocation
<1>9. Exact(d)'
  BY <1>1, <1>2, <1>4 DEF CallInv, Exact
<1> QED
  BY <1>5, <1>6, <1>7, <1>8, <1>9 DEF CallInv

\* What is left to show for a step of call c.
LEMMA StepOf ==
  ASSUME IInv, NEW c \in Call, Frame(c), TypeOK', TablesInv', RowsKeep, CallInv(c)'
  PROVE  IInv'
<1>1. TablesTypeOK'
  BY DEF TypeOK
<1> QED
  BY <1>1, OtherCall DEF IInv

\* A step that changes nothing but its call's own state.
Own(c, l, r, row, k, t) ==
    /\ pc' = [pc EXCEPT ![c] = l]
    /\ req' = [req EXCEPT ![c] = r]
    /\ seen' = [seen EXCEPT ![c] = row]
    /\ code' = [code EXCEPT ![c] = k]
    /\ trans' = [trans EXCEPT ![c] = t]
    /\ UNCHANGED <<tables, pend>>

\* Such a step keeps the tables, the types and all that other calls hold.
LEMMA OwnStep ==
  ASSUME IInv, NEW c \in Call,
         NEW l, NEW r, NEW row, NEW k, NEW t, Own(c, l, r, row, k, t),
         l \in Location /\ r \in Request \cup {NoRequest} /\ t \in Transaction /\ k \in Code \cup {"none"},
         row \in UserRow \cup CompanyRow \cup EmployeeRow \cup {NoRow}
  PROVE  /\ Frame(c) /\ TypeOK' /\ TablesInv' /\ RowsKeep
         /\ pc'[c] = l /\ req'[c] = r /\ seen'[c] = row /\ code'[c] = k /\ trans'[c] = t /\ pend'[c] = pend[c]
<1> USE DEF Own
<1>1. TypeOK /\ TablesInv
  BY DEF IInv
<1>2. TablesInv' /\ RowsKeep
  BY <1>1, SameTablesKeep, SameTablesKeepRows
<1>3. TypeOK'
  BY <1>1, <1>2 DEF TypeOK, TablesInv
<1>4. Frame(c)
  BY <1>1 DEF TypeOK, Frame
<1>5. pc'[c] = l /\ req'[c] = r /\ seen'[c] = row /\ code'[c] = k /\ trans'[c] = t
  BY <1>1 DEF TypeOK
<1> QED
  BY <1>2, <1>3, <1>4, <1>5

\* A function that does not change is its own EXCEPT.
LEMMA NoChange ==
  ASSUME TypeOK, NEW c \in Call
  PROVE  /\ UNCHANGED req => req' = [req EXCEPT ![c] = req[c]]
         /\ UNCHANGED seen => seen' = [seen EXCEPT ![c] = seen[c]]
         /\ UNCHANGED code => code' = [code EXCEPT ![c] = code[c]]
         /\ UNCHANGED trans => trans' = [trans EXCEPT ![c] = trans[c]]
         /\ UNCHANGED pc => pc' = [pc EXCEPT ![c] = pc[c]]
  BY DEF TypeOK

\* A request arrives.
LEMMA ReceiveKeeps ==
  ASSUME IInv, NEW c \in Call, Receive(c)
  PROVE  IInv'
<1>1. TypeOK /\ CallInv(c) /\ pc[c] = "idle"
  BY AtCall DEF Receive
<1>2. PICK r \in Request : Arrive(c, r, RequestError(r))
  BY DEF Receive
<1> DEFINE l == IF RequestError(r) = "nil" THEN "begin" ELSE "done"
           k == IF RequestError(r) = "nil" THEN "none" ELSE "InvalidArgument"
<1>3. code[c] = "none" /\ trans[c] = "none" /\ seen[c] = NoRow /\ ~Pending(c) /\ r # NoRequest
  BY <1>1, RequestType DEF CallInv, TransAtLocation, SeenAtLocation, WriteAtLocation
<1>4. /\ UNCHANGED <<tables, pend, seen, trans>>
      /\ pc' = [pc EXCEPT ![c] = l] /\ req' = [req EXCEPT ![c] = r]
      /\ code' = [code EXCEPT ![c] = k]
  <2>1. CASE RequestError(r) = "nil"
    BY <1>1, <1>2, <1>3, <2>1, NoChange DEF Arrive, Goto
  <2>2. CASE RequestError(r) # "nil"
    BY <1>2, <2>2, InvalidRequest DEF Arrive, Goto, Reply
  <2> QED
    BY <2>1, <2>2
<1>5. l \in Location /\ k \in Code \cup {"none"} /\ seen[c] \in UserRow \cup CompanyRow \cup EmployeeRow \cup {NoRow}
      /\ trans[c] \in Transaction
  BY <1>1 DEF TypeOK, Location, Code
<1>6. Own(c, l, r, seen[c], k, trans[c])
  BY <1>1, <1>4, NoChange DEF Own
<1> HIDE DEF l, k
<1>7. /\ Frame(c) /\ TypeOK' /\ TablesInv' /\ RowsKeep
      /\ pc'[c] = l /\ req'[c] = r /\ seen'[c] = seen[c] /\ code'[c] = k /\ trans'[c] = trans[c] /\ pend'[c] = pend[c]
  BY <1>5, <1>6, OwnStep
<1> USE DEF l, k
<1>8. TransAtLocation(c)'
  BY <1>3, <1>7 DEF TransAtLocation, Inside
<1>9. WriteAtLocation(c)'
  BY <1>3, <1>7 DEF WriteAtLocation, Pending
<1>10. RequestAtLocation(c)'
  BY <1>7 DEF RequestAtLocation
<1>11. SeenAtLocation(c)'
  BY <1>3, <1>7 DEF SeenAtLocation
<1>12. Exact(c)'
  <2>1. RequestError(r) # "nil" => HasInvalidField(r) \/ (r.op = "CreateEmployee" /\ ~PeriodOK(r))
    BY InvalidRequest
  <2> QED
    BY <1>7, <2>1 DEF Exact, HasInvalidPeriod
<1> QED
  BY <1>7, <1>8, <1>9, <1>10, <1>11, <1>12, StepOf DEF CallInv

\* BEGIN.
LEMMA BeginsKeeps ==
  ASSUME IInv, NEW c \in Call, Begins(c)
  PROVE  IInv'
<1>1. PICK l \in {"find", "check", "write"} :
         /\ Begin(c, l)
         /\ l = "find" => req[c].op \in Updaters \cup Getters
         /\ l = "check" => req[c].op \in Creators
         /\ l = "write" => req[c].op \in Deleters
  BY DEF Begins
<1>2. TypeOK /\ CallInv(c) /\ pc[c] = "begin" /\ RequestError(req[c]) = "nil"
  BY <1>1, AtCall DEF Begin
<1>3. code[c] = "none" /\ seen[c] = NoRow /\ ~Pending(c) /\ req[c] # NoRequest
  BY <1>2 DEF CallInv, TransAtLocation, SeenAtLocation, WriteAtLocation
<1>4. /\ l \in Location /\ "open" \in Transaction /\ req[c] \in Request \cup {NoRequest}
      /\ seen[c] \in UserRow \cup CompanyRow \cup EmployeeRow \cup {NoRow} /\ code[c] \in Code \cup {"none"}
  BY <1>1, <1>2 DEF TypeOK, Location, Transaction
<1>5. /\ UNCHANGED <<tables, pend, req, seen, code>>
      /\ pc' = [pc EXCEPT ![c] = l] /\ trans' = [trans EXCEPT ![c] = "open"]
  BY <1>1 DEF Begin, Goto, Become
<1>6. /\ Frame(c) /\ TypeOK' /\ TablesInv' /\ RowsKeep
      /\ pc'[c] = l /\ req'[c] = req[c] /\ seen'[c] = seen[c] /\ code'[c] = code[c] /\ trans'[c] = "open"
      /\ pend'[c] = pend[c]
  <2>1. Own(c, l, req[c], seen[c], code[c], "open")
    BY <1>2, <1>5, NoChange DEF Own
  <2> QED
    BY <1>4, <2>1, OwnStep
<1>7. TransAtLocation(c)'
  BY <1>1, <1>3, <1>6 DEF TransAtLocation, Inside
<1>8. WriteAtLocation(c)'
  BY <1>3, <1>6 DEF WriteAtLocation, Pending
<1>9. RequestAtLocation(c)'
  BY <1>1, <1>2, <1>6 DEF RequestAtLocation, Creators, Deleters
<1>10. SeenAtLocation(c)'
  BY <1>1, <1>3, <1>6 DEF SeenAtLocation, Creators, Updaters, Deleters
<1>11. Exact(c)'
  BY <1>3, <1>6 DEF Exact
<1> QED
  BY <1>6, <1>7, <1>8, <1>9, <1>10, <1>11, StepOf DEF CallInv

\* The key was free.
LEMMA PassesKeeps ==
  ASSUME IInv, NEW c \in Call, Passes(c)
  PROVE  IInv'
<1>1. TypeOK /\ CallInv(c) /\ pc[c] = "check" /\ RequestError(req[c]) = "nil"
  BY AtCall DEF Passes
<1>2. code[c] = "none" /\ trans[c] = "open" /\ ~Pending(c) /\ req[c] # NoRequest
  BY <1>1 DEF CallInv, TransAtLocation, WriteAtLocation, Inside
<1>3. /\ "write" \in Location /\ trans[c] \in Transaction /\ req[c] \in Request \cup {NoRequest}
      /\ seen[c] \in UserRow \cup CompanyRow \cup EmployeeRow \cup {NoRow} /\ code[c] \in Code \cup {"none"}
  BY <1>1 DEF TypeOK, Location
<1>4. UNCHANGED <<tables, pend, req, seen, code, trans>> /\ pc' = [pc EXCEPT ![c] = "write"]
  BY DEF Passes, Goto
<1>5. /\ Frame(c) /\ TypeOK' /\ TablesInv' /\ RowsKeep
      /\ pc'[c] = "write" /\ req'[c] = req[c] /\ seen'[c] = seen[c] /\ code'[c] = code[c]
      /\ trans'[c] = trans[c] /\ pend'[c] = pend[c]
  <2>1. Own(c, "write", req[c], seen[c], code[c], trans[c])
    BY <1>1, <1>4, NoChange DEF Own
  <2> QED
    BY <1>3, <2>1, OwnStep
<1>6. TransAtLocation(c)'
  BY <1>2, <1>5 DEF TransAtLocation, Inside
<1>7. WriteAtLocation(c)'
  BY <1>2, <1>5 DEF WriteAtLocation, Pending
<1>8. RequestAtLocation(c)'
  BY <1>1, <1>5 DEF RequestAtLocation, CallInv, Creators, Updaters, Passes
<1>9. SeenAtLocation(c)'
  <2>1. RowSeen(req[c], seen[c]) => RowSeen(req[c], seen[c])'
    BY <1>1, <1>4 DEF RowSeen, tables, Live
  <2> QED
    BY <1>1, <1>5, <2>1 DEF SeenAtLocation, CallInv, RowSeen
<1>10. Exact(c)'
  BY <1>2, <1>5 DEF Exact
<1> QED
  BY <1>5, <1>6, <1>7, <1>8, <1>9, <1>10, StepOf DEF CallInv

\* A row is read.
LEMMA ReadsKeeps ==
  ASSUME IInv, NEW c \in Call, Reads(c)
  PROVE  IInv'
<1>1. PICK l \in {"check", "write", "commit"}, row \in UserRow \cup CompanyRow \cup EmployeeRow :
         /\ pc[c] = "find" /\ Goto(c, l)
         /\ seen' = [seen EXCEPT ![c] = row] /\ RowSeen(req[c], row)
         /\ l = "commit" => req[c].op \in Getters /\ ~HasInvalidField(req[c])
         /\ l # "commit" => req[c].op \in Updaters
         /\ l = "check" => /\ req[c].op # "UpdateUser" /\ req[c].code # Unset
                           /\ normalizeCode(req[c].code) # row.code
         /\ UNCHANGED <<tables, pend, req, code, trans>>
  BY DEF Reads
<1>2. TypeOK /\ CallInv(c) /\ RequestError(req[c]) = "nil"
  BY <1>1, AtCall
<1>3. code[c] = "none" /\ trans[c] = "open" /\ ~Pending(c) /\ req[c] # NoRequest
  BY <1>1, <1>2 DEF CallInv, TransAtLocation, WriteAtLocation, Inside
<1>4. /\ l \in Location /\ trans[c] \in Transaction /\ req[c] \in Request \cup {NoRequest}
      /\ row \in UserRow \cup CompanyRow \cup EmployeeRow \cup {NoRow} /\ code[c] \in Code \cup {"none"}
  BY <1>1, <1>2 DEF TypeOK, Location
<1>5. pc' = [pc EXCEPT ![c] = l]
  BY <1>1 DEF Goto
<1>6. /\ Frame(c) /\ TypeOK' /\ TablesInv' /\ RowsKeep
      /\ pc'[c] = l /\ req'[c] = req[c] /\ seen'[c] = row /\ code'[c] = code[c]
      /\ trans'[c] = trans[c] /\ pend'[c] = pend[c]
  <2>1. Own(c, l, req[c], row, code[c], trans[c])
    BY <1>1, <1>2, <1>5, NoChange DEF Own
  <2> QED
    BY <1>4, <2>1, OwnStep
<1>7. TransAtLocation(c)'
  BY <1>3, <1>6 DEF TransAtLocation, Inside
<1>8. WriteAtLocation(c)'
  BY <1>3, <1>6 DEF WriteAtLocation, Pending
<1>9. RequestAtLocation(c)'
  BY <1>1, <1>2, <1>6 DEF RequestAtLocation, Creators, Updaters, Getters, HasInvalidPeriod, Misread
<1>10. SeenAtLocation(c)'
  <2>1. row # NoRow
    BY <1>1, UseCasesAssumption
  <2>2. \A x : RowSeen(x, row) => RowSeen(x, row)'
    BY <1>1 DEF RowSeen, tables, Live
  <2> QED
    BY <1>1, <1>6, <2>1, <2>2 DEF SeenAtLocation
<1>11. Exact(c)'
  BY <1>3, <1>6 DEF Exact
<1> QED
  BY <1>6, <1>7, <1>8, <1>9, <1>10, <1>11, StepOf DEF CallInv

\* The statement is executed.
LEMMA ExecutesKeeps ==
  ASSUME IInv, NEW c \in Call, Executes(c)
  PROVE  IInv'
<1>1. PICK w \in Write :
         /\ pc[c] = "write" /\ Goto(c, "commit")
         /\ WriteFor(c, w) /\ Proper(w) /\ "ok" \in Answers(w) /\ ~MustWait(c, w)
         /\ w.kind = "insert" => \A d \in Call : Pending(d) => pend[d].id # w.id
         /\ ~HasInvalidField(req[c]) /\ ~Misread(req[c]) /\ ~HasInvalidPeriod(c)
         /\ pend' = [pend EXCEPT ![c] = w]
         /\ UNCHANGED <<tables, req, seen, code, trans>>
  BY DEF Executes
<1>2. TypeOK /\ TablesInv /\ TablesTypeOK /\ CallInv(c) /\ RequestError(req[c]) = "nil" /\ ~Pending(c)
  BY <1>1, AtCall
<1>3. code[c] = "none" /\ trans[c] = "open" /\ req[c] # NoRequest
  BY <1>1, <1>2 DEF CallInv, TransAtLocation, Inside
<1>4. TablesInv' /\ RowsKeep
  BY <1>1, <1>2, ExecuteKeeps, SameTablesKeepRows
<1>5. pc' = [pc EXCEPT ![c] = "commit"]
  BY <1>1 DEF Goto
<1>6. TypeOK'
  BY <1>1, <1>2, <1>4, <1>5 DEF TypeOK, TablesInv, Location
<1>7. Frame(c)
  BY <1>1, <1>2, <1>5 DEF TypeOK, TablesTypeOK, Frame
<1>8. /\ pc'[c] = "commit" /\ req'[c] = req[c] /\ seen'[c] = seen[c] /\ code'[c] = code[c]
      /\ trans'[c] = trans[c] /\ pend'[c] = w
  BY <1>1, <1>2, <1>5 DEF TypeOK, TablesTypeOK
<1>9. TransAtLocation(c)'
  BY <1>3, <1>8 DEF TransAtLocation, Inside
<1>10. WriteAtLocation(c)'
  BY <1>1, <1>2, <1>3, <1>8 DEF WriteAtLocation, Pending, WriteFor
<1>11. RequestAtLocation(c)'
  BY <1>1, <1>2, <1>8 DEF RequestAtLocation, HasInvalidPeriod
<1>12. SeenAtLocation(c)'
  <2>1. \A x, row : RowSeen(x, row) => RowSeen(x, row)'
    BY <1>1 DEF RowSeen, tables, Live
  <2> QED
    BY <1>2, <1>8, <2>1 DEF SeenAtLocation, CallInv
<1>13. Exact(c)'
  BY <1>3, <1>8 DEF Exact
<1> QED
  BY <1>4, <1>6, <1>7, <1>9, <1>10, <1>11, <1>12, <1>13, StepOf DEF CallInv

\* The function returns an error.
LEMMA RefusesKeeps ==
  ASSUME IInv, NEW c \in Call, Refuses(c)
  PROVE  IInv'
<1>1. PICK err : Refuse(c, err) /\ Justified(c, toStatusError(err))
  BY DEF Refuses
<1> DEFINE k == toStatusError(err)
<1>2. /\ TypeOK /\ CallInv(c) /\ ~Pending(c) /\ RequestError(req[c]) = "nil"
      /\ pc[c] \in {"find", "check", "write"}
  BY AtCall DEF Refuses
<1>3. trans[c] = "open" /\ req[c] # NoRequest
  BY <1>2 DEF CallInv, TransAtLocation, Inside
<1>4. k \in {"InvalidArgument", "AlreadyExists", "NotFound", "Internal"}
  BY <1>1 DEF Justified
<1>5. /\ UNCHANGED <<tables, pend, req, seen, trans>>
      /\ pc' = [pc EXCEPT ![c] = "rollback"] /\ code' = [code EXCEPT ![c] = k]
  BY <1>1 DEF Refuse, Goto, Reply
<1>6. /\ k = "InvalidArgument" => HasInvalidField(req[c]) \/ HasInvalidPeriod(c)
      /\ k = "Internal" => Malformed \in IdsAsked(req[c]) \/ Misread(req[c]) \/ req[c].op = "DeleteUser"
  BY <1>1 DEF Justified
<1> HIDE DEF k
<1>7. /\ "rollback" \in Location /\ trans[c] \in Transaction /\ req[c] \in Request \cup {NoRequest}
      /\ seen[c] \in UserRow \cup CompanyRow \cup EmployeeRow \cup {NoRow} /\ k \in Code \cup {"none"}
  BY <1>2, <1>4 DEF TypeOK, Location, Code
<1>8. /\ Frame(c) /\ TypeOK' /\ TablesInv' /\ RowsKeep
      /\ pc'[c] = "rollback" /\ req'[c] = req[c] /\ seen'[c] = seen[c] /\ code'[c] = k
      /\ trans'[c] = trans[c] /\ pend'[c] = pend[c]
  <2>1. Own(c, "rollback", req[c], seen[c], k, trans[c])
    BY <1>2, <1>5, NoChange DEF Own
  <2> QED
    BY <1>7, <2>1, OwnStep
<1>9. TransAtLocation(c)'
  BY <1>3, <1>4, <1>8 DEF TransAtLocation, Inside
<1>10. WriteAtLocation(c)'
  BY <1>2, <1>8 DEF WriteAtLocation, Pending
<1>11. RequestAtLocation(c)'
  BY <1>8 DEF RequestAtLocation
<1>12. SeenAtLocation(c)'
  <2>1. \A x, row : RowSeen(x, row) => RowSeen(x, row)'
    BY <1>5 DEF RowSeen, tables, Live
  <2> QED
    BY <1>2, <1>8, <2>1 DEF SeenAtLocation, CallInv
<1>13. Exact(c)'
  BY <1>4, <1>6, <1>8 DEF Exact, HasInvalidPeriod
<1> QED
  BY <1>8, <1>9, <1>10, <1>11, <1>12, <1>13, StepOf DEF CallInv

\* The end of a transaction, by whichever of COMMIT and ROLLBACK, whoever notices.
LEMMA EndKeeps ==
  ASSUME IInv, NEW c \in Call, TablesInv', RowsKeep,
         pend' \in [Call -> Write \cup {NoWrite}],
         pend'[c] = NoWrite /\ \A d \in Call : d # c => pend'[d] = pend[d],
         UNCHANGED <<req, seen>>,
         NEW t, t \in {"committed", "rolledback"}, trans' = [trans EXCEPT ![c] = t],
         NEW k, k \in Code, code' = [code EXCEPT ![c] = k], pc' = [pc EXCEPT ![c] = "done"],
         k = code[c] \/ (k = "OK" /\ pc[c] = "commit"),
         pc[c] \notin {"idle", "begin"},
         t = "committed" => k \in {"OK", "Internal"},
         k = "OK" => t = "committed"
  PROVE  IInv'
<1>1. TypeOK /\ CallInv(c) /\ TablesTypeOK
  BY AtCall
<1>2. TypeOK'
  BY <1>1 DEF TypeOK, TablesInv, Location, Transaction, Code
<1>3. Frame(c)
  BY <1>1 DEF TypeOK, Frame
<1>4. /\ pc'[c] = "done" /\ req'[c] = req[c] /\ seen'[c] = seen[c] /\ code'[c] = k /\ trans'[c] = t
      /\ req[c] # NoRequest
  BY <1>1 DEF TypeOK, CallInv, TransAtLocation
<1>5. TransAtLocation(c)'
  BY <1>4 DEF TransAtLocation, Inside, Code
<1>6. WriteAtLocation(c)'
  BY DEF WriteAtLocation, Pending
<1>7. RequestAtLocation(c)'
  BY <1>4 DEF RequestAtLocation
<1>8. SeenAtLocation(c)'
  <2>1. TablesTypeOK'
    BY DEF TablesInv
  <2>2. \A r, row : RowSeen(r, row) => RowSeen(r, row)'
    BY <1>1, <2>1, RowSeenStays
  <2> QED
    BY <1>1, <1>4, <2>2 DEF SeenAtLocation, CallInv
<1>9. Exact(c)'
  <2>1. HasInvalidPeriod(c)' <=> HasInvalidPeriod(c)
    BY <1>4 DEF HasInvalidPeriod
  <2>2. CASE k = code[c]
    BY <1>1, <1>4, <2>1, <2>2 DEF CallInv, Exact
  <2>3. CASE k = "OK" /\ pc[c] = "commit"
    BY <1>1, <1>4, <2>1, <2>3 DEF CallInv, Exact, RequestAtLocation
  <2> QED
    BY <2>2, <2>3
<1> QED
  BY <1>2, <1>3, <1>5, <1>6, <1>7, <1>8, <1>9, StepOf DEF CallInv

\* COMMIT, as the call sees it.
LEMMA CommitKeeps ==
  ASSUME IInv, NEW c \in Call, Commit(c)
  PROVE  IInv'
<1>1. TypeOK /\ TablesInv /\ TablesTypeOK /\ CallInv(c)
  BY AtCall
<1>2. /\ pc[c] = "commit" /\ Install(c) /\ UNCHANGED <<req, seen>>
      /\ trans' = [trans EXCEPT ![c] = "committed"]
      /\ code' = [code EXCEPT ![c] = "OK"] /\ pc' = [pc EXCEPT ![c] = "done"]
  BY DEF Commit, Become, Goto, Reply
<1>3. /\ TablesInv' /\ RowsKeep /\ pend' \in [Call -> Write \cup {NoWrite}]
      /\ pend'[c] = NoWrite /\ \A d \in Call : d # c => pend'[d] = pend[d]
  BY <1>1, <1>2, InstallKeeps, InstallKeepsRows, InstallRows
<1>4. "OK" \in Code
  BY DEF Code
<1> QED
  BY <1>2, <1>3, <1>4, EndKeeps

\* What Discard leaves.
LEMMA DiscardLeaves ==
  ASSUME TablesInv, NEW c \in Call, Discard(c)
  PROVE  /\ TablesInv' /\ RowsKeep /\ pend' \in [Call -> Write \cup {NoWrite}]
         /\ pend'[c] = NoWrite /\ \A d \in Call : d # c => pend'[d] = pend[d]
<1>1. TablesInv'
  BY DiscardKeeps
<1>2. pend' = [pend EXCEPT ![c] = NoWrite] /\ UNCHANGED tables
  BY DEF Discard
<1>3. TablesTypeOK
  BY DEF TablesInv
<1> QED
  BY <1>1, <1>2, <1>3, SameTablesKeepRows DEF TablesTypeOK

\* ROLLBACK.
LEMMA RollbackKeeps ==
  ASSUME IInv, NEW c \in Call, Rollback(c)
  PROVE  IInv'
<1>1. TypeOK /\ TablesInv /\ TablesTypeOK /\ CallInv(c)
  BY AtCall
<1>2. /\ pc[c] = "rollback" /\ Discard(c) /\ UNCHANGED <<req, seen, code>>
      /\ trans' = [trans EXCEPT ![c] = "rolledback"] /\ pc' = [pc EXCEPT ![c] = "done"]
  BY DEF Rollback, Become, Goto
<1>3. /\ TablesInv' /\ RowsKeep /\ pend' \in [Call -> Write \cup {NoWrite}]
      /\ pend'[c] = NoWrite /\ \A d \in Call : d # c => pend'[d] = pend[d]
  BY <1>1, <1>2, DiscardLeaves
<1>4. code[c] \in Code /\ code[c] # "OK" /\ code' = [code EXCEPT ![c] = code[c]]
  BY <1>1, <1>2, NoChange DEF TypeOK, CallInv, TransAtLocation
<1> QED
  BY <1>2, <1>3, <1>4, EndKeeps

\* A transaction whose client is gone ends later.
LEMMA LateKeeps ==
  ASSUME IInv, NEW c \in Call, Late(c)
  PROVE  IInv'
<1>1. TypeOK /\ TablesInv /\ TablesTypeOK /\ CallInv(c)
  BY AtCall
<1>2. trans[c] \in {"committing", "dropped"} /\ UNCHANGED <<pc, req, seen, code>>
  BY DEF Late, LateCommit, LateRollback
<1>3. pc[c] = "done" /\ code[c] \in Code /\ code[c] # "OK"
  BY <1>1, <1>2 DEF TypeOK, CallInv, TransAtLocation, Inside, Location
<1>4. code' = [code EXCEPT ![c] = code[c]] /\ pc' = [pc EXCEPT ![c] = "done"]
  BY <1>1, <1>2, <1>3, NoChange
<1>5. CASE LateCommit(c)
  <2>1. trans[c] = "committing" /\ Install(c) /\ trans' = [trans EXCEPT ![c] = "committed"]
    BY <1>5 DEF LateCommit, Become
  <2>2. /\ TablesInv' /\ RowsKeep /\ pend' \in [Call -> Write \cup {NoWrite}]
        /\ pend'[c] = NoWrite /\ \A d \in Call : d # c => pend'[d] = pend[d]
    BY <1>1, <2>1, InstallKeeps, InstallKeepsRows, InstallRows
  <2>3. code[c] = "Internal"
    BY <1>1, <2>1 DEF CallInv, TransAtLocation
  <2> QED
    BY <1>2, <1>3, <1>4, <2>1, <2>2, <2>3, EndKeeps
<1>6. CASE LateRollback(c)
  <2>1. Discard(c) /\ trans' = [trans EXCEPT ![c] = "rolledback"]
    BY <1>6 DEF LateRollback, Become
  <2>2. /\ TablesInv' /\ RowsKeep /\ pend' \in [Call -> Write \cup {NoWrite}]
        /\ pend'[c] = NoWrite /\ \A d \in Call : d # c => pend'[d] = pend[d]
    BY <1>1, <2>1, DiscardLeaves
  <2> QED
    BY <1>2, <1>3, <1>4, <2>1, <2>2, EndKeeps
<1> QED
  BY <1>5, <1>6 DEF Late

\* Failures of the connection.
LEMMA FaultKeeps ==
  ASSUME IInv, NEW c \in Call, BeginFails(c) \/ ConnectionLost(c) \/ CommitAnswerLost(c)
  PROVE  IInv'
<1>1. TypeOK /\ CallInv(c)
  BY AtCall
<1> DEFINE k == IF pc[c] = "rollback" THEN code[c] ELSE "Internal"
           t == IF ConnectionLost(c) THEN "dropped" ELSE IF CommitAnswerLost(c) THEN "committing" ELSE trans[c]
<1>2. /\ Faults /\ pc[c] \in Inside \cup {"begin"} /\ UNCHANGED <<tables, pend, req, seen>>
      /\ pc' = [pc EXCEPT ![c] = "done"]
  BY DEF BeginFails, ConnectionLost, CommitAnswerLost, Goto, Inside
<1>3. code' = [code EXCEPT ![c] = k]
  <2>1. CASE ConnectionLost(c)
    BY <1>1, <2>1, NoChange DEF ConnectionLost, Reply
  <2>2. CASE BeginFails(c) \/ CommitAnswerLost(c)
    BY <2>2 DEF BeginFails, CommitAnswerLost, Reply
  <2> QED
    BY <2>1, <2>2
<1>4. trans' = [trans EXCEPT ![c] = t]
  <2>1. CASE ConnectionLost(c)
    BY <2>1 DEF ConnectionLost, Become
  <2>2. CASE ~ConnectionLost(c) /\ CommitAnswerLost(c)
    BY <2>2 DEF CommitAnswerLost, Become
  <2>3. CASE ~ConnectionLost(c) /\ ~CommitAnswerLost(c)
    BY <1>1, <2>3, NoChange DEF BeginFails
  <2> QED
    BY <2>1, <2>2, <2>3
<1>5. /\ k \in Code /\ k # "OK" /\ req[c] # NoRequest
      /\ Pending(c) => pc[c] = "commit" /\ WriteFor(c, pend[c]) /\ RequestError(req[c]) = "nil"
  BY <1>1, <1>2 DEF TypeOK, CallInv, TransAtLocation, WriteAtLocation, Inside, Code
<1>6. /\ t \in {"none", "dropped", "committing"}
      /\ t = "committing" => k = "Internal"
      /\ pc[c] = "commit" => t # "none"
  BY <1>1, <1>2 DEF CallInv, TransAtLocation, BeginFails, ConnectionLost, CommitAnswerLost, Inside
<1> HIDE DEF k, t
<1>7. /\ Frame(c) /\ TypeOK' /\ TablesInv' /\ RowsKeep
      /\ pc'[c] = "done" /\ req'[c] = req[c] /\ seen'[c] = seen[c] /\ code'[c] = k /\ trans'[c] = t
      /\ pend'[c] = pend[c]
  <2>1. Own(c, "done", req[c], seen[c], k, t)
    BY <1>1, <1>2, <1>3, <1>4, NoChange DEF Own
  <2>2. /\ "done" \in Location /\ req[c] \in Request \cup {NoRequest} /\ t \in Transaction
        /\ k \in Code \cup {"none"} /\ seen[c] \in UserRow \cup CompanyRow \cup EmployeeRow \cup {NoRow}
    BY <1>1, <1>5, <1>6 DEF TypeOK, Location, Transaction
  <2> QED
    BY <2>1, <2>2, OwnStep
<1>8. TransAtLocation(c)'
  BY <1>5, <1>6, <1>7 DEF TransAtLocation, Inside, Code
<1>9. WriteAtLocation(c)'
  BY <1>5, <1>6, <1>7 DEF WriteAtLocation, Pending, WriteFor
<1>10. RequestAtLocation(c)'
  BY <1>7 DEF RequestAtLocation
<1>11. SeenAtLocation(c)'
  <2>1. \A x, row : RowSeen(x, row) => RowSeen(x, row)'
    BY <1>2 DEF RowSeen, tables, Live
  <2> QED
    BY <1>1, <1>7, <2>1 DEF SeenAtLocation, CallInv
<1>12. Exact(c)'
  <2>1. HasInvalidPeriod(c)' <=> HasInvalidPeriod(c)
    BY <1>7 DEF HasInvalidPeriod
  <2>2. k \in {code[c], "Internal"}
    BY DEF k
  <2> QED
    BY <1>1, <1>2, <1>5, <1>7, <2>1, <2>2 DEF Exact, CallInv
<1> QED
  BY <1>7, <1>8, <1>9, <1>10, <1>11, <1>12, StepOf DEF CallInv

\* Every step keeps the invariant.
LEMMA NextIInv == IInv /\ [Next]_vars => IInv'
<1> SUFFICES ASSUME IInv, [Next]_vars PROVE IInv'
  OBVIOUS
<1>1. ASSUME NEW c \in Call, Receive(c) PROVE IInv'
  BY <1>1, ReceiveKeeps
<1>2. ASSUME NEW c \in Call, UserStep(c) \/ CompanyStep(c) \/ EmployeeStep(c) PROVE IInv'
  <2>1. Acts(c)
    BY <1>2, Shape
  <2> QED
    BY <2>1, BeginsKeeps, PassesKeeps, ReadsKeeps, ExecutesKeeps, RefusesKeeps DEF Acts
<1>3. ASSUME NEW c \in Call, Commit(c) PROVE IInv'
  BY <1>3, CommitKeeps
<1>4. ASSUME NEW c \in Call, Rollback(c) PROVE IInv'
  BY <1>4, RollbackKeeps
<1>5. ASSUME NEW c \in Call, Late(c) PROVE IInv'
  BY <1>5, LateKeeps
<1>6. ASSUME NEW c \in Call, BeginFails(c) \/ ConnectionLost(c) \/ CommitAnswerLost(c) PROVE IInv'
  BY <1>6, FaultKeeps
<1>7. CASE UNCHANGED vars
  <2>1. UNCHANGED <<users, companies, employees, pend, pc, req, seen, code, trans>>
    BY <1>7 DEF vars, tables, callVars
  <2>2. TypeOK /\ TablesInv /\ TablesTypeOK
    BY DEF IInv, TypeOK
  <2>3. TablesInv' /\ RowsKeep
    BY <2>1, <2>2, SameTablesKeep, SameTablesKeepRows DEF tables
  <2>4. TypeOK'
    BY <2>1, <2>2, <2>3 DEF TypeOK, TablesInv
  <2>5. ASSUME NEW d \in Call PROVE CallInv(d)'
    <3>1. CallInv(d)
      BY DEF IInv
    <3> QED
      BY <2>1, <3>1 DEF CallInv, TransAtLocation, WriteAtLocation, RequestAtLocation, SeenAtLocation,
                        Exact, WriteFor, RowSeen, HasInvalidPeriod, Pending, Live
  <2> QED
    BY <2>3, <2>4, <2>5 DEF IInv
<1> QED
  BY <1>1, <1>2, <1>3, <1>4, <1>5, <1>6, <1>7 DEF Next, Serve

\* The keys the server stores are equal when their texts are.
LEMMA LoweredKeys ==
  ASSUME NEW k \in Key, NEW l \in Key, k.spelling = "lower", l.spelling = "lower", SameText(k, l)
  PROVE  k = l
  BY DEF Key, SameText

\* The invariant holds at first.
LEMMA InitIInv == Init => IInv
<1> SUFFICES ASSUME Init PROVE IInv
  OBVIOUS
<1>1. PICK s \in Seed : SeedOK(s)
  BY DEF Init
<1>2. /\ TablesTypeOK /\ UniqueKeys /\ UniqueEmployeeCodes /\ KeysLowered /\ EmployeesValid
  BY <1>1, DirectoryAssumption DEF Init, SeedOK, TablesTypeOK
<1>3. TypeOK
  BY <1>2 DEF Init, TypeOK, Location, Transaction
<1>4. References /\ Lowered
  BY <1>2 DEF EmployeesValid, References, KeysLowered, Lowered
<1>5. UniqueRows
  BY <1>2 DEF UniqueKeys, UniqueEmployeeCodes, UniqueRows, SameText
<1>6. \A c \in Call : ~Pending(c)
  BY DEF Init, Pending
<1>7. TablesInv
  BY <1>2, <1>4, <1>5, <1>6 DEF TablesInv, PendingFit, PendingCompatible
<1>8. ASSUME NEW c \in Call PROVE CallInv(c)
  <2>1. pc[c] = "idle" /\ req[c] = NoRequest /\ seen[c] = NoRow /\ code[c] = "none" /\ trans[c] = "none"
    BY DEF Init
  <2> QED
    BY <1>6, <2>1 DEF CallInv, TransAtLocation, WriteAtLocation, RequestAtLocation, SeenAtLocation,
                      Exact, Inside
<1> QED
  BY <1>3, <1>7, <1>8 DEF IInv

\* The inductive invariant of the server: every call knows where it stands, what it
\* has read may be stale but never names another row, and whatever transactions are
\* open could all be committed, in any order.
THEOREM Inductive == Spec => []IInv
<1> QED
  BY InitIInv, NextIInv, PTL DEF Spec

\* Every variable keeps its type.
THEOREM TypeCorrect == Spec => []TypeOK
<1>1. IInv => TypeOK
  BY DEF IInv
<1> QED
  BY <1>1, Inductive, PTL

\* Stored keys are in lower case, so equal texts are equal keys.
LEMMA NoKeyTwice == IInv => UniqueKeys /\ UniqueEmployeeCodes
<1> SUFFICES ASSUME IInv PROVE UniqueKeys /\ UniqueEmployeeCodes
  OBVIOUS
<1>1. TablesTypeOK /\ UniqueRows /\ Lowered
  BY DEF IInv, TablesInv
<1>2. /\ \A u \in Live(users) : users[u].email \in Key /\ users[u].email.spelling = "lower"
      /\ \A k \in Live(companies) : companies[k].code \in Key /\ companies[k].code.spelling = "lower"
      /\ \A e \in Live(employees) : employees[e].code \in Key /\ employees[e].code.spelling = "lower"
  BY <1>1, LiveRows DEF Lowered, UserRow, CompanyRow, EmployeeRow
<1>3. ASSUME NEW u \in Live(users), NEW v \in Live(users), SameText(users[u].email, users[v].email)
      PROVE  u = v
  BY <1>1, <1>2, <1>3, LoweredKeys DEF UniqueRows
<1>4. ASSUME NEW k \in Live(companies), NEW l \in Live(companies),
             SameText(companies[k].code, companies[l].code)
      PROVE  k = l
  BY <1>1, <1>2, <1>4, LoweredKeys DEF UniqueRows
<1>5. ASSUME NEW e \in Live(employees), NEW f \in Live(employees),
             employees[e].company = employees[f].company, SameText(employees[e].code, employees[f].code)
      PROVE  e = f
  BY <1>1, <1>2, <1>5, LoweredKeys DEF UniqueRows
<1> QED
  BY <1>3, <1>4, <1>5 DEF UniqueKeys, UniqueEmployeeCodes

\* Two users never have the same address and two companies never the same code,
\* in whatever spelling, however many requests race for them.
THEOREM KeysAreUnique == Spec => []UniqueKeys
  BY NoKeyTwice, Inductive, PTL

\* Two employees of one company never have the same code.
THEOREM EmployeeCodesAreUnique == Spec => []UniqueEmployeeCodes
  BY NoKeyTwice, Inductive, PTL

\* Every employee has a company and a user and leaves no earlier than hired,
\* whatever is created, changed and deleted at the same time.
THEOREM EmployeesStayValid == Spec => []EmployeesValid
<1>1. IInv => EmployeesValid
  BY DEF IInv, TablesInv, References, EmployeesValid
<1> QED
  BY <1>1, Inductive, PTL

\* Without faults, INTERNAL answers an id that PostgreSQL cannot read where nobody
\* has told the client so, or a DeleteUser.
THEOREM InternalHasItsReasons == Spec => []InternalIsExplained
<1>1. IInv => InternalIsExplained
  BY DEF IInv, CallInv, Exact, InternalIsExplained
<1> QED
  BY <1>1, Inductive, PTL

\* OK is for valid requests only, INVALID_ARGUMENT for those only that the code
\* finds invalid, and INTERNAL for no other valid one than a DeleteUser.
THEOREM RequestsAreValidated == Spec => []ValidationIsExact
<1>1. IInv => ValidationIsExact
  <2> SUFFICES ASSUME IInv, NEW c \in Call, code[c] = "Internal", ~Faults, req[c].op # "DeleteUser",
                      ~Misread(req[c])
               PROVE  HasInvalidField(req[c])
    BY DEF IInv, CallInv, Exact, ValidationIsExact
  <2>1. TypeOK /\ CallInv(c)
    BY DEF IInv
  <2>2. req[c] \in Request
    BY <2>1 DEF TypeOK, CallInv, TransAtLocation
  <2>3. Malformed \in IdsAsked(req[c])
    BY <2>1 DEF CallInv, Exact
  <2>4. CASE req[c].op = "CreateEmployee"
    BY <2>2, <2>3, <2>4, InvalidFields DEF IdsAsked
  <2>5. CASE req[c].op # "CreateEmployee"
    <3>1. req[c].op \notin {"CreateUser", "CreateCompany"} /\ req[c].id = Malformed
      BY <2>3, <2>5 DEF IdsAsked
    <3> QED
      BY <2>2, <2>5, <3>1, RequestType, InvalidFields
         DEF UserOps, CompanyOps, EmployeeOps, Deleters, Getters
  <2> QED
    BY <2>4, <2>5
<1> QED
  BY <1>1, Inductive, PTL
-------------------------------------------------------------------------------
(* Answers.                                                                    *)

\* What the steps do about both kinds of refusal.
TruthfulRefusal ==
    \A c \in Call : code'[c] # code[c] =>
        /\ code'[c] = "AlreadyExists" => KeyIsTaken(c)
        /\ code'[c] = "NotFound" => SomethingIsMissing(c)

\* The code that a step of call c gives it is new for c only, and justified.
LEMMA OwnCode ==
  ASSUME TypeOK, NEW c \in Call, NEW k, code' = [code EXCEPT ![c] = k],
         k \in {code[c], "OK", "InvalidArgument", "Internal"} \/ Justified(c, k)
  PROVE  TruthfulRefusal
<1> SUFFICES ASSUME NEW d \in Call, code'[d] # code[d]
             PROVE  /\ code'[d] = "AlreadyExists" => KeyIsTaken(d)
                    /\ code'[d] = "NotFound" => SomethingIsMissing(d)
  BY DEF TruthfulRefusal
<1>1. d = c /\ code'[c] = k
  BY DEF TypeOK
<1> QED
  BY <1>1 DEF Justified

\* A step that refuses its call for a missing row or a taken key has found it so.
LEMMA TruthfulStep == IInv /\ Next => TruthfulRefusal
<1> SUFFICES ASSUME IInv, Next PROVE TruthfulRefusal
  OBVIOUS
<1>0. TypeOK
  BY DEF IInv
<1>1. UNCHANGED code => TruthfulRefusal
  BY DEF TruthfulRefusal
<1>2. PICK c \in Call : Receive(c) \/ Serve(c) \/ Late(c) \/ BeginFails(c) \/ ConnectionLost(c) \/ CommitAnswerLost(c)
  BY DEF Next
<1>3. CASE Receive(c)
  <2>1. PICK r \in Request : Arrive(c, r, RequestError(r))
    BY <1>3 DEF Receive
  <2>2. CASE RequestError(r) = "nil"
    BY <1>1, <2>1, <2>2 DEF Arrive
  <2>3. CASE RequestError(r) # "nil"
    <3>1. code' = [code EXCEPT ![c] = "InvalidArgument"]
      BY <2>1, <2>3, InvalidRequest DEF Arrive, Reply
    <3> QED
      BY <1>0, <3>1, OwnCode
  <2> QED
    BY <2>2, <2>3
<1>4. CASE UserStep(c) \/ CompanyStep(c) \/ EmployeeStep(c)
  <2>1. CASE Refuses(c)
    <3>1. PICK err : Refuse(c, err) /\ Justified(c, toStatusError(err))
      BY <2>1 DEF Refuses
    <3>2. code' = [code EXCEPT ![c] = toStatusError(err)]
      BY <3>1 DEF Refuse, Reply
    <3> QED
      BY <1>0, <3>1, <3>2, OwnCode
  <2>2. CASE Begins(c) \/ Passes(c) \/ Reads(c) \/ Executes(c)
    BY <1>1, <2>2 DEF Begins, Begin, Passes, Reads, Executes
  <2> QED
    BY <1>4, <2>1, <2>2, Shape DEF Acts
<1>5. CASE Commit(c)
  <2>1. code' = [code EXCEPT ![c] = "OK"]
    BY <1>5 DEF Commit, Reply
  <2> QED
    BY <1>0, <2>1, OwnCode
<1>6. CASE Rollback(c) \/ Late(c)
  BY <1>1, <1>6 DEF Rollback, Late, LateCommit, LateRollback
<1>7. CASE BeginFails(c) \/ ConnectionLost(c) \/ CommitAnswerLost(c)
  <2>1. UNCHANGED code \/ code' = [code EXCEPT ![c] = "Internal"]
    BY <1>7 DEF BeginFails, ConnectionLost, CommitAnswerLost, Reply
  <2> QED
    BY <1>0, <1>1, <2>1, OwnCode
<1> QED
  BY <1>2, <1>3, <1>4, <1>5, <1>6, <1>7 DEF Serve

\* ALREADY_EXISTS is true of the committed rows when it is decided, however stale
\* the row that the call has read.
THEOREM AlreadyExistsTrue == Spec => AlreadyExistsIsTrue
<1>1. IInv /\ [Next]_vars =>
        [\A c \in Call : code'[c] # code[c] /\ code'[c] = "AlreadyExists" => KeyIsTaken(c)]_vars
  BY TruthfulStep DEF TruthfulRefusal
<1> QED
  BY <1>1, Inductive, PTL DEF Spec, AlreadyExistsIsTrue

\* NOT_FOUND is true of the committed rows when it is decided.
THEOREM NotFoundTrue == Spec => NotFoundIsTrue
<1>1. IInv /\ [Next]_vars =>
        [\A c \in Call : code'[c] # code[c] /\ code'[c] = "NotFound" => SomethingIsMissing(c)]_vars
  BY TruthfulStep DEF TruthfulRefusal
<1> QED
  BY <1>1, Inductive, PTL DEF Spec, NotFoundIsTrue
-------------------------------------------------------------------------------
(* A call is a unit of work.                                                    *)

SameTold(c) == Told(c)' = Told(c)
SameEffect(c) == (trans[c] = "committed")' = (trans[c] = "committed")

\* Nobody is told anything and nothing becomes durable.
Silent == \A c \in Call : SameTold(c) /\ SameEffect(c)

\* A silent step is a stutter of the unit of work.
LEMMA SilentStutters == Silent => UNCHANGED UnitOfWorkPerCall!unitVars
  BY DEF Silent, SameTold, SameEffect, UnitOfWorkPerCall!unitVars

\* A call that nobody has answered has been told nothing; a refusal says that
\* nothing happened or, if it is INTERNAL, nothing at all.
LEMMA RefusalRefines ==
  ASSUME IInv, NEW c \in Call, \A d \in Call : SameEffect(d) /\ (d # c => SameTold(d)),
         pc[c] # "done", pc'[c] = "done", trans[c] # "committed",
         code'[c] \in Code \ {"OK"}
  PROVE  UnitOfWorkPerCall!Next
<1>1. Told(c) = "none"
  BY DEF Told, Answered
<1>2. CASE code'[c] = "Internal"
  <2>1. Told(c)' = "unknown"
    BY <1>2 DEF Told, Answered
  <2>2. UnitOfWorkPerCall!Lose({c})
    BY <1>1, <2>1 DEF UnitOfWorkPerCall!Lose, SameTold, SameEffect
  <2> QED
    BY <2>2 DEF UnitOfWorkPerCall!Next
<1>3. CASE code'[c] # "Internal"
  <2>1. Told(c)' = "failed"
    BY <1>3 DEF Told, Answered
  <2>2. UnitOfWorkPerCall!Fail(c)
    BY <1>1, <2>1 DEF UnitOfWorkPerCall!Fail, UnitOfWorkPerCall!Tell, SameTold, SameEffect
  <2> QED
    BY <2>2 DEF UnitOfWorkPerCall!Next
<1> QED
  BY <1>2, <1>3

\* What a call is told changes only with its answer.
LEMMA ToldAtAnswer ==
  ASSUME NEW d, \/ pc'[d] = pc[d] /\ code'[d] = code[d]
                \/ pc[d] # "done" /\ pc'[d] # "done"
  PROVE  SameTold(d)
  BY DEF SameTold, Told, Answered

\* Every step is a step of the unit of work of its call, or is invisible.
LEMMA StepRefines == IInv /\ [Next]_vars => [UnitOfWorkPerCall!Next]_(UnitOfWorkPerCall!unitVars)
<1> SUFFICES ASSUME IInv, [Next]_vars PROVE UnitOfWorkPerCall!Next \/ Silent
  BY SilentStutters
<1>0. TypeOK /\ \A c \in Call : CallInv(c)
  BY DEF IInv
<1>1. CASE UNCHANGED vars
  BY <1>1, ToldAtAnswer DEF vars, callVars, Silent, SameEffect
<1>2. CASE Next
  <2>1. PICK c \in Call : Receive(c) \/ Serve(c) \/ Late(c) \/ BeginFails(c) \/ ConnectionLost(c)
                             \/ CommitAnswerLost(c)
    BY <1>2 DEF Next
  <2>2. TransAtLocation(c)
    BY <1>0 DEF CallInv
  <2>3. CASE Receive(c)
    <3>1. PICK r \in Request : Arrive(c, r, RequestError(r))
      BY <2>3 DEF Receive
    <3>2. UNCHANGED trans /\ pc[c] = "idle"
      BY <2>3, <3>1 DEF Arrive, Receive
    <3>3. CASE RequestError(r) = "nil"
      <4>1. UNCHANGED code /\ pc' = [pc EXCEPT ![c] = "begin"]
        BY <3>1, <3>3 DEF Arrive, Goto
      <4>2. \A d \in Call : SameTold(d)
        BY <1>0, <3>2, <4>1, ToldAtAnswer DEF TypeOK
      <4> QED
        BY <3>2, <4>2 DEF Silent, SameEffect
    <3>4. CASE RequestError(r) # "nil"
      <4>1. code' = [code EXCEPT ![c] = "InvalidArgument"] /\ pc' = [pc EXCEPT ![c] = "done"]
        BY <3>1, <3>4, InvalidRequest DEF Arrive, Goto, Reply
      <4>2. \A d \in Call : SameEffect(d) /\ (d # c => SameTold(d))
        BY <1>0, <3>2, <4>1, ToldAtAnswer DEF TypeOK, SameEffect
      <4>3. pc[c] # "done" /\ pc'[c] = "done" /\ trans[c] # "committed" /\ code'[c] \in Code \ {"OK"}
        BY <1>0, <2>2, <3>2, <4>1 DEF TypeOK, TransAtLocation, Code
      <4> QED
        BY <4>2, <4>3, RefusalRefines
    <3> QED
      BY <3>3, <3>4
  <2>4. CASE UserStep(c) \/ CompanyStep(c) \/ EmployeeStep(c)
    <3>1. /\ pc[c] \in {"begin", "find", "check", "write"}
          /\ \E l \in {"find", "check", "write", "commit", "rollback"} : Goto(c, l)
          /\ \A d \in Call : d # c => code'[d] = code[d]
          /\ UNCHANGED trans \/ (trans[c] = "none" /\ Become(c, "open"))
      <4>1. CASE Begins(c)
        BY <2>2, <4>1 DEF Begins, Begin, TransAtLocation
      <4>2. CASE Passes(c) \/ Reads(c) \/ Executes(c)
        BY <4>2 DEF Passes, Reads, Executes
      <4>3. CASE Refuses(c)
        <5>1. PICK err : Refuse(c, err)
          BY <4>3 DEF Refuses
        <5> QED
          BY <1>0, <4>3, <5>1 DEF Refuses, Refuse, Reply, TypeOK
      <4> QED
        BY <2>4, <4>1, <4>2, <4>3, Shape DEF Acts
    <3>2. PICK l \in {"find", "check", "write", "commit", "rollback"} : pc' = [pc EXCEPT ![c] = l]
      BY <3>1 DEF Goto
    <3>3. \A d \in Call : SameTold(d)
      BY <1>0, <3>1, <3>2, ToldAtAnswer DEF TypeOK
    <3>4. \A d \in Call : SameEffect(d)
      BY <1>0, <3>1 DEF TypeOK, SameEffect, Become
    <3> QED
      BY <3>3, <3>4 DEF Silent
  <2>5. CASE Commit(c)
    <3>1. /\ pc[c] = "commit" /\ pc' = [pc EXCEPT ![c] = "done"]
          /\ code' = [code EXCEPT ![c] = "OK"] /\ trans' = [trans EXCEPT ![c] = "committed"]
      BY <2>5 DEF Commit, Goto, Reply, Become
    <3>2. \A d \in Call : d # c => SameTold(d) /\ SameEffect(d)
      BY <1>0, <3>1, ToldAtAnswer DEF TypeOK, SameEffect
    <3>3. Told(c) = "none" /\ Told(c)' = "ok" /\ trans'[c] = "committed"
      BY <1>0, <3>1 DEF TypeOK, Told, Answered
    <3>4. UnitOfWorkPerCall!Succeed(c)
      BY <3>2, <3>3 DEF UnitOfWorkPerCall!Succeed, UnitOfWorkPerCall!Tell, SameTold, SameEffect
    <3> QED
      BY <3>4 DEF UnitOfWorkPerCall!Next
  <2>6. CASE Rollback(c)
    <3>1. /\ pc[c] = "rollback" /\ pc' = [pc EXCEPT ![c] = "done"]
          /\ UNCHANGED code /\ trans' = [trans EXCEPT ![c] = "rolledback"]
      BY <2>6 DEF Rollback, Goto, Become
    <3>2. trans[c] # "committed" /\ code[c] \in Code \ {"OK"}
      BY <1>0, <2>2, <3>1 DEF TypeOK, TransAtLocation, Inside
    <3>3. \A d \in Call : SameEffect(d) /\ (d # c => SameTold(d))
      BY <1>0, <3>1, <3>2, ToldAtAnswer DEF TypeOK, SameEffect
    <3>4. pc'[c] = "done"
      BY <1>0, <3>1 DEF TypeOK
    <3> QED
      BY <3>1, <3>2, <3>3, <3>4, RefusalRefines
  <2>7. CASE LateCommit(c)
    <3>1. UNCHANGED <<pc, code>> /\ trans[c] = "committing" /\ trans' = [trans EXCEPT ![c] = "committed"]
      BY <2>7 DEF LateCommit, Become
    <3>2. \A d \in Call : SameTold(d) /\ (d # c => SameEffect(d))
      BY <1>0, <3>1, ToldAtAnswer DEF TypeOK, SameEffect
    <3>3. Told(c) = "unknown" /\ trans'[c] = "committed"
      BY <1>0, <2>2, <3>1 DEF TypeOK, TransAtLocation, Told, Answered, Inside, Location
    <3>4. UnitOfWorkPerCall!Apply(c)
      BY <3>1, <3>2, <3>3 DEF UnitOfWorkPerCall!Apply, SameTold, SameEffect
    <3> QED
      BY <3>4 DEF UnitOfWorkPerCall!Next
  <2>8. CASE LateRollback(c)
    BY <1>0, <2>8, ToldAtAnswer DEF LateRollback, Become, TypeOK, Silent, SameEffect
  <2>9. CASE BeginFails(c) \/ ConnectionLost(c) \/ CommitAnswerLost(c)
    <3>1. /\ pc[c] \in Inside \cup {"begin"} /\ pc' = [pc EXCEPT ![c] = "done"]
          /\ code' = [code EXCEPT ![c] = "Internal"] \/ (pc[c] = "rollback" /\ UNCHANGED code)
          /\ UNCHANGED trans \/ \E t \in {"dropped", "committing"} : trans' = [trans EXCEPT ![c] = t]
      BY <2>9 DEF BeginFails, ConnectionLost, CommitAnswerLost, Goto, Reply, Become, Inside
    <3>2. trans[c] # "committed" /\ pc[c] # "done"
      BY <2>2, <3>1 DEF TransAtLocation, Inside
    <3>3. \A d \in Call : SameEffect(d)
      BY <1>0, <3>1, <3>2 DEF TypeOK, SameEffect
    <3>4. \A d \in Call : d # c => SameTold(d)
      BY <1>0, <3>1, ToldAtAnswer DEF TypeOK
    <3>5. pc'[c] = "done" /\ code'[c] \in Code \ {"OK"}
      BY <1>0, <2>2, <3>1 DEF TypeOK, TransAtLocation, Code
    <3> QED
      BY <3>2, <3>3, <3>4, <3>5, RefusalRefines
  <2> QED
    BY <2>1, <2>3, <2>4, <2>5, <2>6, <2>7, <2>8, <2>9 DEF Serve, Late
<1> QED
  BY <1>1, <1>2

\* The server starts as the units of work do.
LEMMA InitRefines == Init => UnitOfWorkPerCall!Init
  BY DEF Init, UnitOfWorkPerCall!Init, Told, Answered

\* Codes are honest: every call is a unit of work whose OK means that it has taken
\* effect and whose refusal means that it never will.
THEOREM CodesAreHonest == Spec => HonestCodes
<1> QED
  BY InitRefines, StepRefines, Inductive, PTL DEF Spec, HonestCodes, UnitOfWorkPerCall!Spec
-------------------------------------------------------------------------------
(* Rows.                                                                       *)

\* What the write of a call is, by its operation.
LEMMA WriteOf ==
  ASSUME NEW c \in Call, NEW w, WriteFor(c, w)
  PROVE  LET r == req[c]
         IN  /\ w.table = "users" => r.op \in {"CreateUser", "UpdateUser", "DeleteUser"}
             /\ w.table = "companies" => r.op \in {"CreateCompany", "UpdateCompany", "DeleteCompany"}
             /\ w.table = "employees" => r.op \in {"CreateEmployee", "UpdateEmployee", "DeleteEmployee"}
             /\ r.op \in Creators => w.kind = "insert"
             /\ r.op \in Updaters => w.kind = "update" /\ w.id = r.id
             /\ r.op \in Deleters => w.kind = "delete" /\ w.id = r.id /\ w.row = Gone
             /\ r.op = "CreateUser" => w.row.email = normalizeEmail(r.email) /\ w.row.name = r.name
             /\ r.op = "CreateCompany" => w.row.code = normalizeCode(r.code)
             /\ r.op = "CreateEmployee" => w.row.company = r.company /\ w.row.user = r.user
<1> DEFINE r == req[c]
<1> USE DEF Creators, Updaters, Deleters
<1>1. CASE r.op = "CreateUser"
  BY <1>1 DEF WriteFor, InsertUser
<1>2. CASE r.op = "UpdateUser"
  BY <1>2 DEF WriteFor, UpdateUserRow
<1>3. CASE r.op = "DeleteUser"
  BY <1>3 DEF WriteFor, DeleteUserRow
<1>4. CASE r.op = "CreateCompany"
  BY <1>4 DEF WriteFor, InsertCompany
<1>5. CASE r.op = "UpdateCompany"
  BY <1>5 DEF WriteFor, UpdateCompanyRow
<1>6. CASE r.op = "DeleteCompany"
  BY <1>6 DEF WriteFor, DeleteCompanyRow
<1>7. CASE r.op = "CreateEmployee"
  BY <1>7 DEF WriteFor, InsertEmployee
<1>8. CASE r.op = "UpdateEmployee"
  BY <1>8 DEF WriteFor, UpdateEmployeeRow
<1>9. CASE r.op = "DeleteEmployee"
  BY <1>9 DEF WriteFor, DeleteEmployeeRow
<1> QED
  BY <1>1, <1>2, <1>3, <1>4, <1>5, <1>6, <1>7, <1>8, <1>9 DEF WriteFor

\* COMMIT changes the row that was asked for, as it was asked for, and a deleted
\* company's employees.
LEMMA CommitChangesRows ==
  ASSUME IInv, NEW c \in Call, Install(c), trans[c] # "committed", trans'[c] = "committed"
  PROVE  RowsChangeByRequest
<1> DEFINE w == pend[c]
           r == req[c]
<1>1. TablesInv /\ TablesTypeOK /\ TypeOK /\ CallInv(c)
  BY AtCall
<1>2. CASE ~Pending(c)
  <2>1. /\ \A u \in UserId : users'[u] = users[u]
        /\ \A k \in CompanyId : companies'[k] = companies[k]
        /\ \A e \in EmployeeId : employees'[e] = employees[e]
    BY <1>1, <1>2, InstallRows
  <2> QED
    BY <2>1 DEF RowsChangeByRequest
<1>3. CASE Pending(c)
  <2>1. w \in Write /\ Fits(w) /\ WriteFor(c, w) /\ RequestError(r) = "nil" /\ r \in Request
    BY <1>1, <1>3, AtCommit DEF CallInv, WriteAtLocation, TransAtLocation, TypeOK
  <2>2. /\ \A u \in UserId : users'[u] = IF w.table = "users" /\ w.id = u THEN w.row ELSE users[u]
        /\ \A k \in CompanyId : companies'[k] = IF w.table = "companies" /\ w.id = k THEN w.row ELSE companies[k]
        /\ \A e \in EmployeeId : employees'[e] =
              IF w.table = "companies" /\ w.kind = "delete" /\ e \in EmployeesOf(w.id) THEN Gone
              ELSE IF w.table = "employees" /\ w.id = e THEN w.row ELSE employees[e]
    BY <1>1, <1>3, InstallRows
  <2>3. \A op : r.op = op => Commits(c, op)
    BY DEF Commits
  <2> HIDE DEF w
  <2>4. ASSUME NEW u \in UserId, users'[u] # users[u]
        PROVE  \/ /\ Commits(c, "CreateUser") /\ users[u] = Unborn
                  /\ SameText(users'[u].email, r.email) /\ users'[u].name = r.name
               \/ /\ Commits(c, "UpdateUser") /\ r.id = u
                  /\ users[u] \notin NotLive /\ users'[u] \notin NotLive
                  /\ users'[u].email = users[u].email
               \/ Commits(c, "DeleteUser") /\ r.id = u /\ users'[u] = Gone
    <3>1. w.table = "users" /\ w.id = u /\ users'[u] = w.row /\ UserWriteFits(w)
      BY <2>1, <2>2, <2>4 DEF Fits
    <3>2. CASE r.op = "CreateUser"
      <4>1. w.kind = "insert" /\ w.row.email = normalizeEmail(r.email) /\ w.row.name = r.name
        BY <2>1, <3>2, WriteOf DEF Creators, w
      <4>2. SameText(w.row.email, r.email)
        BY <2>1, <3>2, <4>1, ValidRequest, NormalizedKey DEF SameText
      <4> QED
        BY <2>3, <3>1, <3>2, <4>1, <4>2 DEF UserWriteFits
    <3>3. CASE r.op = "UpdateUser"
      <4>1. w.kind = "update" /\ w.id = r.id
        BY <2>1, <3>3, WriteOf DEF Updaters, w
      <4>2. w.row \in UserRow
        BY <2>1, <3>1, <4>1, WriteType
      <4>3. w.row \notin NotLive /\ users[u] \notin NotLive /\ w.row.email = users[u].email
        BY <3>1, <4>1, <4>2, TablesAssumption DEF UserWriteFits, Live
      <4> QED
        BY <2>3, <3>1, <3>3, <4>1, <4>3
    <3>4. CASE r.op = "DeleteUser"
      <4>1. w.id = r.id /\ w.row = Gone
        BY <2>1, <3>4, WriteOf DEF Deleters, w
      <4> QED
        BY <2>3, <3>1, <3>4, <4>1
    <3> QED
      BY <2>1, <3>1, <3>2, <3>3, <3>4, WriteOf
  <2>5. ASSUME NEW k \in CompanyId, companies'[k] # companies[k]
        PROVE  \/ /\ Commits(c, "CreateCompany") /\ companies[k] = Unborn
                  /\ SameText(companies'[k].code, r.code)
               \/ /\ Commits(c, "UpdateCompany") /\ r.id = k
                  /\ companies[k] \notin NotLive /\ companies'[k] \notin NotLive
               \/ Commits(c, "DeleteCompany") /\ r.id = k /\ companies'[k] = Gone
    <3>1. w.table = "companies" /\ w.id = k /\ companies'[k] = w.row /\ CompanyWriteFits(w)
      BY <2>1, <2>2, <2>5 DEF Fits
    <3>2. CASE r.op = "CreateCompany"
      <4>1. w.kind = "insert" /\ w.row.code = normalizeCode(r.code)
        BY <2>1, <3>2, WriteOf DEF Creators, w
      <4>2. SameText(w.row.code, r.code)
        BY <2>1, <3>2, <4>1, ValidRequest, NormalizedKey DEF SameText
      <4> QED
        BY <2>3, <3>1, <3>2, <4>1, <4>2 DEF CompanyWriteFits
    <3>3. CASE r.op = "UpdateCompany"
      <4>1. w.kind = "update" /\ w.id = r.id
        BY <2>1, <3>3, WriteOf DEF Updaters, w
      <4>2. w.row \in CompanyRow
        BY <2>1, <3>1, <4>1, WriteType
      <4>3. w.row \notin NotLive /\ companies[k] \notin NotLive
        BY <3>1, <4>1, <4>2, TablesAssumption DEF CompanyWriteFits, Live
      <4> QED
        BY <2>3, <3>1, <3>3, <4>1, <4>3
    <3>4. CASE r.op = "DeleteCompany"
      <4>1. w.id = r.id /\ w.row = Gone
        BY <2>1, <3>4, WriteOf DEF Deleters, w
      <4> QED
        BY <2>3, <3>1, <3>4, <4>1
    <3> QED
      BY <2>1, <3>1, <3>2, <3>3, <3>4, WriteOf
  <2>6. ASSUME NEW e \in EmployeeId, employees'[e] # employees[e]
        PROVE  \/ /\ Commits(c, "CreateEmployee") /\ employees[e] = Unborn
                  /\ employees'[e].company = r.company /\ employees'[e].user = r.user
               \/ /\ Commits(c, "UpdateEmployee") /\ r.id = e
                  /\ employees[e] \notin NotLive /\ employees'[e] \notin NotLive
                  /\ employees'[e].company = employees[e].company
               \/ /\ employees'[e] = Gone /\ employees[e] \notin NotLive
                  /\ \/ Commits(c, "DeleteEmployee") /\ r.id = e
                     \/ Commits(c, "DeleteCompany") /\ r.id = employees[e].company
    <3>1. CASE w.table = "companies" /\ w.kind = "delete" /\ e \in EmployeesOf(w.id)
      <4>1. r.op = "DeleteCompany" /\ w.id = r.id
        BY <2>1, <3>1, WriteOf DEF Creators, Updaters, Deleters, w
      <4>2. employees'[e] = Gone /\ employees[e] \notin NotLive /\ employees[e].company = w.id
        BY <2>2, <3>1 DEF EmployeesOf, Live
      <4> QED
        BY <2>3, <4>1, <4>2
    <3>2. CASE ~(w.table = "companies" /\ w.kind = "delete" /\ e \in EmployeesOf(w.id))
      <4>1. w.table = "employees" /\ w.id = e /\ employees'[e] = w.row /\ EmployeeWriteFits(w)
        BY <2>1, <2>2, <2>6, <3>2 DEF Fits
      <4>2. CASE r.op = "CreateEmployee"
        <5>1. w.kind = "insert" /\ w.row.company = r.company /\ w.row.user = r.user
          BY <2>1, <4>2, WriteOf DEF Creators, w
        <5> QED
          BY <2>3, <4>1, <4>2, <5>1 DEF EmployeeWriteFits
      <4>3. CASE r.op = "UpdateEmployee"
        <5>1. w.kind = "update" /\ w.id = r.id
          BY <2>1, <4>3, WriteOf DEF Updaters, w
        <5>2. w.row \in EmployeeRow
          BY <2>1, <4>1, <5>1, WriteType
        <5>3. w.row \notin NotLive /\ employees[e] \notin NotLive /\ w.row.company = employees[e].company
          BY <4>1, <5>1, <5>2, TablesAssumption DEF EmployeeWriteFits, Live
        <5> QED
          BY <2>3, <4>1, <4>3, <5>1, <5>3
      <4>4. CASE r.op = "DeleteEmployee"
        <5>1. w.kind = "delete" /\ w.id = r.id /\ w.row = Gone
          BY <2>1, <4>4, WriteOf DEF Deleters, w
        <5>2. employees[e] \notin NotLive
          BY <4>1, <5>1 DEF EmployeeWriteFits, Live
        <5> QED
          BY <2>3, <4>1, <4>4, <5>1, <5>2
      <4> QED
        BY <2>1, <4>1, <4>2, <4>3, <4>4, WriteOf
    <3> QED
      BY <3>1, <3>2
  <2> QED
    BY <2>4, <2>5, <2>6 DEF RowsChangeByRequest
<1> QED
  BY <1>2, <1>3

\* Only COMMIT changes rows.
LEMMA RowsChangeStep == IInv /\ Next => RowsChangeByRequest
<1> SUFFICES ASSUME IInv, Next PROVE RowsChangeByRequest
  OBVIOUS
<1>1. UNCHANGED tables => RowsChangeByRequest
  BY DEF tables, RowsChangeByRequest
<1>2. PICK c \in Call : Receive(c) \/ Serve(c) \/ Late(c) \/ BeginFails(c) \/ ConnectionLost(c) \/ CommitAnswerLost(c)
  BY DEF Next
<1>3. TypeOK /\ TransAtLocation(c)
  BY AtCall DEF CallInv
<1>4. CASE Commit(c) \/ LateCommit(c)
  <2>1. Install(c) /\ trans' = [trans EXCEPT ![c] = "committed"]
    BY <1>4 DEF Commit, LateCommit, Become
  <2>2. trans[c] # "committed" /\ trans'[c] = "committed"
    BY <1>3, <1>4, <2>1 DEF Commit, LateCommit, TransAtLocation, Inside, TypeOK
  <2> QED
    BY <2>1, <2>2, CommitChangesRows
<1>5. CASE UserStep(c) \/ CompanyStep(c) \/ EmployeeStep(c)
  <2>1. Acts(c)
    BY <1>5, Shape
  <2> QED
    BY <1>1, <2>1 DEF Acts, Begins, Begin, Passes, Reads, Executes, Refuses, Refuse
<1>6. CASE Receive(c) \/ Rollback(c) \/ LateRollback(c)
  BY <1>1, <1>6 DEF Receive, Arrive, Rollback, LateRollback, Discard
<1>7. CASE BeginFails(c) \/ ConnectionLost(c) \/ CommitAnswerLost(c)
  BY <1>1, <1>7 DEF BeginFails, ConnectionLost, CommitAnswerLost
<1> QED
  BY <1>2, <1>4, <1>5, <1>6, <1>7 DEF Serve, Late

\* Every row changes by a request only, in the columns that request may change, and
\* in the step that makes the request durable.
THEOREM RowsChange == Spec => RowsChangeOnlyByRequest
<1>1. IInv /\ [Next]_vars => [RowsChangeByRequest]_vars
  BY RowsChangeStep
<1> QED
  BY <1>1, Inductive, PTL DEF Spec, RowsChangeOnlyByRequest
===============================================================================
