---------------------------- MODULE EmployeeService ----------------------------
(* employee.v1.EmployeeService: handler, use case and repository of employees. *)
EXTENDS UseCases

\* Mistake: the code is stored as it was written.
keepEmployeeCode(raw) == raw

normalizeEmployeeCode(raw) == [raw EXCEPT !.spelling = "lower"]

\* Mistakes: only the UNIQUE violation is translated, as in the other services;
\* or every violation is taken for it.
translateUniqueOnly(answer) == CASE answer = "no rows" -> "ErrEmployeeNotFound"
                                 [] answer = "23505" -> "ErrEmployeeCodeAlreadyExists"
                                 [] OTHER -> answer

translateAllAsDuplicate(answer) == IF answer = "no rows" THEN "ErrEmployeeNotFound"
                                   ELSE "ErrEmployeeCodeAlreadyExists"

\* The only translation that tells the violated constraint from its name.
translateEmployeePgError(answer) ==
    CASE answer = "no rows" -> "ErrEmployeeNotFound"
      [] answer = "23505" -> "ErrEmployeeCodeAlreadyExists"
      [] answer = "employees_company_id_fkey" -> "ErrCompanyNotFound"
      [] answer = "employees_user_id_fkey" -> "ErrUserNotFound"
      [] answer = "23514" -> "ErrInvalidDateRange"
      [] OTHER -> answer

\* A date that does not parse, a date left out; NoDate is an empty string, which
\* clears the date.
BadDate == -1
UnsetDate == -2

\* A malformed user id is one uuid.Parse rejects; a malformed company or employee
\* id is one that nobody parses before the database does.  uuid.Parse also takes
\* urn:uuid:... and 36 characters between any two delimiters, and normalizeUserID
\* returns the text, not the UUID: PostgreSQL, which takes braces only, gets to
\* read it and answers 22P02.
CreateEmployeeRequest ==
    [op : {"CreateEmployee"}, company : CompanyId \cup {Malformed, Blank},
     code : Key \cup {Malformed}, user : UserId \cup {Malformed, Blank, Urn},
     status : Status \cup {Unset, Malformed},
     hired : Date \cup {NoDate, BadDate}, terminated : Date \cup {NoDate, BadDate}]

UpdateEmployeeRequest ==
    [op : {"UpdateEmployee"}, id : EmployeeId \cup {Malformed, Blank},
     code : Key \cup {Unset, Malformed, Blank},
     user : UserId \cup {Unset, Malformed, Blank, Urn},
     status : Status \cup {Unset, Malformed},
     hired : Date \cup {NoDate, BadDate, UnsetDate},
     terminated : Date \cup {NoDate, BadDate, UnsetDate}]
EmployeeIdRequest == [op : {"DeleteEmployee", "GetEmployee"},
                      id : EmployeeId \cup {Malformed, Blank}]

\* validateEmploymentPeriod
PeriodError(hired, terminated) ==
    IF hired # NoDate /\ terminated # NoDate /\ terminated < hired
      THEN "ErrInvalidDateRange" ELSE "nil"

normalizeUserID(raw) == IF raw \in {Malformed, Blank} THEN "ErrInvalidUserID" ELSE "nil"

CreateEmployeeError(r) ==
    IF BadDate \in {r.hired, r.terminated} THEN "invalid date format"
    ELSE IF r.status = Malformed THEN "ErrInvalidStatus"
    ELSE IF r.company = Blank THEN "ErrInvalidCompanyID"
    ELSE IF r.code = Malformed THEN "ErrInvalidEmployeeCode"
    ELSE IF normalizeUserID(r.user) # "nil" THEN normalizeUserID(r.user)
    ELSE PeriodError(r.hired, r.terminated)

UpdateEmployeeError(r) ==
    IF r.status = Malformed THEN "ErrInvalidStatus"
    ELSE IF BadDate \in {r.hired, r.terminated} THEN "invalid date format" ELSE IdError(r)

EmployeeRequestError(r) == CASE r.op = "CreateEmployee" -> CreateEmployeeError(r)
                             [] r.op = "UpdateEmployee" -> UpdateEmployeeError(r)
                             [] OTHER -> IdError(r)

EmployeeOps == {"CreateEmployee", "UpdateEmployee", "DeleteEmployee", "GetEmployee"}

BeginEmployee(c) == /\ req[c].op \in EmployeeOps
                    /\ Begin(c, CASE req[c].op = "CreateEmployee" -> "check"
                                  [] req[c].op = "DeleteEmployee" -> "write"
                                  [] OTHER -> "find")

\* The company in which the code must be free: an update stays in the company
\* of the row it read.
CompanyOf(c) == IF req[c].op = "CreateEmployee" THEN req[c].company ELSE seen[c].company

FindByCompanyAndCode(company, k) == {e \in EmployeesOf(company) : employees[e].code = k}

ensureEmployeeCodeNotExists(c) ==
    /\ pc[c] = "check" /\ req[c].op \in {"CreateEmployee", "UpdateEmployee"}
    /\ IF CompanyOf(c) = Malformed THEN Refuse(c, translateEmployeePgError("22P02"))
       ELSE IF FindByCompanyAndCode(CompanyOf(c), normalizeEmployeeCode(req[c].code)) # {}
         THEN Refuse(c, "ErrEmployeeCodeAlreadyExists")
         ELSE Goto(c, "write") /\ UNCHANGED <<tables, pend, req, seen, code, trans>>

\* The three writing statements of the repository; the UPDATE writes every column
\* but company_id, which no request can change.
InsertEmployee(e, r) ==
    [table |-> "employees", kind |-> "insert", id |-> e,
     row |-> [company |-> r.company, code |-> normalizeEmployeeCode(r.code), user |-> r.user,
              status |-> IF r.status = Unset THEN "active" ELSE r.status,
              hired |-> r.hired, terminated |-> r.terminated]]

\* Mistake: an INSERT ... ON CONFLICT (id) DO UPDATE.
UpsertEmployeeRow(e, row) == [table |-> "employees", kind |-> "insert", id |-> e, row |-> row]

UpdateEmployeeRow(e, row) == [table |-> "employees", kind |-> "update", id |-> e, row |-> row]
DeleteEmployeeRow(e) == [table |-> "employees", kind |-> "delete", id |-> e, row |-> Gone]

ExecuteEmployee(c, w) == \E a \in Answers(w) : Execute(c, w, a, translateEmployeePgError(a))

CreateEmployee(c) ==
    /\ pc[c] = "write" /\ req[c].op = "CreateEmployee"
    /\ IF req[c].user = Urn THEN Refuse(c, translateEmployeePgError("22P02"))
       ELSE \E e \in EmployeeId :
               /\ employees[e] = Unborn
               /\ \A d \in Call : pend[d] # NoWrite => pend[d].id # e
               /\ ExecuteEmployee(c, InsertEmployee(e, req[c]))

MergedEmployee(r, row) ==
    [row EXCEPT !.code = IF r.code = Unset THEN @ ELSE normalizeEmployeeCode(r.code),
                !.user = IF r.user = Unset THEN @ ELSE r.user,
                !.status = IF r.status = Unset THEN @ ELSE r.status,
                !.hired = IF r.hired = UnsetDate THEN @ ELSE r.hired,
                !.terminated = IF r.terminated = UnsetDate THEN @ ELSE r.terminated]

\* The rest of UpdateEmployee's validation, once the row is read and (if it
\* changes) the code is known to be free.
MergeError(r, row) ==
    IF normalizeUserID(r.user) # "nil" THEN normalizeUserID(r.user)
    ELSE LET m == MergedEmployee(r, row) IN PeriodError(m.hired, m.terminated)

EmployeeCodeChanges(r, row) == r.code # Unset /\ normalizeEmployeeCode(r.code) # row.code

FindEmployee(c) ==
    /\ pc[c] = "find" /\ req[c].op \in {"UpdateEmployee", "GetEmployee"}
    /\ LET r == req[c] IN
       IF r.id = Malformed THEN Refuse(c, translateEmployeePgError("22P02"))
       ELSE IF r.id \notin Live(employees) THEN Refuse(c, translateEmployeePgError("no rows"))
       ELSE IF r.op = "UpdateEmployee" /\ r.code \in {Malformed, Blank}
         THEN Refuse(c, "ErrInvalidEmployeeCode")
       ELSE /\ seen' = [seen EXCEPT ![c] = employees[r.id]]
            /\ Goto(c, IF r.op = "GetEmployee" THEN "commit"
                       ELSE IF EmployeeCodeChanges(r, employees[r.id]) THEN "check" ELSE "write")
            /\ UNCHANGED <<tables, pend, req, code, trans>>

UpdateEmployee(c) ==
    /\ pc[c] = "write" /\ req[c].op = "UpdateEmployee"
    /\ LET r == req[c] IN
       IF MergeError(r, seen[c]) # "nil" THEN Refuse(c, MergeError(r, seen[c]))
       ELSE IF r.user = Urn THEN Refuse(c, translateEmployeePgError("22P02"))
       ELSE ExecuteEmployee(c, UpdateEmployeeRow(r.id, MergedEmployee(r, seen[c])))

DeleteEmployee(c) ==
    /\ pc[c] = "write" /\ req[c].op = "DeleteEmployee"
    /\ IF req[c].id = Malformed THEN Refuse(c, translateEmployeePgError("22P02"))
       ELSE ExecuteEmployee(c, DeleteEmployeeRow(req[c].id))

EmployeeStep(c) == \/ BeginEmployee(c) \/ ensureEmployeeCodeNotExists(c) \/ CreateEmployee(c)
                   \/ FindEmployee(c) \/ UpdateEmployee(c) \/ DeleteEmployee(c)
===============================================================================
