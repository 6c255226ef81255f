---------------------------- MODULE CompanyService ----------------------------
(* company.v1.CompanyService: handler, use case and repository of companies.   *)
(* The description is one more free text, treated like the name.               *)
EXTENDS UseCases

\* Mistake: the code is stored as it was written.
keepCode(raw) == raw

\* normalizeCode of the company and normalizeEmployeeCode of the employee are
\* the same function: trim, lower, match the pattern.
normalizeCode(raw) == [raw EXCEPT !.spelling = "lower"]

translateCompanyPgError(answer) == CASE answer = "no rows" -> "ErrCompanyNotFound"
                                     [] answer = "23505" -> "ErrCodeAlreadyExists"
                                     [] OTHER -> answer

CreateCompanyRequest == [op : {"CreateCompany"}, code : Key \cup {Malformed},
                         name : Name \cup {Blank}]
UpdateCompanyRequest == [op : {"UpdateCompany"}, id : CompanyId \cup {Malformed, Blank},
                         code : Key \cup {Unset, Malformed}, name : Name \cup {Unset, Blank},
                         status : Status \cup {Unset, Malformed}]
CompanyIdRequest == [op : {"DeleteCompany", "GetCompany"}, id : CompanyId \cup {Malformed, Blank}]

\* Mistake: the name is not checked.
CreateCompanyErrorNoName(r) == IF r.code = Malformed THEN "ErrInvalidCode" ELSE "nil"

CreateCompanyError(r) == IF r.name = Blank THEN "ErrInvalidName"
                         ELSE IF r.code = Malformed THEN "ErrInvalidCode" ELSE "nil"

UpdateCompanyError(r) == IF r.status = Malformed THEN "ErrInvalidStatus" ELSE IdError(r)

CompanyRequestError(r) == CASE r.op = "CreateCompany" -> CreateCompanyError(r)
                            [] r.op = "UpdateCompany" -> UpdateCompanyError(r)
                            [] OTHER -> IdError(r)

CompanyOps == {"CreateCompany", "UpdateCompany", "DeleteCompany", "GetCompany"}

BeginCompany(c) == /\ req[c].op \in CompanyOps
                   /\ Begin(c, CASE req[c].op = "CreateCompany" -> "check"
                                 [] req[c].op = "DeleteCompany" -> "write"
                                 [] OTHER -> "find")

FindByCode(k) == {i \in Live(companies) : companies[i].code = k}

\* For CreateCompany, and for an UpdateCompany that changes the code it read.
ensureCodeNotExists(c) ==
    /\ pc[c] = "check" /\ req[c].op \in {"CreateCompany", "UpdateCompany"}
    /\ IF FindByCode(normalizeCode(req[c].code)) # {}
         THEN Refuse(c, "ErrCodeAlreadyExists")
         ELSE Goto(c, "write") /\ UNCHANGED <<tables, pend, req, seen, code, trans>>

\* The three writing statements of the repository; the UPDATE writes every column.
InsertCompany(k, r) == [table |-> "companies", kind |-> "insert", id |-> k,
                        row |-> [code |-> normalizeCode(r.code), name |-> r.name,
                                 status |-> "active"]]

\* Mistake: an INSERT ... ON CONFLICT (id) DO UPDATE.
UpsertCompanyRow(k, row) == [table |-> "companies", kind |-> "insert", id |-> k, row |-> row]

UpdateCompanyRow(k, row) == [table |-> "companies", kind |-> "update", id |-> k, row |-> row]
DeleteCompanyRow(k) == [table |-> "companies", kind |-> "delete", id |-> k, row |-> Gone]

ExecuteCompany(c, w) == \E a \in Answers(w) : Execute(c, w, a, translateCompanyPgError(a))

CreateCompany(c) ==
    /\ pc[c] = "write" /\ req[c].op = "CreateCompany"
    /\ \E k \in CompanyId :
          /\ companies[k] = Unborn
          /\ \A d \in Call : pend[d] # NoWrite => pend[d].id # k
          /\ ExecuteCompany(c, InsertCompany(k, req[c]))

MergedCompany(r, row) ==
    [row EXCEPT !.code = IF r.code = Unset THEN @ ELSE normalizeCode(r.code),
                !.name = IF r.name = Unset THEN @ ELSE r.name,
                !.status = IF r.status = Unset THEN @ ELSE r.status]

\* Mistake: any code in the request is looked up, the company's own included.
CodeGiven(r, row) == r.code # Unset

CodeChanges(r, row) == r.code # Unset /\ normalizeCode(r.code) # row.code

FindCompany(c) ==
    /\ pc[c] = "find" /\ req[c].op \in {"UpdateCompany", "GetCompany"}
    /\ LET r == req[c] IN
       IF r.id = Malformed THEN Refuse(c, translateCompanyPgError("22P02"))
       ELSE IF r.id \notin Live(companies) THEN Refuse(c, translateCompanyPgError("no rows"))
       ELSE IF r.op = "UpdateCompany" /\ r.name = Blank THEN Refuse(c, "ErrInvalidName")
       ELSE IF r.op = "UpdateCompany" /\ r.code = Malformed THEN Refuse(c, "ErrInvalidCode")
       ELSE /\ seen' = [seen EXCEPT ![c] = companies[r.id]]
            /\ Goto(c, IF r.op = "GetCompany" THEN "commit"
                       ELSE IF CodeChanges(r, companies[r.id]) THEN "check" ELSE "write")
            /\ UNCHANGED <<tables, pend, req, code, trans>>

UpdateCompany(c) ==
    /\ pc[c] = "write" /\ req[c].op = "UpdateCompany"
    /\ ExecuteCompany(c, UpdateCompanyRow(req[c].id, MergedCompany(req[c], seen[c])))

\* The employees of the company go with it (ON DELETE CASCADE).
DeleteCompany(c) ==
    /\ pc[c] = "write" /\ req[c].op = "DeleteCompany"
    /\ IF req[c].id = Malformed THEN Refuse(c, translateCompanyPgError("22P02"))
       ELSE ExecuteCompany(c, DeleteCompanyRow(req[c].id))

CompanyStep(c) == \/ BeginCompany(c) \/ ensureCodeNotExists(c) \/ CreateCompany(c)
                  \/ FindCompany(c) \/ UpdateCompany(c) \/ DeleteCompany(c)
===============================================================================
