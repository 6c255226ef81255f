------------------------------- MODULE UseCases -------------------------------
(* The life of one RPC, the same for the three services: the handler and the   *)
(* use case validate the request, the use case opens a transaction, reads,     *)
(* writes and commits, and the handler maps the error to a gRPC code.  What an *)
(* RPC reads and writes is in UserService, CompanyService and EmployeeService. *)
(* The transaction is the unit of work that TransactionManager implements.     *)
EXTENDS Tables

CONSTANTS Faults,          \* TRUE: connections and COMMIT may fail
          NoRow,           \* nothing read yet
          Unset,           \* an optional field that the request leaves out
          Blank,           \* a string that TrimSpace empties
          Malformed,       \* no UUID, no e-mail address, no code, no known status
          Urn              \* a user id that uuid.Parse accepts and PostgreSQL does not

VARIABLES pc,              \* where the goroutine of the call stands
          req,             \* the request
          seen,            \* the row FindByID returned
          code,            \* the gRPC code of the answer
          trans            \* the database's view of the transaction

callVars == <<pc, req, seen, code, trans>>
vars == <<tables, pend, callVars>>

ASSUME UseCasesAssumption ==
    /\ Faults \in BOOLEAN
    /\ NoRow \notin UserRow \cup CompanyRow \cup EmployeeRow
    /\ {Unset, Blank, Malformed, Urn} \cap
          (UserId \cup CompanyId \cup EmployeeId \cup Key \cup Name \cup Status) = {}
    /\ Unset # Blank /\ Unset # Malformed /\ Blank # Malformed
    /\ Urn \notin {Unset, Blank, Malformed}

Location == {"idle", "begin", "find", "check", "write", "commit", "rollback", "done"}
Code == {"OK", "InvalidArgument", "AlreadyExists", "NotFound", "Internal"}
Transaction == {"none", "open", "dropped", "committing", "committed", "rolledback"}
NoRequest == [op |-> "none"]

-------------------------------------------------------------------------------
Invalid == {"ErrInvalidEmail", "ErrInvalidName", "ErrInvalidStatus", "ErrInvalidID",
            "ErrInvalidCode", "ErrInvalidCompanyID", "ErrInvalidEmployeeCode",
            "ErrInvalidUserID", "ErrInvalidDateRange", "invalid date format"}
Duplicate == {"ErrEmailAlreadyExists", "ErrCodeAlreadyExists", "ErrEmployeeCodeAlreadyExists"}
Missing == {"ErrUserNotFound", "ErrCompanyNotFound", "ErrEmployeeNotFound"}

\* Only an empty id is refused before the database sees it.
IdError(r) == IF r.id = Blank THEN "ErrInvalidID" ELSE "nil"

toStatusError(err) == CASE err = "nil" -> "OK"
                        [] err \in Invalid -> "InvalidArgument"
                        [] err \in Duplicate -> "AlreadyExists"
                        [] err \in Missing -> "NotFound"
                        [] OTHER -> "Internal"

Goto(c, l) == pc' = [pc EXCEPT ![c] = l]

Become(c, t) == trans' = [trans EXCEPT ![c] = t]

Reply(c, k) == code' = [code EXCEPT ![c] = k]

\* The request arrives; err is what validation before the transaction returns.
Arrive(c, r, err) ==
    /\ req' = [req EXCEPT ![c] = r]
    /\ IF err = "nil" THEN Goto(c, "begin") /\ UNCHANGED code
                      ELSE Goto(c, "done") /\ Reply(c, toStatusError(err))
    /\ UNCHANGED <<tables, pend, seen, trans>>

Begin(c, l) == /\ pc[c] = "begin"
               /\ Become(c, "open") /\ Goto(c, l)
               /\ UNCHANGED <<tables, pend, req, seen, code>>

\* The function given to WithinReadWrite returns an error.
Refuse(c, err) == /\ Goto(c, "rollback") /\ Reply(c, toStatusError(err))
                  /\ UNCHANGED <<tables, pend, req, seen, trans>>

\* The function executes its one writing statement, which the database answers
\* with a; err is the repository's translation of a refusal.
Execute(c, w, a, err) ==
    /\ ~MustWait(c, w)
    /\ IF a = "ok" THEN /\ pend' = [pend EXCEPT ![c] = w]
                        /\ Goto(c, "commit")
                        /\ UNCHANGED <<tables, req, seen, code, trans>>
                   ELSE Refuse(c, err)

Commit(c) == /\ pc[c] = "commit"
             /\ Install(c) /\ Become(c, "committed")
             /\ Goto(c, "done") /\ Reply(c, "OK")
             /\ UNCHANGED <<req, seen>>

\* The code chosen when the error was raised survives the rollback.
Rollback(c) == /\ pc[c] = "rollback"
               /\ Discard(c) /\ Become(c, "rolledback")
               /\ Goto(c, "done")
               /\ UNCHANGED <<req, seen, code>>

-------------------------------------------------------------------------------
BeginFails(c) == /\ Faults /\ pc[c] = "begin"
                 /\ Goto(c, "done") /\ Reply(c, "Internal")
                 /\ UNCHANGED <<tables, pend, req, seen, trans>>

\* Mistake: the connection stays open, so the database never notices.
ConnectionLeaked(c) == /\ Faults /\ pc[c] \in {"find", "check", "write", "commit", "rollback"}
                       /\ Goto(c, "done") /\ Reply(c, "Internal")
                       /\ UNCHANGED <<tables, pend, req, seen, trans>>

\* The context of the call ends or its connection dies inside the transaction.
\* errors.Join keeps a domain error whose rollback failed, hence its code.  The
\* database, and the locks it holds, notice later.
ConnectionLost(c) == /\ Faults /\ pc[c] \in {"find", "check", "write", "commit", "rollback"}
                     /\ Become(c, "dropped")
                     /\ Goto(c, "done")
                     /\ IF pc[c] = "rollback" THEN UNCHANGED code ELSE Reply(c, "Internal")
                     /\ UNCHANGED <<tables, pend, req, seen>>

\* Mistake: the error of Commit is not looked at.
CommitAnswerIgnored(c) == /\ Faults /\ pc[c] = "commit"
                          /\ Become(c, "committing")
                          /\ Goto(c, "done") /\ Reply(c, "OK")
                          /\ UNCHANGED <<tables, pend, req, seen>>

\* COMMIT was sent, but its answer never arrives.
CommitAnswerLost(c) == /\ Faults /\ pc[c] = "commit"
                       /\ Become(c, "committing")
                       /\ Goto(c, "done") /\ Reply(c, "Internal")
                       /\ UNCHANGED <<tables, pend, req, seen>>

\* The database finishes a transaction that lost its client.
LateCommit(c) == /\ trans[c] = "committing"
                 /\ Install(c) /\ Become(c, "committed")
                 /\ UNCHANGED <<pc, req, seen, code>>

LateRollback(c) == /\ trans[c] \in {"committing", "dropped"}
                   /\ Discard(c) /\ Become(c, "rolledback")
                   /\ UNCHANGED <<pc, req, seen, code>>
===============================================================================
