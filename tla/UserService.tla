------------------------------ MODULE UserService ------------------------------
(* user.v1.UserService: handler, use case and repository of the users table.   *)
EXTENDS UseCases

\* Mistake: the address is stored as it was written.
keepEmail(raw) == raw

\* mail.ParseAddress rejects anything but an address; the rest is lowered.
normalizeEmail(raw) == [raw EXCEPT !.spelling = "lower"]

\* Mistake: every violation is taken for a missing row.
translateToNotFound(answer) == "ErrUserNotFound"

\* Only the UNIQUE violation has a domain error of its own: a foreign key that
\* forbids DELETE stays an internal error.
translatePgError(answer) == CASE answer = "no rows" -> "ErrUserNotFound"
                              [] answer = "23505" -> "ErrEmailAlreadyExists"
                              [] OTHER -> answer

\* Requests, and the error of the validation that precedes the transaction.
CreateUserRequest == [op : {"CreateUser"}, email : Key \cup {Malformed}, name : Name \cup {Blank}]
UpdateUserRequest == [op : {"UpdateUser"}, id : UserId \cup {Malformed, Blank},
                      name : Name \cup {Unset, Blank}, status : Status \cup {Unset, Malformed}]
UserIdRequest == [op : {"DeleteUser", "GetUser"}, id : UserId \cup {Malformed, Blank}]

CreateUserError(r) == IF r.email = Malformed THEN "ErrInvalidEmail"
                      ELSE IF r.name = Blank THEN "ErrInvalidName" ELSE "nil"

UpdateUserError(r) == IF r.status = Malformed THEN "ErrInvalidStatus" ELSE IdError(r)

UserRequestError(r) == CASE r.op = "CreateUser" -> CreateUserError(r)
                         [] r.op = "UpdateUser" -> UpdateUserError(r)
                         [] OTHER -> IdError(r)

UserOps == {"CreateUser", "UpdateUser", "DeleteUser", "GetUser"}

BeginUser(c) == /\ req[c].op \in UserOps
                /\ Begin(c, CASE req[c].op = "CreateUser" -> "check"
                              [] req[c].op = "DeleteUser" -> "write"
                              [] OTHER -> "find")

\* The users with an e-mail address, as committed: at most one.
FindByEmail(email) == {u \in Live(users) : users[u].email = email}

\* Mistake: the call waits until the address is free.
ensureEmailWaits(c) ==
    /\ pc[c] = "check" /\ req[c].op = "CreateUser"
    /\ FindByEmail(normalizeEmail(req[c].email)) = {}
    /\ Goto(c, "write") /\ UNCHANGED <<tables, pend, req, seen, code, trans>>

ensureEmailNotExists(c) ==
    /\ pc[c] = "check" /\ req[c].op = "CreateUser"
    /\ IF FindByEmail(normalizeEmail(req[c].email)) # {}
         THEN Refuse(c, "ErrEmailAlreadyExists")
         ELSE Goto(c, "write") /\ UNCHANGED <<tables, pend, req, seen, code, trans>>

\* The three writing statements of the repository.  The e-mail address is no
\* column of the UPDATE and never changes, so the row read has it.
InsertUser(u, r) == [table |-> "users", kind |-> "insert", id |-> u,
                     row |-> [email |-> normalizeEmail(r.email), name |-> r.name,
                              status |-> "active"]]

\* Mistake: an INSERT ... ON CONFLICT (id) DO UPDATE.
UpsertUserRow(u, row) == [table |-> "users", kind |-> "insert", id |-> u, row |-> row]

UpdateUserRow(u, row) == [table |-> "users", kind |-> "update", id |-> u, row |-> row]
DeleteUserRow(u) == [table |-> "users", kind |-> "delete", id |-> u, row |-> Gone]

ExecuteUser(c, w) == \E a \in Answers(w) : Execute(c, w, a, translatePgError(a))

\* The database picks the id.
CreateUser(c) ==
    /\ pc[c] = "write" /\ req[c].op = "CreateUser"
    /\ \E u \in UserId :
          /\ users[u] = Unborn
          /\ \A d \in Call : pend[d] # NoWrite => pend[d].id # u
          /\ ExecuteUser(c, InsertUser(u, req[c]))

\* Mistake: fields left out are assigned like the others.
OverwrittenUser(r, row) == [row EXCEPT !.name = r.name, !.status = r.status]

\* What UpdateUser makes of the row it read; fields left out keep what was read.
MergedUser(r, row) == [row EXCEPT !.name = IF r.name = Unset THEN @ ELSE r.name,
                                  !.status = IF r.status = Unset THEN @ ELSE r.status]

\* repo.FindByID, for UpdateUser and GetUser.
FindUser(c) ==
    /\ pc[c] = "find" /\ req[c].op \in {"UpdateUser", "GetUser"}
    /\ LET r == req[c] IN
       IF r.id = Malformed THEN Refuse(c, translatePgError("22P02"))
       ELSE IF r.id \notin Live(users) THEN Refuse(c, translatePgError("no rows"))
       ELSE IF r.op = "UpdateUser" /\ r.name = Blank THEN Refuse(c, "ErrInvalidName")
       ELSE /\ seen' = [seen EXCEPT ![c] = users[r.id]]
            /\ Goto(c, IF r.op = "GetUser" THEN "commit" ELSE "write")
            /\ UNCHANGED <<tables, pend, req, code, trans>>

UpdateUser(c) ==
    /\ pc[c] = "write" /\ req[c].op = "UpdateUser"
    /\ ExecuteUser(c, UpdateUserRow(req[c].id, MergedUser(req[c], seen[c])))

DeleteUser(c) ==
    /\ pc[c] = "write" /\ req[c].op = "DeleteUser"
    /\ IF req[c].id = Malformed THEN Refuse(c, translatePgError("22P02"))
       ELSE ExecuteUser(c, DeleteUserRow(req[c].id))

UserStep(c) == \/ BeginUser(c) \/ ensureEmailNotExists(c) \/ CreateUser(c)
               \/ FindUser(c) \/ UpdateUser(c) \/ DeleteUser(c)
===============================================================================
