--------------------------------- MODULE Locks ---------------------------------
(* One writing statement from within.  Tables lets it take its locks at once;  *)
(* PostgreSQL takes them one after the other: the row, the entry of the unique *)
(* index, then, in the triggers of the foreign keys, the rows referred to or   *)
(* the referring rows, which it deletes or only tests.  So a statement may hold*)
(* some locks while it waits for others, and statements may wait in a circle.  *)
(* Each call executes one write and commits.  The use case may have tested the *)
(* write long before, so any write meets any database.                         *)
EXTENDS Tables

CONSTANTS Statements,              \* what the calls may execute, one statement each
          Seed,                    \* contents the database may have at first
          NoLock                   \* waits for nothing

VARIABLES stmt,                    \* the statement of each call
          held,                    \* row and index locks, kept until the transaction ends
          want,                    \* the lock a statement waits for
          first,                   \* it is the first in the line for that row
          answer                   \* of the database

vars == <<tables, pend, stmt, held, want, first, answer>>

\* No UPDATE sets the address of a user or the company of an employee.
SetsOnly(w, row) == /\ w.table = "users" => w.row.email = row.email
                    /\ w.table = "employees" => w.row.company = row.company

\* What the repositories execute on a database s: a new row has an id of its own, an
\* UPDATE of a row that s has, or that another statement of f inserts, leaves the
\* other columns alone, and the services have looked at the period.
Executable(f, s) ==
    LET Before(t) == CASE t = "users" -> s.users
                       [] t = "companies" -> s.companies
                       [] t = "employees" -> s.employees
        Inserts(c) == f[c].kind = "insert"
        OneId(c, d) == f[c].table = f[d].table /\ f[c].id = f[d].id
    IN \A c \in Call : LET w == f[c] IN
          /\ Inserts(c) => /\ Before(w.table)[w.id] = Unborn
                           /\ \A d \in Call \ {c} : Inserts(d) => ~OneId(c, d)
          /\ w.kind = "update" =>
                /\ Before(w.table)[w.id] \notin NotLive => SetsOnly(w, Before(w.table)[w.id])
                /\ \A d \in Call : Inserts(d) /\ OneId(c, d) => SetsOnly(w, f[d].row)
          /\ w.table = "employees" /\ w.kind # "delete" => PeriodOK(w.row)

ASSUME LocksAssumption ==
    /\ Statements \subseteq [Call -> Write]
    /\ \A s \in Seed : /\ s.users \in [UserId -> UserRow \cup NotLive]
                       /\ s.companies \in [CompanyId -> CompanyRow \cup NotLive]
                       /\ s.employees \in [EmployeeId -> EmployeeRow \cup NotLive]
    /\ \A f \in Statements, s \in Seed : Executable(f, s)

\* Modes: "update" and "no key update" of a writer, "key share" of a foreign key.
Conflict(m, n) == \/ m = "update" \/ n = "update"
                  \/ m = "no key update" /\ n = "no key update"

RowLock(t, i, mode) == [what |-> <<t, i>>, mode |-> mode]

\* To change a column of a unique index is to change what foreign keys may refer to.
OwnRow(w) ==
    {RowLock(w.table, w.id, mode) : mode \in
        CASE w.kind = "insert" -> {}
          [] w.kind = "delete" -> {"update"}
          [] OTHER -> IF SetsKey(w) THEN {"update"} ELSE {"no key update"}}

\* Mistake: employees have no unique index.
EntryOfOthers(w) ==
    IF SetsKey(w) /\ w.table # "employees"
      THEN {[what |-> <<"entry", w.table, UniqueKey(w.table, w.row)>>, mode |-> "update"]}
      ELSE {}

\* The entry of the unique index.
Entry(w) == IF SetsKey(w)
              THEN {[what |-> <<"entry", w.table, UniqueKey(w.table, w.row)>>, mode |-> "update"]}
              ELSE {}

\* Mistake: whoever removes an employee takes its company, too.
CompanyRefOfAll(w) ==
    IF w.table # "employees" THEN {}
    ELSE IF w.kind = "insert" THEN {RowLock("companies", w.row.company, "key share")}
    ELSE {RowLock("companies", employees[e].company, "key share") :
             e \in {w.id} \cap Live(employees)}

\* The company of a new employee, and the user of one that gets another.
CompanyRef(w) == IF w.table = "employees" /\ w.kind = "insert"
                   THEN {RowLock("companies", w.row.company, "key share")} ELSE {}

UserRef(w) == IF SetsUser(w) THEN {RowLock("users", w.row.user, "key share")} ELSE {}

\* ON DELETE CASCADE deletes the employees of a company; ON DELETE RESTRICT looks
\* for those who are the user.
Referrers(w) ==
    CASE w.kind = "delete" /\ w.table = "companies" ->
            {RowLock("employees", e, "update") : e \in EmployeesOf(w.id)}
      [] w.kind = "delete" /\ w.table = "users" ->
            {RowLock("employees", e, "key share") : e \in EmployeesBeing(w.id)}
      [] OTHER -> {}

\* The locks to take next: those left of the first part that is not complete.
NextLocks(c) ==
    LET w == stmt[c]
        Part(s) == s \ held[c]
    IN CASE Part(OwnRow(w)) # {} -> Part(OwnRow(w))
         [] Part(OwnRow(w)) = {} /\ Part(Entry(w)) # {} -> Part(Entry(w))
         [] Part(OwnRow(w) \cup Entry(w)) = {} /\ Part(CompanyRef(w)) # {} -> Part(CompanyRef(w))
         [] OTHER -> Part(UserRef(w) \cup Referrers(w))

\* The transactions a lock must wait for: those that hold a conflicting one; for
\* an entry, also those that have written a row with the same key.
Blockers(c, l) ==
    {d \in Call \ {c} :
        \E h \in held[d] :
           \/ h.what = l.what /\ Conflict(h.mode, l.mode)
           \/ /\ l \in Entry(stmt[c]) /\ h.mode # "key share"
              /\ \E i \in KeyHolders(stmt[c]) : h.what = <<stmt[c].table, i>>}

Waiting(c) == want[c] # NoLock

\* Who waits for a row keeps the tuple lock of that row meanwhile, and those who
\* come after queue for the tuple lock; an entry has no such line.
IsRow(l) == l.what[1] # "entry"

Ahead(c, l) == {d \in Call \ {c} :
                  first[d] /\ want[d].what = l.what /\ Conflict(want[d].mode, l.mode)}

\* The first in the line waits for those that hold the row, the others for the first.
WaitsFor(c) == IF ~Waiting(c) THEN {}
               ELSE IF IsRow(want[c]) /\ ~first[c] THEN Ahead(c, want[c])
               ELSE Blockers(c, want[c])

\* What is wrong with the row or the entry the statement has come to.
Obstacle(c, l) ==
    LET w == stmt[c] IN
    CASE l \in OwnRow(w) -> IF Exists(w) THEN "none" ELSE "no rows"
      [] l \in Entry(w) -> IF KeyHolders(w) = {} THEN "none" ELSE "23505"
      [] l \in CompanyRef(w) -> IF l.what[2] \in Live(companies) THEN "none"
                                ELSE "employees_company_id_fkey"
      [] l \in UserRef(w) -> IF w.row.user \in Live(users) THEN "none"
                             ELSE "employees_user_id_fkey"
      [] OTHER -> IF w.table = "users" THEN "employees_user_id_fkey" ELSE "none"

-------------------------------------------------------------------------------
Init == /\ \E s \in Seed : users = s.users /\ companies = s.companies /\ employees = s.employees
        /\ pend = [c \in Call |-> NoWrite]
        /\ stmt \in Statements
        /\ held = [c \in Call |-> {}]
        /\ want = [c \in Call |-> NoLock]
        /\ first = [c \in Call |-> FALSE]
        /\ answer = [c \in Call |-> "none"]

Executing(c) == answer[c] = "none"

\* It waits for nothing any more.
Awake(c) == /\ want' = [want EXCEPT ![c] = NoLock]
            /\ first' = [first EXCEPT ![c] = FALSE]

\* Mistake: locks outlive the error.
RefuseAndKeep(c, a) == /\ answer' = [answer EXCEPT ![c] = a]
                       /\ Awake(c)
                       /\ UNCHANGED <<tables, pend, stmt, held>>

\* An error aborts the transaction, and its locks are free.
Refuse(c, a) == /\ answer' = [answer EXCEPT ![c] = a]
                /\ Awake(c)
                /\ held' = [held EXCEPT ![c] = {}]
                /\ UNCHANGED <<tables, pend, stmt>>

\* At the end of the line, or at its head if nobody is there; who queues for the
\* tuple lock may be overtaken, so the order of the others is left open.
Wait(c, l) == /\ want' = [want EXCEPT ![c] = l]
              /\ \E b \in BOOLEAN : /\ b => IsRow(l) /\ Ahead(c, l) = {}
                                    /\ first' = [first EXCEPT ![c] = b]
              /\ UNCHANGED <<tables, pend, stmt, held, answer>>

\* Take the lock, wait for it, or find that the statement fails.  Whoever finds
\* the row free takes it, whatever line there is.
Take(c, l) ==
    IF Blockers(c, l) # {} THEN Wait(c, l)
    ELSE IF Obstacle(c, l) # "none" THEN Refuse(c, Obstacle(c, l))
    ELSE /\ held' = [held EXCEPT ![c] = @ \cup {l}]
         /\ Awake(c)
         /\ UNCHANGED <<tables, pend, stmt, answer>>

Finish(c) == /\ NextLocks(c) = {}
             /\ pend' = [pend EXCEPT ![c] = stmt[c]]
             /\ answer' = [answer EXCEPT ![c] = "ok"]
             /\ Awake(c)
             /\ UNCHANGED <<tables, stmt, held>>

\* A statement that waited looks again at what it waited for.
Proceed(c) == /\ Executing(c)
              /\ WaitsFor(c) = {}
              /\ \/ Finish(c)
                 \/ \E l \in NextLocks(c) : (want[c] \in NextLocks(c) => l = want[c]) /\ Take(c, l)

\* Mistake: only two statements that wait for each other are noticed.
InPair(c) == \E d \in WaitsFor(c) : c \in WaitsFor(d)

\* Those for whom c waits at some remove: they are in every set that has those c
\* waits for, and with each of its members those it waits for.
Reached(c) == {d \in Call :
    \A s \in SUBSET Call :
        WaitsFor(c) \subseteq s /\ (\A e \in s : WaitsFor(e) \subseteq s) => d \in s}

InCircle(c) == c \in Reached(c)

\* After deadlock_timeout a waiting statement looks for a circle and gives up its own
\* transaction.  Neither repository translates 40P01, so the client sees INTERNAL.
Detect(c) == WaitsFor(c) # {} /\ InCircle(c) /\ Refuse(c, "40P01")

\* A row that was written has a new version, with a line of its own.
Commit(c) == /\ pend[c] # NoWrite
             /\ Install(c)
             /\ held' = [held EXCEPT ![c] = {}]
             /\ first' = [d \in Call |->
                            /\ first[d]
                            /\ \A h \in held[c] : h.mode # "key share" => h.what # want[d].what]
             /\ UNCHANGED <<stmt, want, answer>>

Next == \E c \in Call : Proceed(c) \/ Detect(c) \/ Commit(c)

Spec == Init /\ [][Next]_vars

\* The database works on, and its detector runs.
FairSpec == Spec /\ WF_vars(Next)

-------------------------------------------------------------------------------
\* Type correctness; who is not executing stands in no line, and if it has nothing
\* to commit, it holds no lock.
TypeOK == /\ TablesTypeOK
          /\ stmt \in [Call -> Write]
          /\ \A c \in Call :
                /\ \A h \in held[c] : h.mode \in {"update", "no key update", "key share"}
                /\ answer[c] \in {"none", "ok", "no rows", "23505", "40P01",
                                  "employees_company_id_fkey", "employees_user_id_fkey"}
                /\ first[c] \in BOOLEAN
                /\ ~Executing(c) => want[c] = NoLock /\ ~first[c]
                /\ ~Executing(c) /\ pend[c] = NoWrite => held[c] = {}

\* The statement is as good as atomic: when it has taken its last lock, it need not
\* wait for any executed write, and what the database answers is what it would
\* answer to a statement that takes all its locks at this moment.  So the use
\* cases may be checked with Tables.
Answered(c) ==
    answer'[c] # answer[c] =>
        \/ answer'[c] = "40P01"
        \/ /\ answer'[c] \in Answers(stmt[c])
           /\ answer'[c] = "ok" => ~MustWait(c, stmt[c])

StatementsAreAtomic == [][\A c \in Call : Answered(c)]_vars

\* It takes two to deadlock: two statements of the circle take locks on several
\* rows or entries.  Any statement that waits for a row may pay for it with INTERNAL,
\* the deletion of one employee and the change of a status included, but not a
\* creation of a user or a company, for which nobody waits while it waits.
TakesSeveral(w) == \/ w.kind = "insert" /\ w.table = "employees"
                   \/ w.kind = "update" /\ w.table # "users" /\ (SetsKey(w) \/ SetsUser(w))
                   \/ w.kind = "delete" /\ w.table # "employees"

Circle(c) == {d \in Reached(c) : c \in Reached(d)}

DeadlocksTakeTwo ==
    [][\A c \in Call : answer'[c] # answer[c] /\ answer'[c] = "40P01" =>
          /\ stmt[c].kind = "insert" => stmt[c].table = "employees"
          /\ \E d, e \in Circle(c) : d # e /\ TakesSeveral(stmt[d]) /\ TakesSeveral(stmt[e])]_vars

\* Every statement is answered, also in circles of three and more.
StatementsEnd == <>(\A c \in Call : ~Executing(c))
===============================================================================
