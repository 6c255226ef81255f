------------------------------ MODULE Migrations ------------------------------
(* cmd/migrate on one database: golang-migrate applies the files of a directory*)
(* one after the other, each in a transaction of its own, and writes before and*)
(* after each file which version the database is at.  Runs may overlap, be     *)
(* killed between any two statements, and use either of the two directories,   *)
(* assets/migrations and assets/seeds, which number their files alike and share*)
(* the version table.  The database is what the files look at: which tables,   *)
(* columns and constraints exist, who has a user, and the address of each      *)
(* employee while that column exists.                                          *)
EXTENDS Integers, FiniteSets

CONSTANTS Proc,                    \* processes of the tool
          Employee, Text,
          SeedUser,                \* seed-user@example.com
          NoEmail, NoUser,         \* NULL
          Lost,                    \* the id of a user who is gone
          Nobody,                  \* the advisory lock is free
          MaxRun                   \* bound: how often the tool is started

Email == [text : Text, spelling : {"lower", "mixed"}]
\* A user is named by the address: one of Email, the seed, or the placeholder
\* employee-<id>@placeholder.local of an employee.
User == Email \cup Employee \cup {SeedUser}
Person == [email : Email \cup {NoEmail}, user : User \cup {NoUser, Lost}]

ASSUME MigrationsAssumption ==
    /\ Nobody \notin Proc /\ MaxRun \in Nat
    /\ NoEmail \notin Email
    /\ Email \cap Employee = {} /\ SeedUser \notin Email \cup Employee
    /\ {NoUser, Lost} \cap User = {} /\ NoUser # Lost

Table == {"users", "companies", "employees"}
\* "personal" are the columns email, last_name and first_name of employees, "user"
\* is user_id and "required" its NOT NULL; the two constraints refer to the tables.
Column == {"personal", "user", "required"}
Constraint == {"employees_company_id_fkey", "employees_user_id_fkey"}

\* The schema that each version stands for; version 0 is an empty database.
SchemaOf(v) ==
    CASE v = 0 -> {}
      [] v = 1 -> {"users"}
      [] v = 2 -> {"users", "companies"}
      [] v = 3 -> Table \cup {"employees_company_id_fkey", "personal"}
      [] v = 4 -> Table \cup Constraint \cup {"personal", "user"}
      [] v = 5 -> Table \cup Constraint \cup {"user", "required"}

Latest == 5
Version == 0..Latest
Database == [schema : SUBSET (Table \cup Column \cup Constraint), users : SUBSET User,
             staff : UNION {[S -> Person] : S \in SUBSET Employee}]

VARIABLES db, version, dirty,      \* committed; the last two are in schema_migrations
          versioned,               \* schema_migrations exists
          lock,                    \* holder of the advisory lock
          pc, cmd,                 \* of each process
          todo,                    \* tables a running `drop` has left to remove
          runs,                    \* how often the tool has been started
          tangled,                 \* a seed has run, or a `drop` begun, since the last whole `drop`
          cut                      \* a run was killed inside a file since then

tool == <<lock, pc, cmd, todo, runs>>
vars == <<db, version, dirty, versioned, tool, tangled, cut>>

\* `version`, and a word that is no action, change nothing once the version table
\* exists; the directory matters to `up` and `down` only.
Command == [action : {"up", "down"}, dir : {"migrations", "seeds"}]
           \cup [action : {"drop"}, dir : {"migrations"}]
NoCommand == [action |-> "none"]

TypeOK == /\ db \in Database
          /\ version \in Version /\ dirty \in BOOLEAN /\ versioned \in BOOLEAN
          /\ lock \in Proc \cup {Nobody}
          /\ pc \in [Proc -> {"idle", "open", "lock", "next", "run", "mark", "drop"}]
          /\ cmd \in [Proc -> Command \cup {NoCommand}]
          /\ todo \subseteq Table \cup {"schema_migrations"}
          /\ ~versioned => version = 0 /\ ~dirty
          /\ runs \in 0..MaxRun
          /\ tangled \in BOOLEAN /\ cut \in BOOLEAN

\* Any version, with any contents the application and the files before it may have
\* left there: the application stores the addresses of users in lower case.
Lowered == {m \in Email : m.spelling = "lower"}

Contents(v) ==
    [schema : {SchemaOf(v)},
     users : SUBSET CASE v = 0 -> {}
                      [] v \in 1..4 -> Lowered \cup {SeedUser}
                      [] v = 5 -> Lowered \cup {SeedUser} \cup Employee,
     staff : UNION {[S -> Person] : S \in IF v >= 3 THEN SUBSET Employee ELSE {{}}}]

ContentsOK(v, d) ==
    \A e \in DOMAIN d.staff :
        /\ v = 5 => d.staff[e].email = NoEmail
        /\ IF v = 3 THEN d.staff[e].user = NoUser
           ELSE d.staff[e].user \in d.users \cup (IF v = 4 THEN {NoUser} ELSE {})

Init == /\ \E v \in Version :
              /\ version = v /\ db \in {d \in Contents(v) : ContentsOK(v, d)}
        /\ dirty = FALSE /\ versioned = (version # 0) /\ lock = Nobody
        /\ pc = [p \in Proc |-> "idle"]
        /\ cmd = [p \in Proc |-> NoCommand]
        /\ todo = {} /\ runs = 0 /\ tangled = FALSE /\ cut = FALSE

-------------------------------------------------------------------------------
(* The files.  Each is one transaction: the set of databases it may lead to,   *)
(* empty if a statement of it fails.                                           *)
Has(d, things) == things \subseteq d.schema
Add(d, things) == [d EXCEPT !.schema = @ \cup things]
Remove(d, things) == [d EXCEPT !.schema = @ \ things]

\* The users table goes, and with it whatever its rows were referred to for.
DropUsers(d) ==
    [Remove(d, {"users", "employees_user_id_fkey"}) EXCEPT
        !.users = {},
        !.staff = [e \in DOMAIN @ |-> IF @[e].user \in User THEN [@[e] EXCEPT !.user = Lost]
                                      ELSE @[e]]]

DropCompanies(d) == Remove(d, {"companies", "employees_company_id_fkey"})

DropEmployees(d) ==
    [Remove(d, {"employees"} \cup Column \cup Constraint) EXCEPT !.staff = [e \in {} |-> Lost]]

create_users_up(d) == {Add(d, {"users"})}
create_users_down(d) == IF Has(d, {"employees_user_id_fkey"}) THEN {} ELSE {DropUsers(d)}

create_companies_up(d) == {Add(d, {"companies"})}
create_companies_down(d) == IF Has(d, {"employees_company_id_fkey"}) THEN {} ELSE {DropCompanies(d)}

create_employees_up(d) ==
    IF Has(d, {"employees"}) THEN {d}
    ELSE IF ~Has(d, {"companies"}) THEN {}
    ELSE {Add(d, {"employees", "personal", "employees_company_id_fkey"})}
create_employees_down(d) == {DropEmployees(d)}

\* ADD COLUMN IF NOT EXISTS, but ADD CONSTRAINT: the file cannot run twice.
add_user_id_up(d) ==
    IF /\ Has(d, {"users", "employees"}) /\ ~Has(d, {"employees_user_id_fkey"})
       /\ \A e \in DOMAIN d.staff : d.staff[e].user # Lost
      THEN {Add(d, {"user", "employees_user_id_fkey"})} ELSE {}

\* Mistake: the constraint is left to go with the column, and the column stays.
add_user_id_down_keeps(d) == IF Has(d, {"employees"}) THEN {d} ELSE {}

add_user_id_down(d) ==
    IF ~Has(d, {"employees"}) THEN {}
    ELSE {[Remove(d, {"user", "required", "employees_user_id_fkey"}) EXCEPT
              !.staff = [e \in DOMAIN @ |-> [@[e] EXCEPT !.user = NoUser]]]}

\* Mistake: employees without an address are forgotten.
BackfilledByAddress(d) == d.users \cup ({d.staff[e].email : e \in DOMAIN d.staff} \ {NoEmail})

\* The two INSERTs of migration 0005: a user for every address that no user has in
\* that spelling, and for every employee without one, linked or not.
Backfilled(d) == d.users \cup ({d.staff[e].email : e \in DOMAIN d.staff} \ {NoEmail})
                         \cup {e \in DOMAIN d.staff : d.staff[e].email = NoEmail}

\* Mistake: the UPDATE does not leave out the employees who have a user.
LinkableAgain(d, e) ==
    LET p == d.staff[e] IN
    IF p.email = NoEmail THEN {e} \cap Backfilled(d)
    ELSE {u \in Backfilled(d) \cap Email : u.text = p.email.text}

\* The two UPDATEs: the users whom employee e may be linked to.  LOWER compares the
\* addresses, and the join picks any one that matches.
Linkable(d, e) ==
    LET p == d.staff[e] IN
    IF p.user # NoUser THEN {p.user}
    ELSE IF p.email = NoEmail THEN {e} \cap Backfilled(d)
    ELSE {u \in Backfilled(d) \cap Email : u.text = p.email.text}

\* Mistake: the links are left to a script that runs later.
require_user_id_unlinked(d) ==
    IF ~Has(d, {"users", "employees", "personal", "user"}) THEN {}
    ELSE {[Add(Remove(d, {"personal"}), {"required"}) EXCEPT
              !.users = Backfilled(d),
              !.staff = [e \in DOMAIN @ |-> [@[e] EXCEPT !.email = NoEmail]]]}

\* RAISE and SET NOT NULL: every employee must have been linked.
require_user_id_up(d) ==
    IF ~Has(d, {"users", "employees", "personal", "user"}) THEN {}
    ELSE {[Add(Remove(d, {"personal"}), {"required"}) EXCEPT
              !.users = Backfilled(d),
              !.staff = [e \in DOMAIN @ |-> [email |-> NoEmail, user |-> link[e]]]] :
          link \in {f \in [DOMAIN d.staff -> User \cup {Lost}] :
                       \A e \in DOMAIN d.staff : f[e] \in Linkable(d, e)}}

require_user_id_down(d) == IF Has(d, {"employees", "user"})
                             THEN {Add(Remove(d, {"required"}), {"personal"})} ELSE {}

seed_users_up(d) == IF Has(d, {"users"}) THEN {[d EXCEPT !.users = @ \cup {SeedUser}]} ELSE {}

seed_users_down(d) ==
    LET seeded == {e \in DOMAIN d.staff : d.staff[e].user = SeedUser} IN
    IF ~Has(d, {"users"}) \/ (Has(d, {"employees_user_id_fkey"}) /\ seeded # {}) THEN {}
    ELSE {[d EXCEPT !.users = @ \ {SeedUser},
                    !.staff = [e \in DOMAIN @ |-> IF e \in seeded THEN [@[e] EXCEPT !.user = Lost]
                                                  ELSE @[e]]]}

\* What file number v of a command does; the seeds from 2 on are empty.
File(c, v, d) ==
    CASE c.dir = "seeds" /\ v = 1 -> IF c.action = "up" THEN seed_users_up(d) ELSE seed_users_down(d)
      [] c.dir = "seeds" /\ v > 1 -> {d}
      [] c.dir = "migrations" /\ c.action = "up" ->
            (CASE v = 1 -> create_users_up(d) [] v = 2 -> create_companies_up(d)
               [] v = 3 -> create_employees_up(d) [] v = 4 -> add_user_id_up(d)
               [] v = 5 -> require_user_id_up(d))
      [] c.dir = "migrations" /\ c.action = "down" ->
            (CASE v = 1 -> create_users_down(d) [] v = 2 -> create_companies_down(d)
               [] v = 3 -> create_employees_down(d) [] v = 4 -> add_user_id_down(d)
               [] v = 5 -> require_user_id_down(d))

-------------------------------------------------------------------------------
(* The tool.                                                                   *)
Goto(p, l) == pc' = [pc EXCEPT ![p] = l]

End(p) == Goto(p, "idle") /\ cmd' = [cmd EXCEPT ![p] = NoCommand]

Release(p) == lock' = IF lock = p THEN Nobody ELSE lock

Start(p) == /\ pc[p] = "idle" /\ runs < MaxRun
            /\ runs' = runs + 1
            /\ Goto(p, "open")
            /\ UNCHANGED <<db, version, dirty, versioned, lock, cmd, todo, tangled, cut>>

\* migrate.New waits for the lock, without a limit, to create the version table.
\* From here on it matters which command the process was given.
Open(p) == /\ pc[p] = "open" /\ lock = Nobody
           /\ \E c \in Command : cmd' = [cmd EXCEPT ![p] = c]
           /\ Goto(p, "lock") /\ versioned' = TRUE
           /\ UNCHANGED <<db, version, dirty, lock, todo, runs, tangled, cut>>

\* The configuration, the path, the connection or the command is not good.
OpenFails(p) == /\ pc[p] = "open"
                /\ End(p)
                /\ UNCHANGED <<db, version, dirty, versioned, lock, todo, runs, tangled, cut>>

DroppedTables == (db.schema \cap Table) \cup (IF versioned THEN {"schema_migrations"} ELSE {})

\* Mistake: `up` and `down` do not look at the dirty flag.
LockAnyway(p) == /\ pc[p] = "lock" /\ lock = Nobody
                 /\ lock' = p
                 /\ IF cmd[p].action = "drop"
                      THEN /\ Goto(p, "drop") /\ tangled' = TRUE
                           /\ todo' = DroppedTables
                      ELSE Goto(p, "next") /\ UNCHANGED <<todo, tangled>>
                 /\ UNCHANGED <<db, version, dirty, versioned, cmd, runs, cut>>

\* `up` and `down` refuse a dirty version; `drop` does not ask.
Lock(p) == /\ pc[p] = "lock" /\ lock = Nobody
           /\ IF cmd[p].action = "drop"
                THEN /\ lock' = p /\ Goto(p, "drop") /\ tangled' = TRUE
                     /\ todo' = DroppedTables
                     /\ UNCHANGED cmd
              ELSE /\ IF dirty THEN End(p) /\ UNCHANGED lock
                               ELSE lock' = p /\ Goto(p, "next") /\ UNCHANGED cmd
                   /\ UNCHANGED <<todo, tangled>>
           /\ UNCHANGED <<db, version, dirty, versioned, runs, cut>>

\* ErrLockTimeout after 15 seconds.
LockTimeout(p) == /\ pc[p] = "lock" /\ lock # Nobody
                  /\ End(p)
                  /\ UNCHANGED <<db, version, dirty, versioned, lock, todo, runs, tangled, cut>>

\* The version that the next file leads to.
Target(p) == IF cmd[p].action = "up" THEN version + 1 ELSE version - 1

\* No file is left: ErrNoChange, if there was none at all, is no error either.
Finish(p) == /\ pc[p] = "next"
             /\ Target(p) \notin Version
             /\ Release(p) /\ End(p)
             /\ UNCHANGED <<db, version, dirty, versioned, todo, runs, tangled, cut>>

\* Mistake: no one asks whether there is another file.
MarkAnyway(p) == /\ pc[p] = "next"
                 /\ version' = Target(p) /\ dirty' = TRUE
                 /\ Goto(p, "run")
                 /\ UNCHANGED <<db, versioned, lock, cmd, todo, runs, tangled, cut>>

\* SetVersion(target, dirty), a transaction of its own.
Mark(p) == /\ pc[p] = "next"
           /\ Target(p) \in Version /\ versioned
           /\ version' = Target(p) /\ dirty' = TRUE
           /\ Goto(p, "run")
           /\ UNCHANGED <<db, versioned, lock, cmd, todo, runs, tangled, cut>>

\* A `drop` of another run has taken the version table that New found or made: no
\* table reads like version 0, but there is none to write to.
MarkFails(p) == /\ pc[p] = "next"
                /\ Target(p) \in Version /\ ~versioned
                /\ Release(p) /\ End(p)
                /\ UNCHANGED <<db, version, dirty, versioned, todo, runs, tangled, cut>>

\* The version is already the target's: an upward file has its number.
Running(p) == IF cmd[p].action = "up" THEN version ELSE version + 1

TangledBy(p) == tangled' = (tangled \/ cmd[p].dir = "seeds")

RunFile(p) == /\ pc[p] = "run"
              /\ db' \in File(cmd[p], Running(p), db)
              /\ Goto(p, "mark") /\ TangledBy(p)
              /\ UNCHANGED <<version, dirty, versioned, lock, cmd, todo, runs, cut>>

\* The error is returned as it is, and the version stays dirty.
FileFails(p) == /\ pc[p] = "run"
                /\ File(cmd[p], Running(p), db) = {}
                /\ Release(p) /\ End(p) /\ TangledBy(p)
                /\ UNCHANGED <<db, version, dirty, versioned, todo, runs, cut>>

\* Mistake: the version before the file is written back.
CleanBefore(p) == /\ pc[p] = "mark"
                  /\ dirty' = FALSE
                  /\ version' = IF cmd[p].action = "up" THEN version - 1 ELSE version + 1
                  /\ Goto(p, "next")
                  /\ UNCHANGED <<db, versioned, lock, cmd, todo, runs, tangled, cut>>

\* SetVersion(target, clean).
Clean(p) == /\ pc[p] = "mark"
            /\ dirty' = FALSE
            /\ Goto(p, "next")
            /\ UNCHANGED <<db, version, versioned, lock, cmd, todo, runs, tangled, cut>>

\* `drop` removes table by table, each in a transaction of its own, in no order,
\* the version table among them.
DropTable(p) ==
    /\ pc[p] = "drop"
    /\ \E t \in todo :
          /\ todo' = todo \ {t}
          /\ CASE t = "users" -> db' = DropUsers(db)
               [] t = "companies" -> db' = DropCompanies(db)
               [] t = "employees" -> db' = DropEmployees(db)
               [] t = "schema_migrations" -> UNCHANGED db
          /\ IF t = "schema_migrations"
               THEN version' = 0 /\ dirty' = FALSE /\ versioned' = FALSE
               ELSE UNCHANGED <<version, dirty, versioned>>
    /\ UNCHANGED <<lock, pc, cmd, runs, tangled, cut>>

Dropped(p) == /\ pc[p] = "drop" /\ todo = {}
              /\ Release(p) /\ End(p)
              /\ tangled' = FALSE /\ cut' = FALSE
              /\ UNCHANGED <<db, version, dirty, versioned, todo, runs>>

\* The process is killed, or loses its connection.  A statement that has reached
\* the database is finished there, before the lock is free.
Cut(p) == /\ pc[p] # "idle"
          /\ Release(p) /\ End(p)
          /\ todo' = IF lock = p THEN {} ELSE todo
          /\ IF pc[p] = "run" THEN db' \in File(cmd[p], Running(p), db) \cup {db} /\ TangledBy(p)
                              ELSE UNCHANGED <<db, tangled>>
          /\ cut' = (cut \/ pc[p] \in {"run", "mark"})
          /\ UNCHANGED <<version, dirty, versioned, runs>>

Step(p) == \/ Open(p) \/ Lock(p) \/ LockTimeout(p) \/ Finish(p) \/ Mark(p) \/ MarkFails(p)
           \/ RunFile(p) \/ FileFails(p) \/ Clean(p) \/ DropTable(p) \/ Dropped(p)

Next == \E p \in Proc : Start(p) \/ Step(p) \/ OpenFails(p) \/ Cut(p)

Spec == Init /\ [][Next]_vars

\* A process runs, and PostgreSQL hands the lock to whoever has waited longest.
FairSpec == Spec /\ \A p \in Proc : WF_vars(Step(p)) /\ SF_vars(Open(p))
-------------------------------------------------------------------------------
\* A clean version names the schema that migrations up to it build, in whichever
\* direction it was reached, and however many runs were killed on the way; only a
\* seed, which uses the same version numbers, or a `drop` that did not get to its
\* end breaks that, and a whole `drop` mends it.
VersionNamesSchema == ~dirty /\ ~tangled => db.schema = SchemaOf(version)

\* The migrations themselves never fail, whatever rows they find: a version that
\* a run has left dirty shows that it was killed inside a file, or that seeds or
\* half a `drop` have come between version and schema.
DirtyIsExplained == dirty /\ lock = Nobody => cut \/ tangled

\* The references outlive the migrations: an employee who has a user has one that
\* exists, and all have one as soon as user_id is NOT NULL.
EmployeesKeepUsers ==
    \A e \in DOMAIN db.staff :
        /\ db.staff[e].user = NoUser => "required" \notin db.schema
        /\ db.staff[e].user = Lost => tangled

\* `up` loses no user and no employee, leaves an existing link alone, and
\* backfills a link to a user with the employee's own address, in whatever
\* spelling, or to the employee's placeholder.
SamePerson(e, u) == \/ u = e /\ db.staff[e].email = NoEmail
                    \/ /\ u \in Email /\ db.staff[e].email \in Email
                       /\ u.text = db.staff[e].email.text

Upward == \E p \in Proc : pc[p] = "run" /\ cmd[p].action = "up" /\ pc'[p] # "run"

BackfillIsRight == [][Upward =>
    /\ db.users \subseteq db'.users
    /\ DOMAIN db'.staff = DOMAIN db.staff
    /\ \A e \in DOMAIN db.staff :
          db'.staff[e].user # db.staff[e].user =>
              db.staff[e].user = NoUser /\ SamePerson(e, db'.staff[e].user)]_vars

\* Every run of the tool ends, killed or not, and gives the lock back: nobody waits
\* for ever behind another run.
RunsEnd == \A p \in Proc : pc[p] # "idle" ~> pc[p] = "idle"

\* README.md, seed data: `-dir assets/seeds up` puts the initial data in.
SeedsAreApplied ==
    [][\A p \in Proc : cmd[p] = [action |-> "up", dir |-> "seeds"] /\ Finish(p)
                       => SeedUser \in db.users]_vars
===============================================================================
