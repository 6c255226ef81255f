--------------------------- MODULE Migrations_proofs ---------------------------
(* Proofs about Migrations: for any processes, employees, addresses and        *)
(* number of runs.                                                             *)
EXTENDS Migrations, TLAPS

Inside(p) == pc[p] \in {"next", "run", "mark", "drop"}

\* The lock excludes: whoever is inside has it, and nobody else does.
LockAtLocation == \A p \in Proc : Inside(p) <=> lock = p

\* What a run is doing, by where it is.
CmdAtLocation ==
    \A p \in Proc : /\ pc[p] = "lock" \/ Inside(p) => cmd[p] \in Command
                    /\ pc[p] \in {"next", "run", "mark"} => cmd[p].action # "drop"
                    /\ pc[p] = "drop" => tangled

\* The version is dirty exactly while a file is under way, and the file exists.
VersionAtLocation ==
    \A p \in Proc : /\ pc[p] = "next" => ~dirty
                    /\ pc[p] \in {"run", "mark"} => dirty /\ Running(p) \in 1..Latest

\* What a running `drop` has not removed is on its list.
DropAtLocation ==
    \A p \in Proc : pc[p] = "drop" =>
        db.schema \cap Table \subseteq todo /\ (versioned => "schema_migrations" \in todo)

\* The version that a running file starts from.
Before(p) == IF cmd[p].action = "up" THEN version - 1 ELSE version + 1

\* While a file runs the database is still where it was before it; as soon as it
\* has run it is where the version says.
SchemaAtLocation ==
    ~tangled => \A p \in Proc : /\ pc[p] = "run" => db.schema = SchemaOf(Before(p))
                                /\ pc[p] = "mark" => db.schema = SchemaOf(version)

\* Columns, constraints and rows of employees are gone with their table.
Rooted(d) == "employees" \notin d.schema => /\ d.schema \cap (Column \cup Constraint) = {}
                                            /\ DOMAIN d.staff = {}

Users(d) == {d.staff[e].user : e \in DOMAIN d.staff}

NotNull(d) == "required" \in d.schema => NoUser \notin Users(d)

NoneLost(d) == Lost \notin Users(d)

\* What every file leaves alone, whenever it runs.
Sound(d) == d \in Database /\ Rooted(d) /\ NotNull(d)

IInv == /\ TypeOK /\ LockAtLocation /\ CmdAtLocation /\ VersionAtLocation /\ DropAtLocation
        /\ SchemaAtLocation /\ VersionNamesSchema /\ DirtyIsExplained
        /\ Sound(db) /\ (~tangled => NoneLost(db))
-------------------------------------------------------------------------------
(* What the files do to a database.                                           *)

LEMMA StaffOf ==
  ASSUME NEW d \in Database
  PROVE  /\ d = [schema |-> d.schema, users |-> d.users, staff |-> d.staff]
         /\ d.schema \subseteq Table \cup Column \cup Constraint /\ d.users \subseteq User
         /\ DOMAIN d.staff \subseteq Employee /\ d.staff \in [DOMAIN d.staff -> Person]
         /\ \A e \in DOMAIN d.staff : /\ d.staff[e].email \in Email \cup {NoEmail}
                                      /\ d.staff[e].user \in User \cup {NoUser, Lost}
  BY DEF Database, Person

\* What it takes to be one.
LEMMA IsDatabase ==
  ASSUME NEW d, d = [schema |-> d.schema, users |-> d.users, staff |-> d.staff],
         d.schema \subseteq Table \cup Column \cup Constraint, d.users \subseteq User,
         DOMAIN d.staff \subseteq Employee, d.staff \in [DOMAIN d.staff -> Person]
  PROVE  d \in Database
  BY DEF Database

\* A file that touches the schema only.
LEMMA SchemaOnly ==
  ASSUME NEW d \in Database, NEW schema \in SUBSET (Table \cup Column \cup Constraint),
         NEW x, x = [d EXCEPT !.schema = schema]
  PROVE  /\ x \in Database /\ x.schema = schema /\ x.users = d.users /\ x.staff = d.staff
         /\ Users(x) = Users(d)
<1>1. x = [schema |-> schema, users |-> d.users, staff |-> d.staff]
  BY StaffOf
<1>2. x.schema = schema /\ x.users = d.users /\ x.staff = d.staff
  BY <1>1
<1>3. x \in Database
  BY <1>1, <1>2, StaffOf, IsDatabase
<1> QED
  BY <1>2, <1>3 DEF Users

\* Adding and removing things touches nothing but the schema.
LEMMA AddOrRemove ==
  ASSUME NEW d \in Database, NEW S \in SUBSET (Table \cup Column \cup Constraint)
  PROVE  /\ Add(d, S) = [d EXCEPT !.schema = d.schema \cup S]
         /\ Add(d, S) \in Database /\ Add(d, S).schema = d.schema \cup S
         /\ Add(d, S).users = d.users /\ Add(d, S).staff = d.staff /\ Users(Add(d, S)) = Users(d)
         /\ Remove(d, S) \in Database /\ Remove(d, S).schema = d.schema \ S
         /\ Remove(d, S).users = d.users /\ Remove(d, S).staff = d.staff /\ Users(Remove(d, S)) = Users(d)
<1>1. Add(d, S) = [d EXCEPT !.schema = d.schema \cup S]
  BY DEF Add, Database
<1>2. Remove(d, S) = [d EXCEPT !.schema = d.schema \ S]
  BY DEF Remove, Database
<1>3. d.schema \cup S \in SUBSET (Table \cup Column \cup Constraint)
  BY StaffOf
<1>4. d.schema \ S \in SUBSET (Table \cup Column \cup Constraint)
  BY StaffOf
<1> QED
  BY <1>1, <1>2, <1>3, <1>4, SchemaOnly

\* Dropping users leaves a sound database, in which the links to them are lost.
LEMMA DropUsersLemma ==
  ASSUME NEW d, Sound(d)
  PROVE  LET x == DropUsers(d)
         IN  /\ Sound(x) /\ x.schema = d.schema \ {"users", "employees_user_id_fkey"}
             /\ DOMAIN d.staff = {} => NoneLost(x)
<1> DEFINE r == Remove(d, {"users", "employees_user_id_fkey"})
           staff == [e \in DOMAIN d.staff |-> IF d.staff[e].user \in User
                                              THEN [d.staff[e] EXCEPT !.user = Lost] ELSE d.staff[e]]
           x == [schema |-> r.schema, users |-> {}, staff |-> staff]
<1>1. /\ r \in Database /\ r.schema = d.schema \ {"users", "employees_user_id_fkey"}
      /\ r.users = d.users /\ r.staff = d.staff
  BY AddOrRemove DEF Sound, Table, Column, Constraint
<1>2. DropUsers(d) = x
  <2>1. r = [schema |-> r.schema, users |-> d.users, staff |-> d.staff]
    BY <1>1, StaffOf
  <2>2. DropUsers(d) = [r EXCEPT !.users = {}, !.staff = staff]
    BY <1>1 DEF DropUsers
  <2> HIDE DEF r, staff
  <2> QED
    BY <2>1, <2>2
<1>3. \A e \in DOMAIN d.staff : staff[e] \in Person /\ (staff[e].user = NoUser => d.staff[e].user = NoUser)
  BY StaffOf, MigrationsAssumption DEF Person, Sound
<1>4. x \in Database
  BY <1>1, <1>3, StaffOf, IsDatabase DEF Sound
<1>5. Rooted(x)
  BY <1>1 DEF Sound, Rooted
<1>6. NotNull(x)
  <2>1. "required" \in x.schema => "required" \in d.schema
    BY <1>1
  <2>2. NoUser \in Users(x) => NoUser \in Users(d)
    BY <1>3 DEF Users
  <2> QED
    BY <2>1, <2>2 DEF Sound, NotNull
<1>7. DOMAIN d.staff = {} => NoneLost(x)
  BY DEF NoneLost, Users
<1> QED
  BY <1>1, <1>2, <1>4, <1>5, <1>6, <1>7 DEF Sound

\* Dropping companies leaves the rest alone.
LEMMA DropCompaniesLemma ==
  ASSUME NEW d, Sound(d)
  PROVE  LET x == DropCompanies(d)
         IN  /\ Sound(x) /\ x.schema = d.schema \ {"companies", "employees_company_id_fkey"}
             /\ Users(x) = Users(d)
<1>1. LET x == DropCompanies(d)
      IN  /\ x \in Database /\ x.schema = d.schema \ {"companies", "employees_company_id_fkey"}
          /\ x.staff = d.staff /\ Users(x) = Users(d)
  BY AddOrRemove DEF Sound, Table, Column, Constraint, DropCompanies
<1> QED
  BY <1>1 DEF Sound, Rooted, NotNull

\* Dropping employees takes their columns, constraints and rows along.
LEMMA DropEmployeesLemma ==
  ASSUME NEW d, Sound(d)
  PROVE  LET x == DropEmployees(d)
         IN  /\ Sound(x) /\ x.schema = d.schema \ ({"employees"} \cup Column \cup Constraint)
             /\ NoneLost(x)
<1> DEFINE r == Remove(d, {"employees"} \cup Column \cup Constraint)
           x == [schema |-> r.schema, users |-> d.users, staff |-> [e \in {} |-> Lost]]
<1>1. r \in Database /\ r.schema = d.schema \ ({"employees"} \cup Column \cup Constraint) /\ r.users = d.users
  BY AddOrRemove DEF Sound, Table
<1>2. DropEmployees(d) = x
  <2>1. r = [schema |-> r.schema, users |-> d.users, staff |-> r.staff]
    BY <1>1, StaffOf
  <2>2. DropEmployees(d) = [r EXCEPT !.staff = [e \in {} |-> Lost]]
    BY DEF DropEmployees
  <2> HIDE DEF r
  <2> QED
    BY <2>1, <2>2
<1>3. DOMAIN x.staff = {} /\ x.staff \in [{} -> Person] /\ Users(x) = {}
  BY DEF Users
<1>4. x \in Database
  BY <1>1, <1>3, StaffOf, IsDatabase DEF Sound
<1>5. Rooted(x) /\ NotNull(x) /\ NoneLost(x)
  BY <1>1, <1>3 DEF Rooted, NotNull, NoneLost
<1>6. x.schema = r.schema
  OBVIOUS
<1> HIDE DEF x, r
<1> QED
  BY <1>1, <1>2, <1>4, <1>5, <1>6 DEF Sound

\* The way back from migration 0004 unlinks everybody.
LEMMA AddUserIdDownLemma ==
  ASSUME NEW d, Sound(d), NEW x \in add_user_id_down(d)
  PROVE  Sound(x) /\ x.schema = d.schema \ {"user", "required", "employees_user_id_fkey"} /\ NoneLost(x)
<1> DEFINE r == Remove(d, {"user", "required", "employees_user_id_fkey"})
           staff == [e \in DOMAIN d.staff |-> [d.staff[e] EXCEPT !.user = NoUser]]
<1>1. /\ r \in Database /\ r.schema = d.schema \ {"user", "required", "employees_user_id_fkey"}
      /\ r.users = d.users /\ r.staff = d.staff
  BY AddOrRemove DEF Sound, Table, Column, Constraint
<1>2. x = [schema |-> r.schema, users |-> d.users, staff |-> staff]
  BY <1>1, StaffOf DEF add_user_id_down
<1>3. \A e \in DOMAIN d.staff : staff[e] \in Person /\ staff[e].user = NoUser
  BY StaffOf DEF Person, Sound
<1>4. x \in Database
  BY <1>1, <1>2, <1>3, StaffOf, IsDatabase DEF Sound
<1>5. Lost \notin Users(x)
  BY <1>2, <1>3, MigrationsAssumption DEF Users
<1> QED
  BY <1>1, <1>2, <1>4, <1>5 DEF Sound, Rooted, NotNull, NoneLost

\* The links that migration 0005 may choose from are users, and lost only if they
\* were before.
LEMMA LinkableLemma ==
  ASSUME NEW d \in Database, NEW e \in DOMAIN d.staff
  PROVE  /\ Backfilled(d) \subseteq User /\ d.users \subseteq Backfilled(d)
         /\ Linkable(d, e) \subseteq User \cup {Lost} /\ Linkable(d, e) # {}
         /\ \A u \in Linkable(d, e) : /\ u = Lost => d.staff[e].user = Lost
                                      /\ u # d.staff[e].user =>
                                            /\ d.staff[e].user = NoUser
                                            /\ \/ u = e /\ d.staff[e].email = NoEmail
                                               \/ /\ u \in Email /\ d.staff[e].email \in Email
                                                  /\ u.text = d.staff[e].email.text
<1>1. Backfilled(d) \subseteq User /\ d.users \subseteq Backfilled(d)
  BY StaffOf DEF Backfilled, User
<1>2. CASE d.staff[e].user # NoUser
  <2>1. Linkable(d, e) = {d.staff[e].user} /\ d.staff[e].user \in User \cup {Lost}
    BY <1>2, StaffOf DEF Linkable
  <2> QED
    BY <1>1, <2>1
<1>3. CASE d.staff[e].user = NoUser /\ d.staff[e].email = NoEmail
  <2>1. e \in Backfilled(d)
    BY <1>3 DEF Backfilled
  <2>2. Linkable(d, e) = {e} /\ e \in User
    BY <1>1, <1>3, <2>1 DEF Linkable
  <2> QED
    BY <1>1, <1>3, <2>2, MigrationsAssumption
<1>4. CASE d.staff[e].user = NoUser /\ d.staff[e].email # NoEmail
  <2>1. d.staff[e].email \in Email
    BY <1>4, StaffOf
  <2>2. d.staff[e].email \in Backfilled(d)
    BY <1>4 DEF Backfilled
  <2>3. Linkable(d, e) = {u \in Backfilled(d) \cap Email : u.text = d.staff[e].email.text}
    BY <1>4 DEF Linkable
  <2> QED
    BY <1>1, <1>4, <2>1, <2>2, <2>3, MigrationsAssumption
<1> QED
  BY <1>2, <1>3, <1>4

\* Migration 0005 links whoever has no user yet, to one that fits, and nobody else.
LEMMA RequireUserIdUpLemma ==
  ASSUME NEW d, Sound(d), NEW x \in require_user_id_up(d)
  PROVE  /\ Sound(x) /\ x.schema = (d.schema \ {"personal"}) \cup {"required"}
         /\ NoneLost(d) => NoneLost(x)
         /\ d.users \subseteq x.users /\ DOMAIN x.staff = DOMAIN d.staff
         /\ \A e \in DOMAIN d.staff : x.staff[e].user \in Linkable(d, e)
<1> DEFINE r == Add(Remove(d, {"personal"}), {"required"})
<1>1. Has(d, {"users", "employees", "personal", "user"})
  BY DEF require_user_id_up
<1>2. /\ r \in Database /\ r.schema = (d.schema \ {"personal"}) \cup {"required"}
      /\ r.users = d.users /\ r.staff = d.staff
  BY AddOrRemove DEF Sound, Table, Column, Constraint
<1>3. PICK link \in [DOMAIN d.staff -> User \cup {Lost}] :
        /\ \A e \in DOMAIN d.staff : link[e] \in Linkable(d, e)
        /\ x = [r EXCEPT !.users = Backfilled(d),
                          !.staff = [e \in DOMAIN r.staff |-> [email |-> NoEmail, user |-> link[e]]]]
  BY <1>1 DEF require_user_id_up
<1> DEFINE staff == [e \in DOMAIN d.staff |-> [email |-> NoEmail, user |-> link[e]]]
<1>4. r = [schema |-> r.schema, users |-> d.users, staff |-> d.staff]
  BY <1>2, StaffOf
<1> HIDE DEF r
<1>5. x = [schema |-> r.schema, users |-> Backfilled(d), staff |-> staff]
  BY <1>2, <1>3, <1>4
<1>6. \A e \in DOMAIN d.staff : staff[e] \in Person /\ staff[e].user # NoUser
  BY <1>3, MigrationsAssumption DEF Person
<1>7. Backfilled(d) \subseteq User /\ d.users \subseteq Backfilled(d)
  BY StaffOf DEF Sound, Backfilled, User
<1>8. x \in Database
  BY <1>2, <1>5, <1>6, <1>7, StaffOf, IsDatabase DEF Sound
<1>9. NotNull(x)
  BY <1>5, <1>6 DEF NotNull, Users
<1>10. Rooted(x)
  BY <1>1, <1>2, <1>5 DEF Rooted, Has
<1>11. /\ DOMAIN x.staff = DOMAIN d.staff
       /\ \A e \in DOMAIN d.staff : x.staff[e].user = link[e] /\ link[e] \in Linkable(d, e)
  <2>1. x.staff = staff
    BY <1>5
  <2>2. \A e \in DOMAIN d.staff : link[e] \in Linkable(d, e)
    BY <1>3
  <2> QED
    BY <2>1, <2>2
<1>12. NoneLost(d) => NoneLost(x)
  <2>1. \A e \in DOMAIN d.staff : x.staff[e].user = Lost => d.staff[e].user = Lost
    BY <1>11, LinkableLemma DEF Sound
  <2> QED
    BY <1>11, <2>1 DEF NoneLost, Users
<1>13. x.schema = r.schema /\ d.users \subseteq x.users
  BY <1>5, <1>7
<1> QED
  BY <1>2, <1>8, <1>9, <1>10, <1>11, <1>12, <1>13 DEF Sound

\* It does not fail for want of a user to link to.
LEMMA RequireUserIdUpRuns ==
  ASSUME NEW d, Sound(d), Has(d, {"users", "employees", "personal", "user"})
  PROVE  require_user_id_up(d) # {}
<1> DEFINE link == [e \in DOMAIN d.staff |-> CHOOSE u \in Linkable(d, e) : TRUE]
<1>1. \A e \in DOMAIN d.staff : link[e] \in Linkable(d, e) /\ Linkable(d, e) \subseteq User \cup {Lost}
  BY LinkableLemma DEF Sound
<1>2. link \in {f \in [DOMAIN d.staff -> User \cup {Lost}] :
                    \A e \in DOMAIN d.staff : f[e] \in Linkable(d, e)}
  BY <1>1
<1> DEFINE links == {f \in [DOMAIN d.staff -> User \cup {Lost}] :
                        \A e \in DOMAIN d.staff : f[e] \in Linkable(d, e)}
           after(f) == [Add(Remove(d, {"personal"}), {"required"}) EXCEPT
                           !.users = Backfilled(d),
                           !.staff = [e \in DOMAIN @ |-> [email |-> NoEmail, user |-> f[e]]]]
<1>3. require_user_id_up(d) = {after(f) : f \in links}
  BY DEF require_user_id_up
<1> HIDE DEF link, links, after
<1> QED
  BY <1>2, <1>3 DEF links

\* The seeds add a user and touch nobody else.
LEMMA SeedUsersUpLemma ==
  ASSUME NEW d, Sound(d), NEW x \in seed_users_up(d)
  PROVE  Sound(x) /\ x.schema = d.schema /\ d.users \subseteq x.users /\ x.staff = d.staff
<1>1. x = [schema |-> d.schema, users |-> d.users \cup {SeedUser}, staff |-> d.staff]
  BY StaffOf DEF seed_users_up, Sound
<1>2. x \in Database
  BY <1>1, StaffOf, IsDatabase DEF Sound, User
<1> QED
  BY <1>1, <1>2 DEF Sound, Rooted, NotNull, Users

\* Taking the seed user away leaves a sound database, with lost links perhaps.
LEMMA SeedUsersDownLemma ==
  ASSUME NEW d, Sound(d), NEW x \in seed_users_down(d)
  PROVE  Sound(x)
<1> DEFINE seeded == {e \in DOMAIN d.staff : d.staff[e].user = SeedUser}
           staff == [e \in DOMAIN d.staff |-> IF e \in seeded THEN [d.staff[e] EXCEPT !.user = Lost]
                                              ELSE d.staff[e]]
<1>1. x = [schema |-> d.schema, users |-> d.users \ {SeedUser}, staff |-> staff]
  BY StaffOf DEF seed_users_down, Sound
<1>2. \A e \in DOMAIN d.staff : staff[e] \in Person /\ (staff[e].user = NoUser => d.staff[e].user = NoUser)
  BY StaffOf, MigrationsAssumption DEF Person, Sound
<1> HIDE DEF staff
<1>3. DOMAIN staff = DOMAIN d.staff
  BY DEF staff
<1>4. staff \in [DOMAIN d.staff -> Person]
  BY <1>2 DEF staff
<1>5. x \in Database
  BY <1>1, <1>3, <1>4, StaffOf, IsDatabase DEF Sound
<1>6. NoUser \in Users(x) => NoUser \in Users(d)
  BY <1>1, <1>2, <1>3 DEF Users
<1> QED
  BY <1>1, <1>3, <1>5, <1>6 DEF Sound, Rooted, NotNull

\* Which file a command runs.
LEMMA WhichFile ==
  ASSUME NEW c \in Command, c.action # "drop", NEW v \in 1..Latest, NEW d
  PROVE  /\ c.action \in {"up", "down"} /\ c.dir \in {"migrations", "seeds"}
         /\ c.dir = "seeds" => File(c, v, d) = IF v # 1 THEN {d}
                                              ELSE IF c.action = "up" THEN seed_users_up(d)
                                              ELSE seed_users_down(d)
         /\ c.dir = "migrations" /\ c.action = "up" =>
               /\ v = 1 => File(c, v, d) = create_users_up(d)
               /\ v = 2 => File(c, v, d) = create_companies_up(d)
               /\ v = 3 => File(c, v, d) = create_employees_up(d)
               /\ v = 4 => File(c, v, d) = add_user_id_up(d)
               /\ v = 5 => File(c, v, d) = require_user_id_up(d)
         /\ c.dir = "migrations" /\ c.action = "down" =>
               /\ v = 1 => File(c, v, d) = create_users_down(d)
               /\ v = 2 => File(c, v, d) = create_companies_down(d)
               /\ v = 3 => File(c, v, d) = create_employees_down(d)
               /\ v = 4 => File(c, v, d) = add_user_id_down(d)
               /\ v = 5 => File(c, v, d) = require_user_id_down(d)
<1>1. c.action \in {"up", "down"} /\ c.dir \in {"migrations", "seeds"}
  BY DEF Command
<1>2. CASE c.dir = "seeds"
  BY <1>1, <1>2 DEF File, Latest
<1>3. CASE c.dir = "migrations" /\ c.action = "up"
  BY <1>3 DEF File, Latest
<1>4. CASE c.dir = "migrations" /\ c.action = "down"
  BY <1>4 DEF File, Latest
<1> QED
  BY <1>1, <1>2, <1>3, <1>4

\* The files that create something, or give the personal columns back.
LEMMA AddLemma ==
  ASSUME NEW d, Sound(d), NEW S \in SUBSET (Table \cup Column \cup Constraint),
         S \cap (Column \cup Constraint) # {} => "employees" \in d.schema \cup S,
         "required" \notin S
  PROVE  Sound(Add(d, S))
  BY AddOrRemove DEF Sound, Rooted, NotNull

\* No file, run whenever, makes a database that its tables do not explain.
LEMMA FilesAreSound ==
  ASSUME NEW d, Sound(d), NEW c \in Command, c.action # "drop", NEW v \in 1..Latest, NEW x \in File(c, v, d)
  PROVE  Sound(x)
<1>1. CASE c.dir = "seeds"
  BY <1>1, WhichFile, SeedUsersUpLemma, SeedUsersDownLemma
<1>2. ASSUME c.dir = "migrations", c.action = "up" PROVE Sound(x)
  <2>1. CASE v = 1
    BY <1>2, <2>1, WhichFile, AddLemma DEF create_users_up, Table, Column, Constraint
  <2>2. CASE v = 2
    BY <1>2, <2>2, WhichFile, AddLemma DEF create_companies_up, Table, Column, Constraint
  <2>3. CASE v = 3
    <3>1. x \in create_employees_up(d)
      BY <1>2, <2>3, WhichFile
    <3>2. x = d \/ x = Add(d, {"employees", "personal", "employees_company_id_fkey"})
      BY <3>1 DEF create_employees_up
    <3> QED
      BY <3>2, AddLemma DEF Table, Column, Constraint
  <2>4. CASE v = 4
    <3>1. x \in add_user_id_up(d)
      BY <1>2, <2>4, WhichFile
    <3>2. "employees" \in d.schema /\ x = Add(d, {"user", "employees_user_id_fkey"})
      BY <3>1 DEF add_user_id_up, Has
    <3> QED
      BY <3>2, AddLemma DEF Table, Column, Constraint
  <2>5. CASE v = 5
    BY <1>2, <2>5, WhichFile, RequireUserIdUpLemma
  <2> QED
    BY <2>1, <2>2, <2>3, <2>4, <2>5 DEF Latest
<1>3. ASSUME c.dir = "migrations", c.action = "down" PROVE Sound(x)
  <2>1. CASE v = 1
    BY <1>3, <2>1, WhichFile, DropUsersLemma DEF create_users_down
  <2>2. CASE v = 2
    BY <1>3, <2>2, WhichFile, DropCompaniesLemma DEF create_companies_down
  <2>3. CASE v = 3
    BY <1>3, <2>3, WhichFile, DropEmployeesLemma DEF create_employees_down
  <2>4. CASE v = 4
    BY <1>3, <2>4, WhichFile, AddUserIdDownLemma
  <2>5. CASE v = 5
    <3>1. x \in require_user_id_down(d)
      BY <1>3, <2>5, WhichFile
    <3>2. "employees" \in d.schema /\ x = Add(Remove(d, {"required"}), {"personal"})
      BY <3>1 DEF require_user_id_down, Has
    <3>3. Sound(Remove(d, {"required"})) /\ "employees" \in Remove(d, {"required"}).schema
      BY <3>2, AddOrRemove DEF Sound, Rooted, NotNull, Column
    <3> QED
      BY <3>2, <3>3, AddLemma DEF Table, Column, Constraint
  <2> QED
    BY <2>1, <2>2, <2>3, <2>4, <2>5 DEF Latest
<1> QED
  BY <1>1, <1>2, <1>3, WhichFile

Prior(c, v) == IF c.action = "up" THEN v - 1 ELSE v
Reached(c, v) == IF c.action = "up" THEN v ELSE v - 1

\* From the schema that it is written for, no migration fails, whatever the rows
\* are, and each leads to the schema of its version.
LEMMA MigrationsMove ==
  ASSUME NEW d, Sound(d), NoneLost(d), NEW c \in Command, c.action # "drop", c.dir = "migrations",
         NEW v \in 1..Latest, d.schema = SchemaOf(Prior(c, v))
  PROVE  /\ File(c, v, d) # {}
         /\ \A x \in File(c, v, d) : x.schema = SchemaOf(Reached(c, v)) /\ NoneLost(x)
<1> USE DEF Table, Column, Constraint, Prior, Reached
<1>0. d \in Database /\ \A S \in SUBSET (Table \cup Column \cup Constraint) : NoneLost(Add(d, S))
  BY AddOrRemove DEF Sound, NoneLost
<1>1. ASSUME c.action = "up"
      PROVE  /\ File(c, v, d) # {}
             /\ \A x \in File(c, v, d) : x.schema = SchemaOf(v) /\ NoneLost(x)
  <2>1. CASE v = 1
    BY <1>0, <1>1, <2>1, WhichFile, AddOrRemove DEF create_users_up, SchemaOf
  <2>2. CASE v = 2
    BY <1>0, <1>1, <2>2, WhichFile, AddOrRemove DEF create_companies_up, SchemaOf
  <2>3. CASE v = 3
    <3>1. File(c, v, d) = {Add(d, {"employees", "personal", "employees_company_id_fkey"})}
      BY <1>1, <2>3, WhichFile DEF create_employees_up, SchemaOf, Has
    <3> QED
      BY <1>0, <1>1, <2>3, <3>1, AddOrRemove DEF SchemaOf
  <2>4. CASE v = 4
    <3>1. File(c, v, d) = {Add(d, {"user", "employees_user_id_fkey"})}
      BY <1>1, <2>4, WhichFile DEF add_user_id_up, SchemaOf, Has, NoneLost, Users
    <3> QED
      BY <1>0, <1>1, <2>4, <3>1, AddOrRemove DEF SchemaOf
  <2>5. CASE v = 5
    <3>1. File(c, v, d) = require_user_id_up(d) /\ Has(d, {"users", "employees", "personal", "user"})
      BY <1>1, <2>5, WhichFile DEF SchemaOf, Has
    <3>2. \A x \in File(c, v, d) :
             x.schema = (d.schema \ {"personal"}) \cup {"required"} /\ NoneLost(x)
      BY <3>1, RequireUserIdUpLemma
    <3>3. (d.schema \ {"personal"}) \cup {"required"} = SchemaOf(5)
      BY <1>1, <2>5 DEF SchemaOf
    <3> QED
      BY <2>5, <3>1, <3>2, <3>3, RequireUserIdUpRuns
  <2> QED
    BY <2>1, <2>2, <2>3, <2>4, <2>5 DEF Latest
<1>2. ASSUME c.action = "down"
      PROVE  /\ File(c, v, d) # {}
             /\ \A x \in File(c, v, d) : x.schema = SchemaOf(v - 1) /\ NoneLost(x)
  <2>1. CASE v = 1
    <3>1. File(c, v, d) = {DropUsers(d)} /\ "employees" \notin d.schema
      BY <1>2, <2>1, WhichFile DEF create_users_down, SchemaOf, Has
    <3>2. DOMAIN d.staff = {}
      BY <3>1 DEF Sound, Rooted
    <3>3. d.schema \ {"users", "employees_user_id_fkey"} = SchemaOf(v - 1)
      BY <1>2, <2>1 DEF SchemaOf
    <3> QED
      BY <2>1, <3>1, <3>2, <3>3, DropUsersLemma
  <2>2. CASE v = 2
    <3>1. File(c, v, d) = {DropCompanies(d)}
      BY <1>2, <2>2, WhichFile DEF create_companies_down, SchemaOf, Has
    <3>2. d.schema \ {"companies", "employees_company_id_fkey"} = SchemaOf(v - 1)
      BY <1>2, <2>2 DEF SchemaOf
    <3> QED
      BY <2>2, <3>1, <3>2, DropCompaniesLemma DEF NoneLost
  <2>3. CASE v = 3
    <3>1. File(c, v, d) = {DropEmployees(d)}
      BY <1>2, <2>3, WhichFile DEF create_employees_down
    <3>2. d.schema \ ({"employees"} \cup Column \cup Constraint) = SchemaOf(v - 1)
      BY <1>2, <2>3 DEF SchemaOf
    <3> QED
      BY <2>3, <3>1, <3>2, DropEmployeesLemma
  <2>4. CASE v = 4
    <3>0. Has(d, {"employees"})
      BY <1>2, <2>4 DEF SchemaOf, Has
    <3>1. File(c, v, d) = add_user_id_down(d) /\ File(c, v, d) # {}
      BY <1>2, <2>4, <3>0, WhichFile DEF add_user_id_down
    <3>2. d.schema \ {"user", "required", "employees_user_id_fkey"} = SchemaOf(v - 1)
      BY <1>2, <2>4 DEF SchemaOf
    <3> QED
      BY <2>4, <3>1, <3>2, AddUserIdDownLemma
  <2>5. CASE v = 5
    <3>1. File(c, v, d) = {Add(Remove(d, {"required"}), {"personal"})}
      BY <1>2, <2>5, WhichFile DEF require_user_id_down, SchemaOf, Has
    <3>2. LET x == Add(Remove(d, {"required"}), {"personal"})
          IN  x.schema = (d.schema \ {"required"}) \cup {"personal"} /\ Users(x) = Users(d)
      BY <1>0, AddOrRemove
    <3>3. (d.schema \ {"required"}) \cup {"personal"} = SchemaOf(v - 1)
      BY <1>2, <2>5 DEF SchemaOf
    <3> QED
      BY <2>5, <3>1, <3>2, <3>3 DEF NoneLost
  <2> QED
    BY <2>1, <2>2, <2>3, <2>4, <2>5 DEF Latest
<1>3. c.action \in {"up", "down"}
  BY WhichFile
<1> QED
  BY <1>1, <1>2, <1>3

\* No upward file, of either directory, loses a user or an employee, or links one
\* to somebody else.
LEMMA UpKeepsRows ==
  ASSUME NEW d, Sound(d), NEW c \in Command, c.action = "up", NEW v \in 1..Latest, NEW x \in File(c, v, d)
  PROVE  /\ d.users \subseteq x.users /\ DOMAIN x.staff = DOMAIN d.staff
         /\ \A e \in DOMAIN d.staff : x.staff[e].user = d.staff[e].user \/ x.staff[e].user \in Linkable(d, e)
<1>0. d \in Database /\ \A S \in SUBSET (Table \cup Column \cup Constraint) :
                            Add(d, S).users = d.users /\ Add(d, S).staff = d.staff
  BY AddOrRemove DEF Sound
<1> USE DEF Table, Column, Constraint
<1>1. CASE c.dir = "seeds"
  BY <1>1, WhichFile, SeedUsersUpLemma
<1>2. CASE c.dir = "migrations" /\ v = 1
  BY <1>0, <1>2, WhichFile DEF create_users_up
<1>3. CASE c.dir = "migrations" /\ v = 2
  BY <1>0, <1>3, WhichFile DEF create_companies_up
<1>4. CASE c.dir = "migrations" /\ v = 3
  <2>1. x = d \/ x = Add(d, {"employees", "personal", "employees_company_id_fkey"})
    BY <1>4, WhichFile DEF create_employees_up
  <2> QED
    BY <1>0, <2>1
<1>5. CASE c.dir = "migrations" /\ v = 4
  <2>1. x = Add(d, {"user", "employees_user_id_fkey"})
    BY <1>5, WhichFile DEF add_user_id_up
  <2> QED
    BY <1>0, <2>1
<1>6. CASE c.dir = "migrations" /\ v = 5
  BY <1>6, WhichFile, RequireUserIdUpLemma
<1> QED
  BY <1>1, <1>2, <1>3, <1>4, <1>5, <1>6, WhichFile DEF Latest
-------------------------------------------------------------------------------
(* The inductive invariant.                                                   *)

LEMMA InitIInv == Init => IInv
<1> SUFFICES ASSUME Init PROVE IInv
  OBVIOUS
<1>1. PICK v \in Version : version = v /\ db \in Contents(v) /\ ContentsOK(v, db)
  BY DEF Init
<1>2. /\ db = [schema |-> db.schema, users |-> db.users, staff |-> db.staff]
      /\ db.schema = SchemaOf(v) /\ db.users \subseteq User
      /\ DOMAIN db.staff \subseteq Employee /\ db.staff \in [DOMAIN db.staff -> Person]
      /\ v < 3 => DOMAIN db.staff = {}
  BY <1>1 DEF Contents, Lowered, User, Version, Latest
<1>3. db \in Database
  <2>1. db.schema \subseteq Table \cup Column \cup Constraint
    BY <1>2 DEF SchemaOf, Table, Column, Constraint, Version, Latest
  <2> QED
    BY <1>2, <2>1, IsDatabase
<1>4. Rooted(db)
  BY <1>2 DEF Rooted, SchemaOf, Table, Column, Constraint, Version, Latest
<1>5. NotNull(db) /\ NoneLost(db)
  <2>1. \A e \in DOMAIN db.staff : db.staff[e].user # Lost /\ (v = 5 => db.staff[e].user # NoUser)
    BY <1>1, <1>2, MigrationsAssumption DEF ContentsOK
  <2>2. v # 5 => "required" \notin db.schema
    BY <1>2 DEF SchemaOf, Table, Constraint, Version, Latest
  <2> QED
    BY <2>1, <2>2 DEF NotNull, NoneLost, Users
<1>6. TypeOK
  <2>1. versioned \in BOOLEAN /\ (~versioned => version = 0 /\ ~dirty)
    BY DEF Init
  <2>2. runs \in 0..MaxRun
    BY MigrationsAssumption DEF Init
  <2> QED
    BY <1>1, <1>3, <2>1, <2>2 DEF Init, TypeOK
<1>7. LockAtLocation /\ CmdAtLocation /\ VersionAtLocation /\ DropAtLocation /\ SchemaAtLocation
  BY MigrationsAssumption DEF Init, LockAtLocation, Inside, CmdAtLocation, VersionAtLocation, DropAtLocation,
     SchemaAtLocation
<1>8. VersionNamesSchema /\ DirtyIsExplained
  BY <1>1, <1>2 DEF Init, VersionNamesSchema, DirtyIsExplained
<1> QED
  BY <1>3, <1>4, <1>5, <1>6, <1>7, <1>8 DEF IInv, Sound

\* What the file that a run has marked does to the database, if it gets to.
LEMMA RunningFile ==
  ASSUME IInv, NEW p \in Proc, pc[p] = "run"
  PROVE  LET files == File(cmd[p], Running(p), db)
         IN  /\ \A x \in files : Sound(x)
             /\ ~tangled /\ cmd[p].dir # "seeds" =>
                   files # {} /\ \A x \in files : x.schema = SchemaOf(version) /\ NoneLost(x)
<1> DEFINE c == cmd[p]
           v == Running(p)
<1>1. c \in Command /\ c.action # "drop" /\ v \in 1..Latest /\ Sound(db) /\ version \in Int
  BY DEF IInv, CmdAtLocation, Inside, VersionAtLocation, TypeOK, Version, Latest
<1>2. \A x \in File(c, v, db) : Sound(x)
  BY <1>1, FilesAreSound
<1>3. ASSUME ~tangled, c.dir # "seeds"
      PROVE  File(c, v, db) # {} /\ \A x \in File(c, v, db) : x.schema = SchemaOf(version) /\ NoneLost(x)
  <2>1. c.dir = "migrations" /\ NoneLost(db)
    BY <1>1, <1>3 DEF IInv, Command
  <2>2. Prior(c, v) = Before(p) /\ Reached(c, v) = version
    BY <1>1 DEF Prior, Reached, Before, Running
  <2>3. db.schema = SchemaOf(Prior(c, v))
    BY <1>3, <2>2 DEF IInv, SchemaAtLocation
  <2> QED
    BY <1>1, <2>1, <2>2, <2>3, MigrationsMove
<1> QED
  BY <1>2, <1>3

\* Each action preserves the invariant: one step per action.
LEMMA NextIInv == IInv /\ [Next]_vars => IInv'
<1> SUFFICES ASSUME IInv, [Next]_vars PROVE IInv'
  OBVIOUS
<1> USE MigrationsAssumption DEF IInv, TypeOK, LockAtLocation, CmdAtLocation, VersionAtLocation, DropAtLocation,
        SchemaAtLocation, VersionNamesSchema, DirtyIsExplained, Inside, Goto, End, Release, Running, Before
<1>1. ASSUME NEW p \in Proc, Start(p) PROVE IInv'
  BY <1>1 DEF Start
<1>2. ASSUME NEW p \in Proc, Open(p) PROVE IInv'
  BY <1>2 DEF Open
<1>3. ASSUME NEW p \in Proc, OpenFails(p) PROVE IInv'
  BY <1>3 DEF OpenFails
<1>4. ASSUME NEW p \in Proc, Lock(p) PROVE IInv'
  <2>1. lock = Nobody /\ UNCHANGED <<db, version, dirty, versioned, runs, cut>>
    BY <1>4 DEF Lock
  <2>2. CASE cmd[p].action = "drop"
    <3>1. /\ lock' = p /\ pc' = [pc EXCEPT ![p] = "drop"] /\ tangled' = TRUE /\ UNCHANGED cmd
          /\ db.schema \cap Table \subseteq todo' /\ (versioned => "schema_migrations" \in todo')
          /\ todo' \subseteq Table \cup {"schema_migrations"}
      BY <1>4, <2>2 DEF Lock, DroppedTables
    <3> QED
      BY <1>4, <2>1, <3>1 DEF Lock
  <2>3. CASE cmd[p].action # "drop" /\ dirty
    BY <1>4, <2>1, <2>3 DEF Lock
  <2>4. CASE cmd[p].action # "drop" /\ ~dirty
    BY <1>4, <2>1, <2>4 DEF Lock
  <2> QED
    BY <2>2, <2>3, <2>4
<1>5. ASSUME NEW p \in Proc, LockTimeout(p) PROVE IInv'
  BY <1>5 DEF LockTimeout
<1>6. ASSUME NEW p \in Proc, Finish(p) PROVE IInv'
  BY <1>6 DEF Finish
<1>7. ASSUME NEW p \in Proc, Mark(p) PROVE IInv'
  BY <1>7 DEF Mark, Target, Version
<1>8. ASSUME NEW p \in Proc, MarkFails(p) PROVE IInv'
  BY <1>8 DEF MarkFails
<1>9. ASSUME NEW p \in Proc, RunFile(p) PROVE IInv'
  BY <1>9, RunningFile DEF RunFile, TangledBy, Sound
<1>10. ASSUME NEW p \in Proc, FileFails(p) PROVE IInv'
  BY <1>10, RunningFile DEF FileFails, TangledBy
<1>11. ASSUME NEW p \in Proc, Clean(p) PROVE IInv'
  BY <1>11 DEF Clean
<1>12. ASSUME NEW p \in Proc, DropTable(p) PROVE IInv'
  <2>1. pc[p] = "drop" /\ tangled /\ UNCHANGED <<lock, pc, cmd, runs, tangled, cut>>
    BY <1>12 DEF DropTable
  <2>2. \A q \in Proc : q # p => ~Inside(q)
    BY <2>1
  <2>3. PICK t \in todo : todo' = todo \ {t}
    BY <1>12 DEF DropTable
  <2>4. CASE t = "schema_migrations"
    <3>1. UNCHANGED db /\ version' = 0 /\ dirty' = FALSE /\ versioned' = FALSE
      BY <1>12, <2>3, <2>4 DEF DropTable
    <3>2. version' \in Version /\ todo' \subseteq Table \cup {"schema_migrations"}
      BY <2>3, <3>1 DEF Version, Latest
    <3>3. db.schema \cap Table \subseteq todo'
      <4>1. db.schema \cap Table \subseteq todo
        BY <2>1
      <4> QED
        BY <2>3, <2>4, <4>1 DEF Table
    <3>4. TypeOK' /\ LockAtLocation' /\ CmdAtLocation' /\ VersionAtLocation'
      BY <2>1, <2>2, <3>1, <3>2
    <3>5. DropAtLocation' /\ SchemaAtLocation' /\ VersionNamesSchema' /\ DirtyIsExplained'
      BY <2>1, <2>2, <3>1, <3>3
    <3>6. Sound(db)' /\ tangled'
      BY <2>1, <3>1 DEF Sound
    <3> QED
      BY <3>4, <3>5, <3>6
  <2>5. CASE t # "schema_migrations"
    <3>1. UNCHANGED <<version, dirty, versioned>>
      BY <1>12, <2>3, <2>5 DEF DropTable
    <3>2. t \in {"users", "companies", "employees"}
      BY <2>5 DEF Table
    <3>3. Sound(db') /\ db'.schema \cap Table \subseteq (db.schema \cap Table) \ {t}
      <4>1. CASE t = "users"
        <5>1. db' = DropUsers(db)
          BY <1>12, <2>3, <4>1 DEF DropTable
        <5> QED
          BY <4>1, <5>1, DropUsersLemma DEF Table
      <4>2. CASE t = "companies"
        <5>1. db' = DropCompanies(db)
          BY <1>12, <2>3, <4>2 DEF DropTable
        <5> QED
          BY <4>2, <5>1, DropCompaniesLemma DEF Table
      <4>3. CASE t = "employees"
        <5>1. db' = DropEmployees(db)
          BY <1>12, <2>3, <4>3 DEF DropTable
        <5> QED
          BY <4>3, <5>1, DropEmployeesLemma DEF Table
      <4> QED
        BY <3>2, <4>1, <4>2, <4>3
    <3>4. db.schema \cap Table \subseteq todo /\ (versioned => "schema_migrations" \in todo)
      BY <2>1
    <3>5. db'.schema \cap Table \subseteq todo' /\ (versioned' => "schema_migrations" \in todo')
      BY <2>3, <2>5, <3>1, <3>3, <3>4
    <3>6. Sound(db)' /\ db' \in Database
      BY <3>3 DEF Sound
    <3>7. todo' \subseteq Table \cup {"schema_migrations"}
      BY <2>3
    <3> QED
      BY <2>1, <2>2, <3>1, <3>5, <3>6, <3>7
  <2> QED
    BY <2>4, <2>5
<1>13. ASSUME NEW p \in Proc, Dropped(p) PROVE IInv'
  <2>1. /\ lock = p /\ lock' = Nobody /\ tangled' = FALSE /\ cut' = FALSE
        /\ pc' = [pc EXCEPT ![p] = "idle"] /\ cmd' = [cmd EXCEPT ![p] = NoCommand]
        /\ UNCHANGED <<db, version, dirty, versioned, todo, runs>>
    BY <1>13 DEF Dropped
  <2>2. ~versioned /\ version = 0 /\ ~dirty
    BY <1>13 DEF Dropped
  <2>3. db.schema = {}
    <3>1. db.schema \cap Table = {}
      BY <1>13 DEF Dropped
    <3> QED
      BY <3>1, StaffOf DEF Sound, Rooted, Table
  <2>4. NoneLost(db)
    BY <2>3 DEF Sound, Rooted, NoneLost, Users
  <2>5. \A q \in Proc : q # p => ~Inside(q)
    BY <2>1
  <2>6. TypeOK' /\ LockAtLocation' /\ CmdAtLocation' /\ VersionAtLocation'
    BY <2>1, <2>2, <2>5
  <2>7. \A q \in Proc : pc'[q] \notin {"next", "run", "mark", "drop"}
    BY <2>1, <2>5
  <2>8. DropAtLocation' /\ SchemaAtLocation' /\ DirtyIsExplained'
    BY <2>1, <2>2, <2>7
  <2>9. VersionNamesSchema'
    BY <2>1, <2>2, <2>3 DEF SchemaOf
  <2>10. Sound(db)' /\ NoneLost(db)'
    BY <2>1, <2>4 DEF Sound, NoneLost, Rooted, NotNull, Users
  <2> QED
    BY <2>6, <2>8, <2>9, <2>10
<1>14. ASSUME NEW p \in Proc, Cut(p) PROVE IInv'
  BY <1>14, RunningFile DEF Cut, TangledBy, Sound
<1>15. CASE UNCHANGED vars
  BY <1>15 DEF vars, tool
<1> QED
  BY <1>1, <1>2, <1>3, <1>4, <1>5, <1>6, <1>7, <1>8, <1>9, <1>10, <1>11, <1>12, <1>13, <1>14, <1>15
     DEF Next, Step
\* What the theorems below rest on: who is inside, what stands between two files,
\* and that every database a file may meet is sound, hold at any time.
THEOREM Inductive == Spec => []IInv
  BY InitIInv, NextIInv, PTL DEF Spec

\* Every variable keeps its type, with the database that any file, run after any
\* others, and any killed run leaves behind.
THEOREM TypeCorrect == Spec => []TypeOK
  BY Inductive, PTL DEF IInv

\* A clean version names its schema, whatever runs overlapped, ended early or were
\* killed, until a seed runs or a `drop` begins.
THEOREM VersionsNameSchemas == Spec => []VersionNamesSchema
  BY Inductive, PTL DEF IInv

\* Only a killed run, a seed or half a `drop` can leave a version dirty: no
\* migration fails for the rows it finds.
THEOREM DirtinessIsExplained == Spec => []DirtyIsExplained
  BY Inductive, PTL DEF IInv

\* Nobody is without a user where one is required, and nobody's user is gone
\* unless a seed or a `drop` took it.
THEOREM EmployeesKeepTheirUsers == Spec => []EmployeesKeepUsers
<1>1. IInv => EmployeesKeepUsers
  BY DEF IInv, Sound, NotNull, NoneLost, Users, EmployeesKeepUsers
<1> QED
  BY <1>1, Inductive, PTL
-------------------------------------------------------------------------------
(* The rows of an upward run.                                                  *)

KeepsAndLinks ==
    /\ db.users \subseteq db'.users
    /\ DOMAIN db'.staff = DOMAIN db.staff
    /\ \A e \in DOMAIN db.staff :
          db'.staff[e].user # db.staff[e].user =>
              db.staff[e].user = NoUser /\ SamePerson(e, db'.staff[e].user)

\* An upward file that takes effect keeps what is there and links as it should.
LEMMA UpwardFile ==
  ASSUME IInv, NEW p \in Proc, pc[p] = "run", cmd[p].action = "up",
         db' \in File(cmd[p], Running(p), db) \cup {db}
  PROVE  KeepsAndLinks
<1>1. CASE db' = db
  BY <1>1 DEF KeepsAndLinks
<1>2. CASE db' \in File(cmd[p], Running(p), db)
  <2>1. cmd[p] \in Command /\ Running(p) \in 1..Latest /\ Sound(db)
    BY DEF IInv, CmdAtLocation, Inside, VersionAtLocation
  <2>2. /\ db.users \subseteq db'.users /\ DOMAIN db'.staff = DOMAIN db.staff
        /\ \A e \in DOMAIN db.staff : \/ db'.staff[e].user = db.staff[e].user
                                      \/ db'.staff[e].user \in Linkable(db, e)
    BY <1>2, <2>1, UpKeepsRows
  <2>3. ASSUME NEW e \in DOMAIN db.staff, db'.staff[e].user # db.staff[e].user
        PROVE  db.staff[e].user = NoUser /\ SamePerson(e, db'.staff[e].user)
    BY <2>1, <2>2, <2>3, LinkableLemma DEF Sound, SamePerson
  <2> QED
    BY <2>2, <2>3 DEF KeepsAndLinks
<1> QED
  BY <1>1, <1>2

\* A run leaves its file by the file taking effect, by its failing, or by being
\* killed; every other step leaves the run where it is.
LEMMA UpwardStep == IInv /\ [Next]_vars => (Upward => KeepsAndLinks)
<1> SUFFICES ASSUME IInv, [Next]_vars, NEW p \in Proc, pc[p] = "run", cmd[p].action = "up", pc'[p] # "run"
             PROVE  KeepsAndLinks
  BY DEF Upward
<1>1. PICK q \in Proc : Start(q) \/ Step(q) \/ OpenFails(q) \/ Cut(q)
  BY DEF Next, vars, tool
<1>2. pc' = [pc EXCEPT ![q] = pc'[q]]
  BY <1>1 DEF IInv, TypeOK, Start, Step, OpenFails, Cut, Open, Lock, LockTimeout, Finish, Mark, MarkFails,
              RunFile, FileFails, Clean, DropTable, Dropped, Goto, End
<1>3. q = p
  BY <1>2 DEF IInv, TypeOK
<1>4. RunFile(p) \/ FileFails(p) \/ Cut(p)
  BY <1>1, <1>3 DEF Start, Step, OpenFails, Open, Lock, LockTimeout, Finish, Mark, MarkFails, Clean,
                    DropTable, Dropped
<1>5. db' \in File(cmd[p], Running(p), db) \cup {db}
  BY <1>4 DEF RunFile, FileFails, Cut
<1> QED
  BY <1>5, UpwardFile

\* `up` loses nobody, and the backfill links only those who had no user, each to
\* one of the same address or to the placeholder, whatever the addresses are.
THEOREM BackfillLinksTheRightUsers == Spec => BackfillIsRight
  BY Inductive, UpwardStep, PTL DEF Spec, BackfillIsRight, KeepsAndLinks
===============================================================================
