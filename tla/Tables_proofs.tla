----------------------------- MODULE Tables_proofs -----------------------------
(* Proofs about Tables: what the committed rows and the uncommitted writes of  *)
(* any number of transactions have in common, and that executing a write,      *)
(* committing it and discarding it keep it so.                                 *)
EXTENDS Tables, TLAPS

\* The references and CHECKs of the schema.
References ==
    \A e \in Live(employees) : /\ employees[e].company \in Live(companies)
                               /\ employees[e].user \in Live(users)
                               /\ PeriodOK(employees[e])

\* The UNIQUE columns, by exact spelling.
UniqueRows ==
    /\ \A u, v \in Live(users) : users[u].email = users[v].email => u = v
    /\ \A k, l \in Live(companies) : companies[k].code = companies[l].code => k = l
    /\ \A e, f \in Live(employees) : /\ employees[e].company = employees[f].company
                                     /\ employees[e].code = employees[f].code
                                     => e = f

\* The keys are stored in lower case.
Lowered ==
    /\ \A u \in Live(users) : users[u].email.spelling = "lower"
    /\ \A k \in Live(companies) : companies[k].code.spelling = "lower"
    /\ \A e \in Live(employees) : employees[e].code.spelling = "lower"

\* An uncommitted write fits the committed rows: it could be committed now.
UserWriteFits(w) ==
    /\ w.kind = "insert" => users[w.id] = Unborn
    /\ w.kind # "insert" => w.id \in Live(users)
    /\ w.kind = "update" => w.row.email = users[w.id].email
    /\ w.kind = "delete" => EmployeesBeing(w.id) = {}
    /\ w.kind # "delete" => /\ w.row.email.spelling = "lower"
                            /\ \A u \in Live(users) : users[u].email = w.row.email => u = w.id

CompanyWriteFits(w) ==
    /\ w.kind = "insert" => companies[w.id] = Unborn
    /\ w.kind # "insert" => w.id \in Live(companies)
    /\ w.kind # "delete" => /\ w.row.code.spelling = "lower"
                            /\ \A k \in Live(companies) : companies[k].code = w.row.code => k = w.id

EmployeeWriteFits(w) ==
    /\ w.kind = "insert" => employees[w.id] = Unborn
    /\ w.kind # "insert" => w.id \in Live(employees)
    /\ w.kind = "update" => w.row.company = employees[w.id].company
    /\ w.kind # "delete" =>
          /\ w.row.code.spelling = "lower"
          /\ w.row.company \in Live(companies) /\ w.row.user \in Live(users) /\ PeriodOK(w.row)
          /\ \A e \in Live(employees) :
                employees[e].company = w.row.company /\ employees[e].code = w.row.code => e = w.id

Fits(w) == /\ w.table = "users" => UserWriteFits(w)
           /\ w.table = "companies" => CompanyWriteFits(w)
           /\ w.table = "employees" => EmployeeWriteFits(w)

\* The company of the row that a write to employees is about.
CompanyOfWrite(w) == IF w.kind = "insert" THEN w.row.company ELSE employees[w.id].company

\* Of two uncommitted writes neither can undo what the other rests on: this is what
\* the locks are for.
Compatible(v, w) ==
    /\ v.table = w.table => v.id # w.id
    /\ v.table = w.table /\ v.kind # "delete" /\ w.kind # "delete" =>
          UniqueKey(v.table, v.row) # UniqueKey(w.table, w.row)
    /\ v.table = "users" /\ v.kind = "delete" /\ w.table = "employees" /\ w.kind # "delete" =>
          w.row.user # v.id
    /\ v.table = "companies" /\ v.kind = "delete" /\ w.table = "employees" =>
          CompanyOfWrite(w) # v.id

Pending(c) == pend[c] # NoWrite

PendingFit == \A c \in Call : Pending(c) => Fits(pend[c])

PendingCompatible ==
    \A c, d \in Call : c # d /\ Pending(c) /\ Pending(d) => Compatible(pend[c], pend[d])

TablesInv == /\ TablesTypeOK /\ References /\ UniqueRows /\ Lowered
             /\ PendingFit /\ PendingCompatible
-------------------------------------------------------------------------------
\* A write has a table, a kind, an id of that table, and a row unless it deletes.
LEMMA WriteType ==
  ASSUME NEW w \in Write
  PROVE  /\ w.table \in {"users", "companies", "employees"} /\ w.kind \in {"insert", "update", "delete"}
         /\ w.kind = "delete" => w.row = Gone
         /\ w.table = "users" => w.id \in UserId /\ (w.kind # "delete" => w.row \in UserRow)
         /\ w.table = "companies" => w.id \in CompanyId /\ (w.kind # "delete" => w.row \in CompanyRow)
         /\ w.table = "employees" => w.id \in EmployeeId /\ (w.kind # "delete" => w.row \in EmployeeRow)
  BY DEF Write

\* The live rows of the three tables.
LEMMA LiveRows ==
  ASSUME TablesTypeOK
  PROVE  /\ Live(users) = {u \in UserId : users[u] \notin NotLive}
         /\ Live(companies) = {k \in CompanyId : companies[k] \notin NotLive}
         /\ Live(employees) = {e \in EmployeeId : employees[e] \notin NotLive}
         /\ \A u \in Live(users) : users[u] \in UserRow
         /\ \A k \in Live(companies) : companies[k] \in CompanyRow
         /\ \A e \in Live(employees) : employees[e] \in EmployeeRow
  BY DEF TablesTypeOK, Live

\* When the database answers "ok", none of its constraints is in the way.
LEMMA OkMeans ==
  ASSUME NEW w \in Write, "ok" \in Answers(w)
  PROVE  /\ Exists(w) /\ BrokenReferences(w) = {}
         /\ w.table = "employees" /\ w.kind # "delete" => PeriodOK(w.row)
         /\ SetsKey(w) => KeyHolders(w) = {}
<1>1. "ok" \notin BrokenReferences(w)
  BY DEF BrokenReferences
<1>2. CASE ~Exists(w)
  BY <1>2 DEF Answers
<1>3. CASE Exists(w) /\ w.table = "employees" /\ w.kind # "delete" /\ ~PeriodOK(w.row)
  BY <1>3 DEF Answers
<1>4. CASE Exists(w) /\ ~(w.table = "employees" /\ w.kind # "delete" /\ ~PeriodOK(w.row))
  <2>1. "ok" \in IF SetsKey(w) /\ KeyHolders(w) # {} THEN {"23505"}
                 ELSE IF BrokenReferences(w) # {} THEN BrokenReferences(w) ELSE {"ok"}
    BY <1>4 DEF Answers
  <2> QED
    BY <1>1, <1>4, <2>1
<1> QED
  BY <1>2, <1>3, <1>4

\* What a statement asks of the committed rows when it is executed: an INSERT gets
\* an id of its own, and an UPDATE leaves alone what no request can change.
Proper(w) ==
    /\ w.kind = "insert" => Rows(w.table)[w.id] = Unborn
    /\ w.table = "users" /\ w.kind = "update" /\ w.id \in Live(users) => w.row.email = users[w.id].email
    /\ w.table = "employees" /\ w.kind = "update" /\ w.id \in Live(employees) =>
          w.row.company = employees[w.id].company
    /\ w.table = "users" /\ w.kind # "delete" => w.row.email.spelling = "lower"
    /\ w.table # "users" /\ w.kind # "delete" => w.row.code.spelling = "lower"

\* An executed write fits.
LEMMA ExecutedFits ==
  ASSUME TablesInv, NEW w \in Write, "ok" \in Answers(w), Proper(w)
  PROVE  Fits(w)
<1>0. /\ TablesTypeOK /\ References /\ UniqueRows
      /\ Exists(w) /\ BrokenReferences(w) = {} /\ (SetsKey(w) => KeyHolders(w) = {})
      /\ w.table = "employees" /\ w.kind # "delete" => PeriodOK(w.row)
  BY OkMeans DEF TablesInv
<1>1. ASSUME w.table = "users" PROVE UserWriteFits(w)
  <2>1. /\ w.kind \in {"insert", "update", "delete"} /\ Rows(w.table) = users
        /\ \A row : UniqueKey(w.table, row) = row.email
    BY <1>1, WriteType DEF Rows, UniqueKey
  <2>2. w.kind # "insert" => w.id \in Live(users)
    BY <1>0, <2>1 DEF Exists
  <2>3. w.kind = "delete" => EmployeesBeing(w.id) = {}
    BY <1>0, <1>1 DEF BrokenReferences
  <2>4. ASSUME w.kind # "delete", NEW u \in Live(users), users[u].email = w.row.email
        PROVE  u = w.id
    <3>1. CASE SetsKey(w)
      BY <1>0, <2>1, <2>4, <3>1 DEF KeyHolders
    <3>2. CASE ~SetsKey(w)
      <4>1. w.kind = "update" /\ w.row.email = users[w.id].email
        BY <2>1, <2>2, <2>4, <3>2 DEF SetsKey
      <4> QED
        BY <1>0, <2>2, <2>4, <4>1 DEF UniqueRows
    <3> QED
      BY <3>1, <3>2
  <2> QED
    BY <1>1, <2>1, <2>2, <2>3, <2>4 DEF UserWriteFits, Proper
<1>2. ASSUME w.table = "companies" PROVE CompanyWriteFits(w)
  <2>1. /\ w.kind \in {"insert", "update", "delete"} /\ Rows(w.table) = companies
        /\ \A row : UniqueKey(w.table, row) = row.code
    BY <1>2, WriteType DEF Rows, UniqueKey
  <2>2. w.kind # "insert" => w.id \in Live(companies)
    BY <1>0, <2>1 DEF Exists
  <2>3. ASSUME w.kind # "delete", NEW k \in Live(companies), companies[k].code = w.row.code
        PROVE  k = w.id
    <3>1. CASE SetsKey(w)
      BY <1>0, <2>1, <2>3, <3>1 DEF KeyHolders
    <3>2. CASE ~SetsKey(w)
      <4>1. w.kind = "update" /\ w.row.code = companies[w.id].code
        BY <2>1, <2>2, <2>3, <3>2 DEF SetsKey
      <4> QED
        BY <1>0, <2>2, <2>3, <4>1 DEF UniqueRows
    <3> QED
      BY <3>1, <3>2
  <2> QED
    BY <1>2, <2>1, <2>2, <2>3 DEF CompanyWriteFits, Proper
<1>3. ASSUME w.table = "employees" PROVE EmployeeWriteFits(w)
  <2>1. /\ w.kind \in {"insert", "update", "delete"} /\ Rows(w.table) = employees
        /\ \A row : UniqueKey(w.table, row) = <<row.company, row.code>>
    BY <1>3, WriteType DEF Rows, UniqueKey
  <2>2. w.kind # "insert" => w.id \in Live(employees)
    BY <1>0, <2>1 DEF Exists
  <2>3. w.kind = "update" => w.row.company = employees[w.id].company
    BY <1>3, <2>2 DEF Proper
  <2>4. ASSUME w.kind # "delete"
        PROVE  w.row.company \in Live(companies) /\ w.row.user \in Live(users)
    <3>1. CASE w.kind = "insert"
      BY <1>0, <1>3, <3>1 DEF BrokenReferences, SetsUser
    <3>2. CASE w.kind = "update"
      <4>1. employees[w.id].company \in Live(companies) /\ employees[w.id].user \in Live(users)
        BY <1>0, <2>2, <3>2 DEF References
      <4>2. CASE SetsUser(w)
        BY <1>0, <2>3, <3>2, <4>1, <4>2 DEF BrokenReferences
      <4>3. CASE ~SetsUser(w)
        BY <1>3, <2>2, <2>3, <3>2, <4>1, <4>3 DEF SetsUser
      <4> QED
        BY <4>2, <4>3
    <3> QED
      BY <2>1, <2>4, <3>1, <3>2
  <2>5. ASSUME w.kind # "delete", NEW e \in Live(employees),
               employees[e].company = w.row.company, employees[e].code = w.row.code
        PROVE  e = w.id
    <3>1. CASE SetsKey(w)
      BY <1>0, <2>1, <2>5, <3>1 DEF KeyHolders
    <3>2. CASE ~SetsKey(w)
      <4>1. w.kind = "update" /\ w.row.company = employees[w.id].company /\ w.row.code = employees[w.id].code
        BY <2>1, <2>2, <2>5, <3>2 DEF SetsKey
      <4> QED
        BY <1>0, <2>2, <2>5, <4>1 DEF UniqueRows
    <3> QED
      BY <3>1, <3>2
  <2> QED
    BY <1>0, <1>3, <2>1, <2>2, <2>3, <2>4, <2>5 DEF EmployeeWriteFits, Proper
<1> QED
  BY <1>1, <1>2, <1>3 DEF Fits

\* An executed write is compatible with those it did not have to wait for.
LEMMA ExecutedCompatible ==
  ASSUME NEW v \in Write, Fits(v), NEW w \in Write, Fits(w), w.kind = "insert" => v.id # w.id,
         ~SameRow(v, w), ~SameKey(v, w), ~Referenced(v, w), ~Referring(v, w)
  PROVE  Compatible(v, w) /\ Compatible(w, v)
<1>1. ASSUME v.table = w.table PROVE v.id # w.id
  <2>1. SUFFICES ASSUME v.id = w.id, w.kind # "insert" PROVE FALSE
    OBVIOUS
  <2>2. v.kind \notin {"update", "delete"}
    BY <1>1, <2>1 DEF SameRow, Removes
  <2>3. v.kind = "insert"
    BY <2>2, WriteType
  <2> QED
    BY <1>1, <2>1, <2>3, WriteType
       DEF Fits, UserWriteFits, CompanyWriteFits, EmployeeWriteFits, Live, NotLive
<1>2. ASSUME v.table = w.table, v.kind # "delete", w.kind # "delete"
      PROVE  UniqueKey(v.table, v.row) # UniqueKey(w.table, w.row)
  <2>1. CASE SetsKey(w)
    BY <1>2, <2>1 DEF SameKey
  <2>2. CASE ~SetsKey(w)
    <3>1. w.kind = "update"
      BY <1>2, <2>2, WriteType DEF SetsKey
    <3>2. CASE w.table = "users"
      BY <1>1, <1>2, <3>1, <3>2 DEF Fits, UserWriteFits, UniqueKey
    <3>3. CASE w.table = "companies"
      <4>1. w.id \in Live(companies) /\ w.row.code = companies[w.id].code
        BY <2>2, <3>1, <3>3 DEF Fits, CompanyWriteFits, UniqueKey, SetsKey, Rows
      <4> QED
        BY <1>1, <1>2, <3>3, <4>1 DEF Fits, CompanyWriteFits, UniqueKey
    <3>4. CASE w.table = "employees"
      <4>1. /\ w.id \in Live(employees)
            /\ <<w.row.company, w.row.code>> = <<employees[w.id].company, employees[w.id].code>>
        BY <2>2, <3>1, <3>4 DEF Fits, EmployeeWriteFits, UniqueKey, SetsKey, Rows
      <4> QED
        BY <1>1, <1>2, <3>4, <4>1 DEF Fits, EmployeeWriteFits, UniqueKey
    <3> QED
      BY <3>2, <3>3, <3>4, WriteType
  <2> QED
    BY <2>1, <2>2
<1>3. ASSUME v.table = "users", v.kind = "delete", w.table = "employees", w.kind # "delete"
      PROVE  w.row.user # v.id
  <2>1. CASE SetsUser(w)
    BY <1>3, <2>1 DEF Referenced, Removes
  <2>2. CASE ~SetsUser(w)
    <3>1. w.kind = "update" /\ w.id \in Live(employees) /\ w.row.user = employees[w.id].user
      BY <1>3, <2>2, WriteType DEF SetsUser, Fits, EmployeeWriteFits
    <3>2. EmployeesBeing(v.id) = {}
      BY <1>3 DEF Fits, UserWriteFits
    <3> QED
      BY <3>1, <3>2 DEF EmployeesBeing
  <2> QED
    BY <2>1, <2>2
<1>4. ASSUME w.table = "users", w.kind = "delete", v.table = "employees", v.kind # "delete"
      PROVE  v.row.user # w.id
  <2>1. CASE SetsUser(v)
    BY <1>4, <2>1 DEF Referring
  <2>2. CASE ~SetsUser(v)
    <3>1. v.kind = "update" /\ v.id \in Live(employees) /\ v.row.user = employees[v.id].user
      BY <1>4, <2>2, WriteType DEF SetsUser, Fits, EmployeeWriteFits
    <3>2. EmployeesBeing(w.id) = {}
      BY <1>4 DEF Fits, UserWriteFits
    <3> QED
      BY <3>1, <3>2 DEF EmployeesBeing
  <2> QED
    BY <2>1, <2>2
<1>5. ASSUME v.table = "companies", v.kind = "delete", w.table = "employees"
      PROVE  CompanyOfWrite(w) # v.id
  <2>1. CASE w.kind = "insert"
    BY <1>5, <2>1 DEF Referenced, CompanyOfWrite
  <2>2. CASE w.kind # "insert"
    BY <1>5, <2>2 DEF SameRow, Removes, EmployeesOf, CompanyOfWrite, Fits, EmployeeWriteFits
  <2> QED
    BY <2>1, <2>2
<1>6. ASSUME w.table = "companies", w.kind = "delete", v.table = "employees"
      PROVE  CompanyOfWrite(v) # w.id
  <2>1. CASE v.kind = "insert"
    BY <1>6, <2>1 DEF Referring, CompanyOfWrite
  <2>2. CASE v.kind # "insert"
    BY <1>6, <2>2 DEF Referring, EmployeesOf, CompanyOfWrite, Fits, EmployeeWriteFits
  <2> QED
    BY <2>1, <2>2
<1> QED
  BY <1>1, <1>2, <1>3, <1>4, <1>5, <1>6 DEF Compatible

\* A transaction that executes its write, having waited for all it must wait for,
\* keeps the invariant.
THEOREM ExecuteKeeps ==
  ASSUME TablesInv, NEW c \in Call, ~Pending(c), NEW w \in Write, Proper(w),
         "ok" \in Answers(w), ~MustWait(c, w),
         w.kind = "insert" => \A d \in Call : Pending(d) => pend[d].id # w.id,
         pend' = [pend EXCEPT ![c] = w], UNCHANGED tables
  PROVE  TablesInv'
<1>1. TablesTypeOK /\ PendingFit /\ PendingCompatible /\ Fits(w)
  BY ExecutedFits DEF TablesInv
<1>2. ASSUME NEW d \in Call, d # c, Pending(d) PROVE Compatible(pend[d], w) /\ Compatible(w, pend[d])
  <2>1. pend[d] \in Write /\ Fits(pend[d])
    BY <1>1, <1>2 DEF TablesTypeOK, PendingFit, Pending
  <2>2. /\ ~SameRow(pend[d], w) /\ ~SameKey(pend[d], w)
        /\ ~Referenced(pend[d], w) /\ ~Referring(pend[d], w)
    BY <1>2 DEF MustWait, Pending
  <2> QED
    BY <1>1, <1>2, <2>1, <2>2, ExecutedCompatible
<1>3. UNCHANGED <<users, companies, employees>>
  BY DEF tables
<1>4. TablesTypeOK' /\ References' /\ UniqueRows' /\ Lowered'
  BY <1>1, <1>3 DEF TablesInv, TablesTypeOK, References, UniqueRows, Lowered, Live
<1>5. \A x : Fits(x) => Fits(x)'
  BY <1>3 DEF Fits, UserWriteFits, CompanyWriteFits, EmployeeWriteFits, EmployeesBeing, Live
<1>6. \A x, y : Compatible(x, y) => Compatible(x, y)'
  BY <1>3 DEF Compatible, CompanyOfWrite
<1>7. pend'[c] = w /\ \A d \in Call : d # c => pend'[d] = pend[d]
  BY <1>1 DEF TablesTypeOK
<1>8. PendingFit'
  BY <1>1, <1>5, <1>7 DEF PendingFit, Pending
<1>9. PendingCompatible'
  BY <1>1, <1>2, <1>6, <1>7 DEF PendingCompatible, Pending
<1> QED
  BY <1>4, <1>8, <1>9 DEF TablesInv

\* So does one that rolls back.
LEMMA DiscardKeeps ==
  ASSUME TablesInv, NEW c \in Call, Discard(c)
  PROVE  TablesInv'
<1>1. UNCHANGED <<users, companies, employees>> /\ pend' = [pend EXCEPT ![c] = NoWrite]
  BY DEF Discard, tables
<1>2. pend'[c] = NoWrite /\ \A d \in Call : d # c => pend'[d] = pend[d]
  BY <1>1 DEF TablesInv, TablesTypeOK
<1>3. TablesTypeOK' /\ References' /\ UniqueRows' /\ Lowered'
  BY <1>1 DEF TablesInv, TablesTypeOK, References, UniqueRows, Lowered, Live
<1>4. PendingFit'
  BY <1>1, <1>2 DEF TablesInv, PendingFit, Pending, Fits, UserWriteFits, CompanyWriteFits,
                    EmployeeWriteFits, EmployeesBeing, Live
<1>5. PendingCompatible'
  BY <1>1, <1>2 DEF TablesInv, PendingCompatible, Pending, Compatible, CompanyOfWrite
<1> QED
  BY <1>3, <1>4, <1>5 DEF TablesInv

\* A step that touches neither rows nor writes keeps it, of course.
LEMMA SameTablesKeep == TablesInv /\ UNCHANGED <<tables, pend>> => TablesInv'
<1> SUFFICES ASSUME TablesInv, UNCHANGED <<tables, pend>> PROVE TablesInv'
  OBVIOUS
<1>1. UNCHANGED <<users, companies, employees, pend>>
  BY DEF tables
<1>2. TablesTypeOK' /\ References' /\ UniqueRows' /\ Lowered'
  BY <1>1 DEF TablesInv, TablesTypeOK, References, UniqueRows, Lowered, Live
<1>3. PendingFit'
  BY <1>1 DEF TablesInv, PendingFit, Pending, Fits, UserWriteFits, CompanyWriteFits,
              EmployeeWriteFits, EmployeesBeing, Live
<1>4. PendingCompatible'
  BY <1>1 DEF TablesInv, PendingCompatible, Pending, Compatible, CompanyOfWrite
<1> QED
  BY <1>2, <1>3, <1>4 DEF TablesInv
-------------------------------------------------------------------------------
(* COMMIT.                                                                     *)

\* What becomes of each row.
LEMMA InstallRows ==
  ASSUME TablesTypeOK, NEW c \in Call, Install(c)
  PROVE  LET w == pend[c]
         IN  /\ users' \in [UserId -> UserRow \cup NotLive]
             /\ companies' \in [CompanyId -> CompanyRow \cup NotLive]
             /\ employees' \in [EmployeeId -> EmployeeRow \cup NotLive]
             /\ \A u \in UserId : users'[u] =
                    IF Pending(c) /\ w.table = "users" /\ w.id = u THEN w.row ELSE users[u]
             /\ \A k \in CompanyId : companies'[k] =
                    IF Pending(c) /\ w.table = "companies" /\ w.id = k THEN w.row ELSE companies[k]
             /\ \A e \in EmployeeId : employees'[e] =
                    IF Pending(c) /\ w.table = "companies" /\ w.kind = "delete" /\ e \in EmployeesOf(w.id)
                      THEN Gone
                    ELSE IF Pending(c) /\ w.table = "employees" /\ w.id = e THEN w.row ELSE employees[e]
             /\ pend' \in [Call -> Write \cup {NoWrite}]
             /\ pend'[c] = NoWrite /\ \A d \in Call : d # c => pend'[d] = pend[d]
<1> DEFINE w == pend[c]
           Put(t, rows) == [i \in DOMAIN rows |->
                               IF w # NoWrite /\ w.kind = "delete" /\ Removes(w, t, i) THEN Gone
                               ELSE IF w # NoWrite /\ w.table = t /\ w.id = i THEN w.row
                               ELSE rows[i]]
<1>1. /\ users' = Put("users", users) /\ companies' = Put("companies", companies)
      /\ employees' = Put("employees", employees) /\ pend' = [pend EXCEPT ![c] = NoWrite]
  BY DEF Install
<1>2. /\ users \in [UserId -> UserRow \cup NotLive] /\ companies \in [CompanyId -> CompanyRow \cup NotLive]
      /\ employees \in [EmployeeId -> EmployeeRow \cup NotLive] /\ pend \in [Call -> Write \cup {NoWrite}]
  BY DEF TablesTypeOK
<1>3. pend' \in [Call -> Write \cup {NoWrite}] /\ pend'[c] = NoWrite /\ \A d \in Call : d # c => pend'[d] = pend[d]
  BY <1>1, <1>2
<1>4. CASE ~Pending(c)
  BY <1>1, <1>2, <1>3, <1>4 DEF Pending
<1>5. CASE Pending(c)
  <2>1. w \in Write
    BY <1>2, <1>5 DEF Pending
  <2> HIDE DEF w
  <2>2. w # NoWrite
    BY <1>5 DEF w, Pending
  <2>3. ASSUME NEW u \in UserId
        PROVE  /\ users'[u] = IF w.table = "users" /\ w.id = u THEN w.row ELSE users[u]
               /\ users'[u] \in UserRow \cup NotLive
    BY <1>1, <1>2, <2>1, <2>2, <2>3, WriteType DEF Removes, NotLive
  <2>4. ASSUME NEW k \in CompanyId
        PROVE  /\ companies'[k] = IF w.table = "companies" /\ w.id = k THEN w.row ELSE companies[k]
               /\ companies'[k] \in CompanyRow \cup NotLive
    BY <1>1, <1>2, <2>1, <2>2, <2>4, WriteType DEF Removes, NotLive
  <2>5. ASSUME NEW e \in EmployeeId
        PROVE  /\ employees'[e] =
                     IF w.table = "companies" /\ w.kind = "delete" /\ e \in EmployeesOf(w.id) THEN Gone
                     ELSE IF w.table = "employees" /\ w.id = e THEN w.row ELSE employees[e]
               /\ employees'[e] \in EmployeeRow \cup NotLive
    BY <1>1, <1>2, <2>1, <2>2, <2>5, WriteType DEF Removes, NotLive
  <2>6. /\ users' \in [UserId -> UserRow \cup NotLive] /\ companies' \in [CompanyId -> CompanyRow \cup NotLive]
        /\ employees' \in [EmployeeId -> EmployeeRow \cup NotLive]
    <3>1. users' = Put("users", users) /\ DOMAIN users = UserId
      BY <1>1, <1>2
    <3>2. companies' = Put("companies", companies) /\ DOMAIN companies = CompanyId
      BY <1>1, <1>2
    <3>3. employees' = Put("employees", employees) /\ DOMAIN employees = EmployeeId
      BY <1>1, <1>2
    <3>4. users' \in [UserId -> UserRow \cup NotLive]
      BY <2>3, <3>1
    <3>5. companies' \in [CompanyId -> CompanyRow \cup NotLive]
      BY <2>4, <3>2
    <3>6. employees' \in [EmployeeId -> EmployeeRow \cup NotLive]
      BY <2>5, <3>3
    <3> QED
      BY <3>4, <3>5, <3>6
  <2> QED
    BY <1>3, <1>5, <2>3, <2>4, <2>5, <2>6 DEF w
<1> QED
  BY <1>4, <1>5

\* What is known of the write that is committed and of the others.
LEMMA AtCommit ==
  ASSUME TablesInv, NEW c \in Call, Install(c), Pending(c)
  PROVE  LET w == pend[c]
         IN  /\ w \in Write /\ Fits(w)
             /\ \A d \in Call : Pending(d)' => /\ d # c /\ pend'[d] = pend[d] /\ Pending(d) /\ pend[d] \in Write
                                               /\ Fits(pend[d])
                                               /\ Compatible(pend[d], w) /\ Compatible(w, pend[d])
             /\ \A d, x \in Call : d # x /\ Pending(d)' /\ Pending(x)' => Compatible(pend[d], pend[x])
<1>1. pend \in [Call -> Write \cup {NoWrite}] /\ PendingFit /\ PendingCompatible /\ TablesTypeOK
  BY DEF TablesInv, TablesTypeOK
<1>2. pend'[c] = NoWrite /\ \A d \in Call : d # c => pend'[d] = pend[d]
  BY <1>1, InstallRows
<1> QED
  BY <1>1, <1>2 DEF Pending, PendingFit, PendingCompatible

\* COMMIT of a write to users keeps the invariant.
LEMMA UserCommitKeeps ==
  ASSUME TablesInv, NEW c \in Call, Install(c), Pending(c), pend[c].table = "users"
  PROVE  TablesInv'
<1> DEFINE w == pend[c]
<1>0. TablesTypeOK /\ References /\ UniqueRows /\ Lowered
  BY DEF TablesInv
<1>1. /\ w \in Write /\ w.table = "users" /\ w.id \in UserId /\ UserWriteFits(w)
      /\ w.kind \in {"insert", "update", "delete"}
      /\ w.kind = "delete" => w.row = Gone
      /\ w.kind # "delete" => w.row \in UserRow
  BY AtCommit, WriteType DEF Fits
<1>2. /\ users' \in [UserId -> UserRow \cup NotLive]
      /\ \A u \in UserId : users'[u] = IF u = w.id THEN w.row ELSE users[u]
      /\ companies' \in [CompanyId -> CompanyRow \cup NotLive]
      /\ \A k \in CompanyId : companies'[k] = companies[k]
      /\ employees' \in [EmployeeId -> EmployeeRow \cup NotLive]
      /\ \A e \in EmployeeId : employees'[e] = employees[e]
      /\ pend' \in [Call -> Write \cup {NoWrite}]
  BY <1>0, <1>1, InstallRows
<1>3. companies' = companies /\ employees' = employees
  BY <1>0, <1>2 DEF TablesTypeOK
<1>4. /\ Live(users)' = IF w.kind = "delete" THEN Live(users) \ {w.id} ELSE Live(users) \cup {w.id}
      /\ Live(companies)' = Live(companies) /\ Live(employees)' = Live(employees)
  BY <1>0, <1>1, <1>2, <1>3, LiveRows, TablesAssumption DEF Live, NotLive
<1>5. \A u \in Live(users)' : users'[u] = IF u = w.id THEN w.row ELSE users[u]
  BY <1>0, <1>1, <1>2, <1>4, LiveRows
<1> HIDE DEF w
<1>6. TablesTypeOK'
  BY <1>2 DEF TablesTypeOK
<1>7. References'
  BY <1>0, <1>1, <1>3, <1>4 DEF References, UserWriteFits, EmployeesBeing, PeriodOK
<1>8. UniqueRows'
  BY <1>0, <1>1, <1>3, <1>4, <1>5 DEF UniqueRows, UserWriteFits
<1>9. Lowered'
  BY <1>0, <1>1, <1>3, <1>4, <1>5 DEF Lowered, UserWriteFits
<1>10. ASSUME NEW x \in Write, Fits(x), Compatible(x, w), Compatible(w, x) PROVE Fits(x)'
  <2>1. x.table = "users" => UserWriteFits(x)'
    <3>1. SUFFICES ASSUME x.table = "users" PROVE UserWriteFits(x)'
      OBVIOUS
    <3>2. /\ x.id # w.id /\ x.id \in UserId /\ UserWriteFits(x) /\ x.kind \in {"insert", "update", "delete"}
          /\ x.kind # "delete" /\ w.kind # "delete" => x.row.email # w.row.email
      BY <1>1, <1>10, <3>1, WriteType DEF Compatible, Fits, UniqueKey
    <3>3. users'[x.id] = users[x.id]
      BY <1>2, <3>2
    <3>4. EmployeesBeing(x.id)' = EmployeesBeing(x.id)
      BY <1>3, <1>4 DEF EmployeesBeing
    <3> QED
      BY <1>4, <1>5, <3>2, <3>3, <3>4 DEF UserWriteFits
  <2>2. x.table = "companies" => CompanyWriteFits(x)'
    BY <1>3, <1>4, <1>10 DEF Fits, CompanyWriteFits
  <2>3. x.table = "employees" => EmployeeWriteFits(x)'
    BY <1>1, <1>3, <1>4, <1>10 DEF Fits, EmployeeWriteFits, Compatible, PeriodOK
  <2> QED
    BY <2>1, <2>2, <2>3 DEF Fits
<1>11. PendingFit'
  BY <1>10, AtCommit DEF PendingFit, w
<1>12. PendingCompatible'
  <2>1. \A x, y : Compatible(x, y) => Compatible(x, y)'
    BY <1>3 DEF Compatible, CompanyOfWrite
  <2> QED
    BY <2>1, AtCommit DEF PendingCompatible
<1> QED
  BY <1>6, <1>7, <1>8, <1>9, <1>11, <1>12 DEF TablesInv

\* So does that of a write to companies, with its cascade.
LEMMA CompanyCommitKeeps ==
  ASSUME TablesInv, NEW c \in Call, Install(c), Pending(c), pend[c].table = "companies"
  PROVE  TablesInv'
<1> DEFINE w == pend[c]
           Cascade(e) == w.kind = "delete" /\ e \in EmployeesOf(w.id)
<1>0. TablesTypeOK /\ References /\ UniqueRows /\ Lowered
  BY DEF TablesInv
<1>1. /\ w \in Write /\ w.table = "companies" /\ w.id \in CompanyId /\ CompanyWriteFits(w)
      /\ w.kind \in {"insert", "update", "delete"}
      /\ w.kind = "delete" => w.row = Gone
      /\ w.kind # "delete" => w.row \in CompanyRow
  BY AtCommit, WriteType DEF Fits
<1>2. /\ users' \in [UserId -> UserRow \cup NotLive]
      /\ \A u \in UserId : users'[u] = users[u]
      /\ companies' \in [CompanyId -> CompanyRow \cup NotLive]
      /\ \A k \in CompanyId : companies'[k] = IF k = w.id THEN w.row ELSE companies[k]
      /\ employees' \in [EmployeeId -> EmployeeRow \cup NotLive]
      /\ \A e \in EmployeeId : employees'[e] = IF Cascade(e) THEN Gone ELSE employees[e]
      /\ pend' \in [Call -> Write \cup {NoWrite}]
  BY <1>0, <1>1, InstallRows
<1>3. users' = users
  BY <1>0, <1>2 DEF TablesTypeOK
<1>4. /\ Live(companies)' = IF w.kind = "delete" THEN Live(companies) \ {w.id} ELSE Live(companies) \cup {w.id}
      /\ Live(users)' = Live(users) /\ Live(employees)' = {e \in Live(employees) : ~Cascade(e)}
  BY <1>0, <1>1, <1>2, <1>3, LiveRows, TablesAssumption DEF Live, NotLive
<1>5. /\ \A k \in Live(companies)' : companies'[k] = IF k = w.id THEN w.row ELSE companies[k]
      /\ \A e \in Live(employees)' : employees'[e] = employees[e] /\ ~Cascade(e)
  BY <1>0, <1>1, <1>2, <1>4, LiveRows
<1> HIDE DEF w
<1>6. TablesTypeOK'
  BY <1>2 DEF TablesTypeOK
<1>7. References'
  BY <1>0, <1>1, <1>3, <1>4, <1>5 DEF References, EmployeesOf, PeriodOK
<1>8. UniqueRows'
  BY <1>0, <1>1, <1>3, <1>4, <1>5 DEF UniqueRows, CompanyWriteFits
<1>9. Lowered'
  BY <1>0, <1>1, <1>3, <1>4, <1>5 DEF Lowered, CompanyWriteFits
<1>10. ASSUME NEW x \in Write, Fits(x), Compatible(w, x), x.table = "employees"
       PROVE  employees'[x.id] = employees[x.id] /\ (x.kind # "insert" => x.id \in Live(employees)')
  <2>1. x.id \in EmployeeId /\ EmployeeWriteFits(x) /\ x.kind \in {"insert", "update", "delete"}
    BY <1>10, WriteType DEF Fits
  <2>2. ~Cascade(x.id)
    <3>1. CASE x.kind = "insert"
      BY <2>1, <3>1 DEF EmployeeWriteFits, EmployeesOf, Live, NotLive
    <3>2. CASE x.kind # "insert"
      BY <1>1, <1>10, <3>2 DEF Compatible, CompanyOfWrite, EmployeesOf
    <3> QED
      BY <3>1, <3>2
  <2> QED
    BY <1>2, <1>4, <2>1, <2>2 DEF EmployeeWriteFits
<1>11. ASSUME NEW x \in Write, Fits(x), Compatible(x, w), Compatible(w, x) PROVE Fits(x)'
  <2>1. x.table = "companies" => CompanyWriteFits(x)'
    <3>1. SUFFICES ASSUME x.table = "companies" PROVE CompanyWriteFits(x)'
      OBVIOUS
    <3>2. /\ x.id # w.id /\ x.id \in CompanyId /\ CompanyWriteFits(x) /\ x.kind \in {"insert", "update", "delete"}
          /\ x.kind # "delete" /\ w.kind # "delete" => x.row.code # w.row.code
      BY <1>1, <1>11, <3>1, WriteType DEF Compatible, Fits, UniqueKey
    <3>3. companies'[x.id] = companies[x.id]
      BY <1>2, <3>2
    <3> QED
      BY <1>4, <1>5, <3>2, <3>3 DEF CompanyWriteFits
  <2>2. x.table = "users" => UserWriteFits(x)'
    <3>1. EmployeesBeing(x.id)' \subseteq EmployeesBeing(x.id)
      BY <1>4, <1>5 DEF EmployeesBeing
    <3> QED
      BY <1>3, <1>4, <1>11, <3>1 DEF Fits, UserWriteFits
  <2>3. x.table = "employees" => EmployeeWriteFits(x)'
    <3>1. SUFFICES ASSUME x.table = "employees" PROVE EmployeeWriteFits(x)'
      OBVIOUS
    <3>2. /\ EmployeeWriteFits(x) /\ x.kind \in {"insert", "update", "delete"}
          /\ employees'[x.id] = employees[x.id] /\ (x.kind # "insert" => x.id \in Live(employees)')
      BY <1>10, <1>11, <3>1, WriteType DEF Fits
    <3>3. x.kind # "delete" => x.row.company \in Live(companies)'
      <4>1. x.kind # "delete" /\ w.kind = "delete" => x.row.company # w.id
        BY <1>1, <1>11, <3>1, <3>2 DEF Compatible, CompanyOfWrite, EmployeeWriteFits
      <4> QED
        BY <1>4, <3>2, <4>1 DEF EmployeeWriteFits
    <3> QED
      BY <1>3, <1>4, <1>5, <3>2, <3>3 DEF EmployeeWriteFits, PeriodOK
  <2> QED
    BY <2>1, <2>2, <2>3 DEF Fits
<1>12. PendingFit'
  BY <1>11, AtCommit DEF PendingFit, w
<1>13. PendingCompatible'
  <2>1. ASSUME NEW x, NEW y \in Write, Compatible(x, y), Compatible(w, y), Fits(y) PROVE Compatible(x, y)'
    BY <1>10, <2>1 DEF Compatible, CompanyOfWrite
  <2> QED
    BY <2>1, AtCommit DEF PendingCompatible, w
<1> QED
  BY <1>6, <1>7, <1>8, <1>9, <1>12, <1>13 DEF TablesInv

\* And that of a write to employees.
LEMMA EmployeeCommitKeeps ==
  ASSUME TablesInv, NEW c \in Call, Install(c), Pending(c), pend[c].table = "employees"
  PROVE  TablesInv'
<1> DEFINE w == pend[c]
<1>0. TablesTypeOK /\ References /\ UniqueRows /\ Lowered
  BY DEF TablesInv
<1>1. /\ w \in Write /\ w.table = "employees" /\ w.id \in EmployeeId /\ EmployeeWriteFits(w)
      /\ w.kind \in {"insert", "update", "delete"}
      /\ w.kind = "delete" => w.row = Gone
      /\ w.kind # "delete" => w.row \in EmployeeRow
  BY AtCommit, WriteType DEF Fits
<1>2. /\ users' \in [UserId -> UserRow \cup NotLive]
      /\ \A u \in UserId : users'[u] = users[u]
      /\ companies' \in [CompanyId -> CompanyRow \cup NotLive]
      /\ \A k \in CompanyId : companies'[k] = companies[k]
      /\ employees' \in [EmployeeId -> EmployeeRow \cup NotLive]
      /\ \A e \in EmployeeId : employees'[e] = IF e = w.id THEN w.row ELSE employees[e]
      /\ pend' \in [Call -> Write \cup {NoWrite}]
  BY <1>0, <1>1, InstallRows
<1>3. users' = users /\ companies' = companies
  BY <1>0, <1>2 DEF TablesTypeOK
<1>4. /\ Live(employees)' = IF w.kind = "delete" THEN Live(employees) \ {w.id} ELSE Live(employees) \cup {w.id}
      /\ Live(users)' = Live(users) /\ Live(companies)' = Live(companies)
  BY <1>0, <1>1, <1>2, <1>3, LiveRows, TablesAssumption DEF Live, NotLive
<1>5. \A e \in Live(employees)' : employees'[e] = IF e = w.id THEN w.row ELSE employees[e]
  BY <1>0, <1>1, <1>2, <1>4, LiveRows
<1> HIDE DEF w
<1>6. TablesTypeOK'
  BY <1>2 DEF TablesTypeOK
<1>7. References'
  BY <1>0, <1>1, <1>3, <1>4, <1>5 DEF References, EmployeeWriteFits, PeriodOK
<1>8. UniqueRows'
  BY <1>0, <1>1, <1>3, <1>4, <1>5 DEF UniqueRows, EmployeeWriteFits
<1>9. Lowered'
  BY <1>0, <1>1, <1>3, <1>4, <1>5 DEF Lowered, EmployeeWriteFits
<1>10. ASSUME NEW x \in Write, Compatible(x, w), x.table = "employees"
       PROVE  x.id # w.id /\ x.id \in EmployeeId /\ employees'[x.id] = employees[x.id]
  BY <1>1, <1>2, <1>10, WriteType DEF Compatible
<1>11. ASSUME NEW x \in Write, Fits(x), Compatible(x, w), Compatible(w, x) PROVE Fits(x)'
  <2>1. x.table = "companies" => CompanyWriteFits(x)'
    BY <1>3, <1>4, <1>11 DEF Fits, CompanyWriteFits
  <2>2. x.table = "users" => UserWriteFits(x)'
    <3>1. SUFFICES ASSUME x.table = "users" PROVE UserWriteFits(x)'
      OBVIOUS
    <3>2. x.kind = "delete" => EmployeesBeing(x.id)' = {}
      BY <1>1, <1>4, <1>5, <1>11, <3>1 DEF Fits, UserWriteFits, EmployeesBeing, Compatible
    <3> QED
      BY <1>3, <1>4, <1>11, <3>1, <3>2 DEF Fits, UserWriteFits
  <2>3. x.table = "employees" => EmployeeWriteFits(x)'
    <3>1. SUFFICES ASSUME x.table = "employees" PROVE EmployeeWriteFits(x)'
      OBVIOUS
    <3>2. /\ EmployeeWriteFits(x) /\ x.kind \in {"insert", "update", "delete"}
          /\ x.kind # "delete" /\ w.kind # "delete" =>
                ~(x.row.company = w.row.company /\ x.row.code = w.row.code)
      BY <1>1, <1>11, <3>1, WriteType DEF Fits, Compatible, UniqueKey
    <3>3. x.id # w.id /\ employees'[x.id] = employees[x.id]
      BY <1>10, <1>11, <3>1
    <3> QED
      BY <1>1, <1>3, <1>4, <1>5, <3>2, <3>3 DEF EmployeeWriteFits, PeriodOK
  <2> QED
    BY <2>1, <2>2, <2>3 DEF Fits
<1>12. PendingFit'
  BY <1>11, AtCommit DEF PendingFit, w
<1>13. PendingCompatible'
  <2>1. ASSUME NEW x, NEW y \in Write, Compatible(x, y), Compatible(y, w) PROVE Compatible(x, y)'
    BY <1>10, <2>1 DEF Compatible, CompanyOfWrite
  <2> QED
    BY <2>1, AtCommit DEF PendingCompatible, w
<1> QED
  BY <1>6, <1>7, <1>8, <1>9, <1>12, <1>13 DEF TablesInv

\* COMMIT keeps the invariant, with its cascade, whatever other writes are pending.
THEOREM InstallKeeps ==
  ASSUME TablesInv, NEW c \in Call, Install(c)
  PROVE  TablesInv'
<1>1. CASE ~Pending(c)
  <2>1. UNCHANGED <<users, companies, employees, pend>>
    <3>1. TablesTypeOK
      BY DEF TablesInv
    <3>2. /\ users' \in [UserId -> UserRow \cup NotLive] /\ \A u \in UserId : users'[u] = users[u]
          /\ companies' \in [CompanyId -> CompanyRow \cup NotLive] /\ \A k \in CompanyId : companies'[k] = companies[k]
          /\ employees' \in [EmployeeId -> EmployeeRow \cup NotLive] /\ \A e \in EmployeeId : employees'[e] = employees[e]
          /\ pend' \in [Call -> Write \cup {NoWrite}] /\ \A d \in Call : pend'[d] = pend[d]
      BY <1>1, <3>1, InstallRows DEF Pending
    <3> QED
      BY <3>1, <3>2 DEF TablesTypeOK
  <2> QED
    BY <2>1, SameTablesKeep DEF tables
<1>2. CASE Pending(c)
  <2>1. pend[c].table \in {"users", "companies", "employees"}
    BY <1>2, AtCommit, WriteType
  <2> QED
    BY <1>2, <2>1, UserCommitKeeps, CompanyCommitKeeps, EmployeeCommitKeeps
<1> QED
  BY <1>1, <1>2
-------------------------------------------------------------------------------
(* What the use cases need to know.                                            *)

\* What an answer of the database means.
LEMMA AnswerMeans ==
  ASSUME NEW w \in Write, NEW a \in Answers(w)
  PROVE  /\ a \in {"no rows", "23514", "23505", "employees_company_id_fkey", "employees_user_id_fkey", "ok"}
         /\ a = "no rows" => ~Exists(w)
         /\ a = "23514" => w.table = "employees" /\ w.kind # "delete" /\ ~PeriodOK(w.row)
         /\ a = "23505" => SetsKey(w) /\ KeyHolders(w) # {}
         /\ a \in {"employees_company_id_fkey", "employees_user_id_fkey"} => a \in BrokenReferences(w)
<1>1. BrokenReferences(w) \subseteq {"employees_company_id_fkey", "employees_user_id_fkey"}
  BY DEF BrokenReferences
<1>2. CASE ~Exists(w)
  BY <1>2 DEF Answers
<1>3. CASE Exists(w) /\ w.table = "employees" /\ w.kind # "delete" /\ ~PeriodOK(w.row)
  BY <1>3 DEF Answers
<1>4. CASE Exists(w) /\ ~(w.table = "employees" /\ w.kind # "delete" /\ ~PeriodOK(w.row))
  <2>1. a \in IF SetsKey(w) /\ KeyHolders(w) # {} THEN {"23505"}
              ELSE IF BrokenReferences(w) # {} THEN BrokenReferences(w) ELSE {"ok"}
    BY <1>4 DEF Answers
  <2> QED
    BY <1>1, <1>4, <2>1
<1> QED
  BY <1>2, <1>3, <1>4

\* By table: the refusals a write to it can meet.
LEMMA UserRefusals ==
  ASSUME NEW w \in Write, NEW a \in Answers(w), a # "ok", w.table = "users"
  PROVE  \/ a = "no rows" /\ w.kind # "insert" /\ w.id \notin Live(users)
         \/ /\ a = "23505" /\ w.kind # "delete" /\ SetsKey(w)
            /\ \E u \in Live(users) \ {w.id} : users[u].email = w.row.email
         \/ a = "employees_user_id_fkey" /\ w.kind = "delete"
<1>1. Rows(w.table) = users /\ \A row : UniqueKey(w.table, row) = row.email
  BY DEF Rows, UniqueKey
<1>2. CASE a = "no rows"
  BY <1>1, <1>2, AnswerMeans DEF Exists
<1>3. CASE a = "23505"
  <2>1. SetsKey(w) /\ KeyHolders(w) # {}
    BY <1>3, AnswerMeans
  <2>2. \E u \in Live(users) \ {w.id} : users[u].email = w.row.email
    BY <1>1, <2>1 DEF KeyHolders
  <2>3. w.kind # "delete"
    BY <2>1 DEF SetsKey
  <2> QED
    BY <1>3, <2>1, <2>2, <2>3
<1>4. CASE a \in {"employees_company_id_fkey", "employees_user_id_fkey"}
  BY <1>4, AnswerMeans DEF BrokenReferences, SetsUser
<1> QED
  BY <1>2, <1>3, <1>4, AnswerMeans

\* Nothing that refers to a company keeps it from being deleted.
LEMMA CompanyRefusals ==
  ASSUME NEW w \in Write, NEW a \in Answers(w), a # "ok", w.table = "companies"
  PROVE  \/ a = "no rows" /\ w.kind # "insert" /\ w.id \notin Live(companies)
         \/ /\ a = "23505" /\ w.kind # "delete"
            /\ \E k \in Live(companies) \ {w.id} : companies[k].code = w.row.code
<1>1. Rows(w.table) = companies /\ \A row : UniqueKey(w.table, row) = row.code
  BY DEF Rows, UniqueKey
<1>2. CASE a = "no rows"
  BY <1>1, <1>2, AnswerMeans DEF Exists
<1>3. CASE a = "23505"
  <2>1. SetsKey(w) /\ KeyHolders(w) # {}
    BY <1>3, AnswerMeans
  <2>2. \E k \in Live(companies) \ {w.id} : companies[k].code = w.row.code
    BY <1>1, <2>1 DEF KeyHolders
  <2>3. w.kind # "delete"
    BY <2>1 DEF SetsKey
  <2> QED
    BY <1>3, <2>2, <2>3
<1>4. CASE a \in {"employees_company_id_fkey", "employees_user_id_fkey"}
  BY <1>4, AnswerMeans DEF BrokenReferences, SetsUser
<1> QED
  BY <1>2, <1>3, <1>4, AnswerMeans

\* Only employees meet all the constraints.
LEMMA EmployeeRefusals ==
  ASSUME NEW w \in Write, NEW a \in Answers(w), a # "ok", w.table = "employees"
  PROVE  \/ a = "no rows" /\ w.kind # "insert" /\ w.id \notin Live(employees)
         \/ a = "23514" /\ w.kind # "delete" /\ ~PeriodOK(w.row)
         \/ /\ a = "23505" /\ w.kind # "delete"
            /\ \E e \in Live(employees) \ {w.id} :
                  employees[e].company = w.row.company /\ employees[e].code = w.row.code
         \/ a = "employees_company_id_fkey" /\ w.kind = "insert" /\ w.row.company \notin Live(companies)
         \/ a = "employees_user_id_fkey" /\ w.kind # "delete" /\ w.row.user \notin Live(users)
<1>1. Rows(w.table) = employees /\ \A row : UniqueKey(w.table, row) = <<row.company, row.code>>
  BY DEF Rows, UniqueKey
<1>2. CASE a = "no rows"
  BY <1>1, <1>2, AnswerMeans DEF Exists
<1>3. CASE a = "23505"
  <2>1. SetsKey(w) /\ KeyHolders(w) # {}
    BY <1>3, AnswerMeans
  <2>2. \E e \in Live(employees) \ {w.id} :
           <<employees[e].company, employees[e].code>> = <<w.row.company, w.row.code>>
    BY <1>1, <2>1 DEF KeyHolders
  <2>3. w.kind # "delete"
    BY <2>1 DEF SetsKey
  <2> QED
    BY <1>3, <2>2, <2>3
<1>4. CASE a \in {"employees_company_id_fkey", "employees_user_id_fkey"}
  BY <1>4, AnswerMeans DEF BrokenReferences, SetsUser
<1>5. CASE a = "23514"
  BY <1>5, AnswerMeans
<1> QED
  BY <1>2, <1>3, <1>4, <1>5, AnswerMeans

\* A row that was there is there or gone for good, and keeps its address, or its
\* company, as long as it is there.
RowsKeep ==
    /\ \A u \in UserId : users[u] # Unborn =>
          /\ users'[u] # Unborn
          /\ users'[u] \notin NotLive => users[u] \notin NotLive /\ users'[u].email = users[u].email
    /\ \A e \in EmployeeId : employees[e] # Unborn =>
          /\ employees'[e] # Unborn
          /\ employees'[e] \notin NotLive =>
                employees[e] \notin NotLive /\ employees'[e].company = employees[e].company

\* COMMIT does that to the rows,
LEMMA InstallKeepsRows ==
  ASSUME TablesInv, NEW c \in Call, Install(c)
  PROVE  RowsKeep
<1> DEFINE w == pend[c]
<1>0. TablesTypeOK
  BY DEF TablesInv
<1>1. Pending(c) => w \in Write /\ Fits(w)
  BY AtCommit
<1>2. ASSUME NEW u \in UserId, users[u] # Unborn
      PROVE  /\ users'[u] # Unborn
             /\ users'[u] \notin NotLive => users[u] \notin NotLive /\ users'[u].email = users[u].email
  <2>1. users'[u] = IF Pending(c) /\ w.table = "users" /\ w.id = u THEN w.row ELSE users[u]
    BY <1>0, InstallRows
  <2>2. CASE Pending(c) /\ w.table = "users" /\ w.id = u
    BY <1>1, <1>2, <2>1, <2>2, WriteType, TablesAssumption DEF Fits, UserWriteFits, Live, NotLive
  <2>3. CASE ~(Pending(c) /\ w.table = "users" /\ w.id = u)
    BY <1>2, <2>1, <2>3
  <2> QED
    BY <2>2, <2>3
<1>3. ASSUME NEW e \in EmployeeId, employees[e] # Unborn
      PROVE  /\ employees'[e] # Unborn
             /\ employees'[e] \notin NotLive =>
                   employees[e] \notin NotLive /\ employees'[e].company = employees[e].company
  <2>1. employees'[e] =
          IF Pending(c) /\ w.table = "companies" /\ w.kind = "delete" /\ e \in EmployeesOf(w.id) THEN Gone
          ELSE IF Pending(c) /\ w.table = "employees" /\ w.id = e THEN w.row ELSE employees[e]
    BY <1>0, InstallRows
  <2>2. CASE Pending(c) /\ w.table = "companies" /\ w.kind = "delete" /\ e \in EmployeesOf(w.id)
    BY <2>1, <2>2, TablesAssumption DEF NotLive
  <2>3. CASE Pending(c) /\ w.table = "employees" /\ w.id = e
    BY <1>1, <1>3, <2>1, <2>3, WriteType, TablesAssumption DEF Fits, EmployeeWriteFits, Live, NotLive
  <2>4. CASE /\ ~(Pending(c) /\ w.table = "companies" /\ w.kind = "delete" /\ e \in EmployeesOf(w.id))
             /\ ~(Pending(c) /\ w.table = "employees" /\ w.id = e)
    BY <1>3, <2>1, <2>4
  <2> QED
    BY <2>2, <2>3, <2>4
<1> QED
  BY <1>2, <1>3 DEF RowsKeep

\* and nothing else touches them.
LEMMA SameTablesKeepRows == UNCHANGED tables => RowsKeep
  BY DEF tables, RowsKeep
===============================================================================
