------------------------------ MODULE Locks_proofs ------------------------------
(* Proofs about Locks: for any number of calls and any statements that the     *)
(* repositories may execute.                                                   *)
EXTENDS Locks, Tables_proofs

Writing == {"update", "no key update"}
Answer == {"none", "ok", "no rows", "23505", "40P01",
           "employees_company_id_fkey", "employees_user_id_fkey"}

EntryLock(w) == [what |-> <<"entry", w.table, UniqueKey(w.table, w.row)>>, mode |-> "update"]

\* Locks that exclude each other are not held at once.
Exclusion == \A c, d \in Call : c # d =>
    \A h \in held[c], g \in held[d] : h.what = g.what => ~Conflict(h.mode, g.mode)

\* The locks of a statement are some of those it asks for.
HeldShape(c) ==
    LET w == stmt[c] IN
    \A h \in held[c] :
       \/ w.kind # "insert" /\ h \in {RowLock(w.table, w.id, m) : m \in Writing}
       \/ w.kind # "delete" /\ h = EntryLock(w)
       \/ w.table = "employees" /\ w.kind = "insert" /\ h = RowLock("companies", w.row.company, "key share")
       \/ w.table = "employees" /\ w.kind # "delete" /\ h = RowLock("users", w.row.user, "key share")
       \/ /\ w.table = "companies" /\ w.kind = "delete"
          /\ \E e \in EmployeeId : h = RowLock("employees", e, "update")

\* What a call that holds a lock knows, however long ago it looked: the row it writes
\* is there and locked,
OwnRowStays(c) ==
    LET w == stmt[c] IN
    held[c] # {} /\ w.kind # "insert" => w.id \in Live(Rows(w.table)) /\ OwnRow(w) \subseteq held[c]

\* nobody else has the key it has entered,
EntryStays(c) ==
    LET w == stmt[c] IN
    w.kind # "delete" /\ EntryLock(w) \in held[c] => SetsKey(w) /\ KeyHolders(w) = {}

\* and the rows it refers to are there.
CompanyStays(c) ==
    LET w == stmt[c] IN
    /\ w.table = "employees" /\ w.kind = "insert"
    /\ RowLock("companies", w.row.company, "key share") \in held[c]
    => w.row.company \in Live(companies)

UserStays(c) ==
    LET w == stmt[c] IN
    /\ w.table = "employees" /\ w.kind # "delete"
    /\ RowLock("users", w.row.user, "key share") \in held[c]
    => SetsUser(w) /\ w.row.user \in Live(users)

\* An executed write has all its locks.
AllLocks(w) == OwnRow(w) \cup Entry(w) \cup CompanyRef(w) \cup UserRef(w) \cup Referrers(w)

Complete(c) == Pending(c) => /\ pend[c] = stmt[c] /\ answer[c] = "ok"
                             /\ AllLocks(stmt[c]) \subseteq held[c]

\* Where a call stands.
Lifecycle(c) == /\ Executing(c) => ~Pending(c)
                /\ ~Executing(c) => want[c] = NoLock
                /\ ~Executing(c) /\ ~Pending(c) => held[c] = {}

\* The row to be inserted is not there yet,
Fresh(c) ==
    LET w == stmt[c] IN
    w.kind = "insert" /\ (Executing(c) \/ Pending(c)) => Rows(w.table)[w.id] = Unborn

\* and an update keeps the columns that it does not set.
Keeps(c) ==
    LET w == stmt[c] IN
    w.kind = "update" /\ w.id \in Live(Rows(w.table)) => SetsOnly(w, Rows(w.table)[w.id])

\* Only a statement that takes several locks waits with one in hand.
Waits(c) == Waiting(c) /\ held[c] # {} => TakesSeveral(stmt[c])

\* The first in a line waits for a row, which a creation of a user or a company
\* never does; and nobody waits for a row or an entry that it has.
Queued(c) == /\ first[c] => /\ Executing(c) /\ IsRow(want[c])
                            /\ stmt[c].kind = "insert" => stmt[c].table = "employees"
             /\ Waiting(c) => \A h \in held[c] : h.what # want[c].what

CallInv(c) == /\ HeldShape(c) /\ OwnRowStays(c) /\ EntryStays(c) /\ CompanyStays(c) /\ UserStays(c)
              /\ Complete(c) /\ Lifecycle(c) /\ Fresh(c) /\ Keeps(c) /\ Waits(c) /\ Queued(c)

IInv == /\ TablesTypeOK /\ stmt \in Statements /\ Seed # {}
        /\ held = [c \in Call |-> held[c]] /\ want = [c \in Call |-> want[c]]
        /\ first \in [Call -> BOOLEAN] /\ answer \in [Call -> Answer]
        /\ Exclusion
        /\ \A c \in Call : CallInv(c)
-------------------------------------------------------------------------------
(* Locks.                                                                      *)

Has(c, t, i, mode) == RowLock(t, i, mode) \in held[c]

LEMMA LocksDiffer ==
  /\ \A t, i, m, u, j, n : RowLock(t, i, m) = RowLock(u, j, n) => t = u /\ i = j /\ m = n
  /\ \A t, i, m, w : RowLock(t, i, m) # EntryLock(w)
<1>1. ASSUME NEW t, NEW i, NEW m, NEW u, NEW j, NEW n, RowLock(t, i, m) = RowLock(u, j, n)
      PROVE  t = u /\ i = j /\ m = n
  BY <1>1 DEF RowLock
<1>2. ASSUME NEW t, NEW i, NEW m, NEW w PROVE RowLock(t, i, m) # EntryLock(w)
  <2>1. /\ RowLock(t, i, m).what = <<t, i>>
        /\ EntryLock(w).what = <<"entry", w.table, UniqueKey(w.table, w.row)>>
    BY DEF RowLock, EntryLock
  <2>2. DOMAIN <<t, i>> = 1..2 /\ DOMAIN <<"entry", w.table, UniqueKey(w.table, w.row)>> = 1..3
    OBVIOUS
  <2>3. 3 \in 1..3 /\ 3 \notin 1..2
    OBVIOUS
  <2> QED
    BY <2>1, <2>2, <2>3
<1> QED
  BY <1>1, <1>2

\* Two calls do not hold locks on a row that exclude each other.
LEMMA RowsExclude ==
  ASSUME Exclusion, NEW c \in Call, NEW d \in Call, c # d, NEW t, NEW i, NEW m, NEW n,
         Has(c, t, i, m), Has(d, t, i, n)
  PROVE  ~Conflict(m, n)
<1>1. RowLock(t, i, m).what = RowLock(t, i, n).what /\ RowLock(t, i, m).mode = m /\ RowLock(t, i, n).mode = n
  BY DEF RowLock
<1> QED
  BY <1>1 DEF Exclusion, Has

\* Nor do they hold the same entry.
LEMMA EntriesExclude ==
  ASSUME Exclusion, NEW c \in Call, NEW d \in Call, c # d, NEW v, NEW w,
         EntryLock(v) \in held[c], EntryLock(w) \in held[d], v.table = w.table
  PROVE  UniqueKey(v.table, v.row) # UniqueKey(w.table, w.row)
  BY DEF Exclusion, EntryLock, Conflict

\* What it means to hold all locks of a write.
LEMMA AllLocksHeld ==
  ASSUME NEW w \in Write, NEW d \in Call, AllLocks(w) \subseteq held[d]
  PROVE  /\ w.kind # "insert" => Has(d, w.table, w.id, "update") \/ Has(d, w.table, w.id, "no key update")
         /\ w.kind = "delete" => Has(d, w.table, w.id, "update")
         /\ w.kind # "insert" /\ SetsKey(w) => Has(d, w.table, w.id, "update")
         /\ SetsKey(w) => EntryLock(w) \in held[d]
         /\ w.table = "employees" /\ w.kind = "insert" => Has(d, "companies", w.row.company, "key share")
         /\ SetsUser(w) => Has(d, "users", w.row.user, "key share")
         /\ w.kind = "delete" /\ w.table = "companies" =>
               \A e \in EmployeesOf(w.id) : Has(d, "employees", e, "update")
         /\ w.kind = "delete" /\ w.table = "users" =>
               \A e \in EmployeesBeing(w.id) : Has(d, "employees", e, "key share")
<1>1. w.kind \in {"insert", "update", "delete"}
  BY WriteType
<1>2. /\ w.kind = "delete" => OwnRow(w) = {RowLock(w.table, w.id, "update")}
      /\ w.kind = "update" => OwnRow(w) = {RowLock(w.table, w.id, IF SetsKey(w) THEN "update" ELSE "no key update")}
  BY DEF OwnRow
<1>3. SetsKey(w) => Entry(w) = {EntryLock(w)}
  BY DEF Entry, EntryLock
<1>4. /\ w.kind = "delete" /\ w.table = "companies" =>
            Referrers(w) = {RowLock("employees", e, "update") : e \in EmployeesOf(w.id)}
      /\ w.kind = "delete" /\ w.table = "users" =>
            Referrers(w) = {RowLock("employees", e, "key share") : e \in EmployeesBeing(w.id)}
  BY DEF Referrers
<1>5. w.kind = "delete" => ~SetsKey(w)
  BY DEF SetsKey
<1> QED
  BY <1>1, <1>2, <1>3, <1>4, <1>5 DEF AllLocks, Has, CompanyRef, UserRef
\* The five parts of the locks of a statement are different locks.
LEMMA PartsDiffer ==
  ASSUME NEW w \in Write
  PROVE  /\ OwnRow(w) \cap (Entry(w) \cup CompanyRef(w) \cup UserRef(w) \cup Referrers(w)) = {}
         /\ Entry(w) \cap (CompanyRef(w) \cup UserRef(w) \cup Referrers(w)) = {}
         /\ CompanyRef(w) \cap (UserRef(w) \cup Referrers(w)) = {}
         /\ UserRef(w) \cap Referrers(w) = {}
<1>1. w.kind \in {"insert", "update", "delete"} /\ w.table \in {"users", "companies", "employees"}
  BY WriteType
<1>2. /\ w.kind = "insert" => OwnRow(w) = {}
      /\ \A l \in OwnRow(w) : \E m : l = RowLock(w.table, w.id, m)
  BY <1>1 DEF OwnRow
<1>3. /\ w.kind = "delete" => Entry(w) = {}
      /\ \A l \in Entry(w) : l = EntryLock(w)
  BY DEF Entry, EntryLock, SetsKey
<1>4. /\ \A l \in CompanyRef(w) : l = RowLock("companies", w.row.company, "key share") /\ w.kind = "insert"
      /\ \A l \in UserRef(w) : l = RowLock("users", w.row.user, "key share")
                               /\ w.kind # "delete" /\ w.table = "employees"
  BY DEF CompanyRef, UserRef, SetsUser
<1>5. \A l \in Referrers(w) : /\ w.kind = "delete" /\ w.table # "employees"
                              /\ \E e, m : l = RowLock("employees", e, m)
  <2>1. CASE w.kind = "delete" /\ w.table = "companies"
    BY <2>1 DEF Referrers
  <2>2. CASE w.kind = "delete" /\ w.table = "users"
    BY <2>2 DEF Referrers
  <2>3. CASE ~(w.kind = "delete" /\ w.table = "companies") /\ ~(w.kind = "delete" /\ w.table = "users")
    BY <2>3 DEF Referrers
  <2> QED
    BY <2>1, <2>2, <2>3
<1>6. \A t, i, m, u, j, n : t # u => RowLock(t, i, m) # RowLock(u, j, n)
  BY LocksDiffer
<1>7. \A t, i, m, v : RowLock(t, i, m) # EntryLock(v)
  BY LocksDiffer
<1>8. ASSUME NEW l \in OwnRow(w) PROVE l \notin Entry(w) \cup CompanyRef(w) \cup UserRef(w) \cup Referrers(w)
  <2>1. PICK m : l = RowLock(w.table, w.id, m)
    BY <1>2, <1>8
  <2>2. l \notin Entry(w)
    BY <1>3, <1>7, <2>1
  <2>3. l \notin CompanyRef(w)
    BY <1>2, <1>4, <1>8
  <2>5. l \notin UserRef(w)
    BY <1>4, <1>6, <2>1
  <2>4. l \notin Referrers(w)
    BY <1>5, <1>6, <2>1
  <2> QED
    BY <2>2, <2>3, <2>4, <2>5
<1>9. ASSUME NEW l \in Entry(w) PROVE l \notin CompanyRef(w) \cup UserRef(w) \cup Referrers(w)
  <2>1. l = EntryLock(w) /\ w.kind # "delete"
    BY <1>3, <1>9
  <2> QED
    BY <1>4, <1>5, <1>7, <2>1
<1>10. ASSUME NEW l \in CompanyRef(w) PROVE l \notin UserRef(w) \cup Referrers(w)
  <2>1. l = RowLock("companies", w.row.company, "key share") /\ w.kind = "insert"
    BY <1>4, <1>10
  <2> QED
    BY <1>4, <1>5, <1>6, <2>1
<1>11. ASSUME NEW l \in UserRef(w) PROVE l \notin Referrers(w)
  BY <1>4, <1>5, <1>11
<1> QED
  BY <1>8, <1>9, <1>10, <1>11

\* A statement takes its locks part by part.
LEMMA PartByPart ==
  ASSUME NEW c \in Call
  PROVE  LET w == stmt[c]
             taken == held[c]
         IN /\ NextLocks(c) = {} => AllLocks(w) \subseteq taken
            /\ \A l \in NextLocks(c) : /\ l \in AllLocks(w) /\ l \notin taken
                                       /\ l \notin OwnRow(w) => OwnRow(w) \subseteq taken
                                       /\ l \notin OwnRow(w) \cup Entry(w) => Entry(w) \subseteq taken
<1> DEFINE w == stmt[c]
           Part(s) == s \ held[c]
<1>1. CASE Part(OwnRow(w)) # {}
  <2>1. NextLocks(c) = Part(OwnRow(w))
    BY <1>1 DEF NextLocks
  <2> QED
    BY <1>1, <2>1 DEF AllLocks
<1>2. CASE Part(OwnRow(w)) = {} /\ Part(Entry(w)) # {}
  <2>1. NextLocks(c) = Part(Entry(w))
    BY <1>2 DEF NextLocks
  <2> QED
    BY <1>2, <2>1 DEF AllLocks
<1>3. CASE Part(OwnRow(w) \cup Entry(w)) = {} /\ Part(CompanyRef(w)) # {}
  <2>1. Part(OwnRow(w)) = {} /\ Part(Entry(w)) = {}
    BY <1>3
  <2>2. NextLocks(c) = Part(CompanyRef(w))
    BY <1>3, <2>1 DEF NextLocks
  <2> QED
    BY <1>3, <2>1, <2>2 DEF AllLocks
<1>4. CASE Part(OwnRow(w)) = {} /\ Part(Entry(w)) = {} /\ Part(CompanyRef(w)) = {}
  <2>1. NextLocks(c) = Part(UserRef(w) \cup Referrers(w))
    BY <1>4 DEF NextLocks
  <2> QED
    BY <1>4, <2>1 DEF AllLocks
<1> QED
  BY <1>1, <1>2, <1>3, <1>4

\* What it finds at a lock.
LEMMA ObstacleAt ==
  ASSUME NEW c \in Call, NEW w \in Write, w = stmt[c], NEW l \in AllLocks(w)
  PROVE  /\ l \in OwnRow(w) => Obstacle(c, l) = IF Exists(w) THEN "none" ELSE "no rows"
         /\ l \in Entry(w) => Obstacle(c, l) = IF KeyHolders(w) = {} THEN "none" ELSE "23505"
         /\ l \in CompanyRef(w) =>
               Obstacle(c, l) = IF w.row.company \in Live(companies) THEN "none" ELSE "employees_company_id_fkey"
         /\ l \in UserRef(w) =>
               Obstacle(c, l) = IF w.row.user \in Live(users) THEN "none" ELSE "employees_user_id_fkey"
         /\ l \in Referrers(w) =>
               Obstacle(c, l) = IF w.table = "users" THEN "employees_user_id_fkey" ELSE "none"
<1>1. CASE l \in OwnRow(w)
  BY <1>1, PartsDiffer DEF Obstacle
<1>2. CASE l \in Entry(w)
  BY <1>2, PartsDiffer DEF Obstacle
<1>3. CASE l \in CompanyRef(w)
  <2>1. l = [what |-> <<"companies", w.row.company>>, mode |-> "key share"]
    BY <1>3 DEF CompanyRef, RowLock
  <2>2. l.what[2] = w.row.company
    BY <2>1
  <2> QED
    BY <1>3, <2>2, PartsDiffer DEF Obstacle
<1>4. CASE l \in UserRef(w)
  BY <1>4, PartsDiffer DEF Obstacle
<1>5. CASE l \in Referrers(w)
  BY <1>5, PartsDiffer DEF Obstacle
<1> QED
  BY <1>1, <1>2, <1>3, <1>4, <1>5, PartsDiffer
-------------------------------------------------------------------------------
(* Statements and rows.                                                        *)

TableName == {"users", "companies", "employees"}

LEMMA IdsOfTables ==
  ASSUME TablesTypeOK
  PROVE  /\ DOMAIN Rows("users") = UserId /\ DOMAIN Rows("companies") = CompanyId
         /\ DOMAIN Rows("employees") = EmployeeId
         /\ \A w \in Write : w.table \in TableName /\ w.id \in DOMAIN Rows(w.table)
<1>1. Rows("users") = users /\ Rows("companies") = companies /\ Rows("employees") = employees
  BY DEF Rows
<1>2. ASSUME NEW w \in Write PROVE w.table \in TableName /\ w.id \in DOMAIN Rows(w.table)
  BY <1>1, WriteType DEF TableName, TablesTypeOK
<1> QED
  BY <1>1, <1>2 DEF TablesTypeOK

\* What the repositories execute, of one call and of two.
LEMMA StatementsFit ==
  ASSUME stmt \in Statements, Seed # {}, NEW c \in Call
  PROVE  LET w == stmt[c] IN
         /\ w \in Write
         /\ w.table = "employees" /\ w.kind # "delete" => PeriodOK(w.row)
         /\ \A d \in Call : stmt[d].kind = "insert" /\ stmt[d].table = w.table /\ stmt[d].id = w.id =>
               /\ w.kind = "insert" => c = d
               /\ w.kind = "update" => SetsOnly(w, stmt[d].row)
<1>1. PICK s \in Seed : Executable(stmt, s)
  BY LocksAssumption
<1>2. stmt \in [Call -> Write]
  BY LocksAssumption
<1> QED
  BY <1>1, <1>2 DEF Executable

\* What COMMIT does to the rows of any table.
LEMMA Written ==
  ASSUME TablesTypeOK, NEW d \in Call, Install(d), Pending(d), NEW v \in Write, v = pend[d],
         NEW t \in TableName
  PROVE  /\ DOMAIN Rows(t)' = DOMAIN Rows(t)
         /\ \A i \in DOMAIN Rows(t) :
               Rows(t)'[i] = IF Removes(v, t, i) THEN Gone
                             ELSE IF v.table = t /\ v.id = i THEN v.row ELSE Rows(t)[i]
         /\ v.kind # "delete" => v.row \notin NotLive
<1>1. /\ users' \in [UserId -> UserRow \cup NotLive]
      /\ companies' \in [CompanyId -> CompanyRow \cup NotLive]
      /\ employees' \in [EmployeeId -> EmployeeRow \cup NotLive]
      /\ \A u \in UserId : users'[u] = IF v.table = "users" /\ v.id = u THEN v.row ELSE users[u]
      /\ \A k \in CompanyId : companies'[k] = IF v.table = "companies" /\ v.id = k THEN v.row ELSE companies[k]
      /\ \A e \in EmployeeId : employees'[e] =
            IF v.table = "companies" /\ v.kind = "delete" /\ e \in EmployeesOf(v.id) THEN Gone
            ELSE IF v.table = "employees" /\ v.id = e THEN v.row ELSE employees[e]
  BY InstallRows
<1>2. v.kind = "delete" => v.row = Gone
  BY WriteType
<1>3. v.kind # "delete" => v.row \notin NotLive
  BY WriteType, TablesAssumption
<1>4. CASE t = "users"
  <2>1. Rows(t) = users /\ Rows(t)' = users'
    BY <1>4 DEF Rows
  <2> QED
    BY <1>1, <1>2, <1>3, <1>4, <2>1 DEF Removes, TablesTypeOK
<1>5. CASE t = "companies"
  <2>1. Rows(t) = companies /\ Rows(t)' = companies'
    BY <1>5 DEF Rows
  <2> QED
    BY <1>1, <1>2, <1>3, <1>5, <2>1 DEF Removes, TablesTypeOK
<1>6. CASE t = "employees"
  <2>1. Rows(t) = employees /\ Rows(t)' = employees'
    BY <1>6 DEF Rows
  <2> QED
    BY <1>1, <1>2, <1>3, <1>6, <2>1 DEF Removes, TablesTypeOK
<1> QED
  BY <1>4, <1>5, <1>6 DEF TableName

\* How call d changes the row i by committing v, and what its locks allow.
Changes(d, v, t, i) ==
    \/ /\ v.kind = "insert" /\ v.table = t /\ v.id = i
       /\ Rows(t)[i] = Unborn /\ Rows(t)'[i] = v.row
    \/ /\ v.kind = "update" /\ v.table = t /\ v.id = i
       /\ i \in Live(Rows(t)) /\ Rows(t)'[i] = v.row /\ SetsOnly(v, Rows(t)[i])
       /\ Has(d, t, i, "update") \/ Has(d, t, i, "no key update")
    \/ v.kind = "delete" /\ i \in Live(Rows(t)) /\ Rows(t)'[i] = Gone /\ Has(d, t, i, "update")

LEMMA Changed ==
  ASSUME IInv, NEW d \in Call, Commit(d), NEW v, v = stmt[d],
         NEW t \in TableName, NEW i \in DOMAIN Rows(t), Rows(t)'[i] # Rows(t)[i]
  PROVE  Changes(d, v, t, i)
<1> USE DEF Changes
<1>0. v \in Write
  BY StatementsFit DEF IInv
<1>1. /\ TablesTypeOK /\ Install(d) /\ Pending(d) /\ CallInv(d)
      /\ pend[d] = v /\ AllLocks(v) \subseteq held[d]
  BY DEF IInv, Commit, CallInv, Complete, Pending
<1>2. Rows(t)'[i] = IF Removes(v, t, i) THEN Gone
                   ELSE IF v.table = t /\ v.id = i THEN v.row ELSE Rows(t)[i]
  BY <1>0, <1>1, Written
<1>3. v.kind \in {"insert", "update", "delete"}
  BY <1>0, WriteType
<1>4. v.kind # "insert" => v.id \in Live(Rows(v.table))
  BY <1>0, <1>1, AllLocksHeld DEF CallInv, OwnRowStays, Has
<1>5. CASE Removes(v, t, i)
  <2>1. CASE v.table = t /\ v.id = i
    BY <1>0, <1>1, <1>2, <1>4, <1>5, <2>1, AllLocksHeld DEF Removes
  <2>2. CASE v.table = "companies" /\ t = "employees" /\ i \in EmployeesOf(v.id)
    <3>1. Rows(t) = employees
      BY <2>2 DEF Rows
    <3> QED
      BY <1>0, <1>1, <1>2, <1>5, <2>2, <3>1, AllLocksHeld DEF Removes, EmployeesOf
  <2> QED
    BY <1>5, <2>1, <2>2 DEF Removes
<1>6. CASE ~Removes(v, t, i)
  <2>1. v.table = t /\ v.id = i /\ Rows(t)'[i] = v.row /\ v.kind # "delete"
    BY <1>2, <1>6 DEF Removes
  <2>2. CASE v.kind = "insert"
    BY <1>1, <2>1, <2>2 DEF CallInv, Fresh
  <2>3. CASE v.kind = "update"
    BY <1>0, <1>1, <1>4, <2>1, <2>3, AllLocksHeld DEF CallInv, Keeps
  <2> QED
    BY <1>3, <2>1, <2>2, <2>3
<1> QED
  BY <1>5, <1>6
-------------------------------------------------------------------------------
(* COMMIT of one call, seen by another.                                        *)

\* Nobody else touches a row that a call has locked to write it.
LEMMA OwnRowIsSafe ==
  ASSUME IInv, NEW d \in Call, Commit(d), NEW c \in Call, c # d, NEW w \in Write, w = stmt[c],
         held[c] # {}, w.kind # "insert"
  PROVE  Rows(w.table)'[w.id] = Rows(w.table)[w.id] /\ w.id \in Live(Rows(w.table))
<1>1. /\ TablesTypeOK /\ Exclusion /\ CallInv(c) /\ stmt[d] \in Write
      /\ w.table \in TableName /\ w.id \in DOMAIN Rows(w.table)
  BY IdsOfTables, StatementsFit DEF IInv
<1>2. w.id \in Live(Rows(w.table)) /\ OwnRow(w) \subseteq held[c]
  BY <1>1 DEF CallInv, OwnRowStays
<1>3. PICK m \in Writing : Has(c, w.table, w.id, m)
  BY <1>2, WriteType DEF OwnRow, Has, Writing
<1>4. Rows(w.table)[w.id] # Unborn
  BY <1>2 DEF Live, NotLive
<1>5. SUFFICES ASSUME Rows(w.table)'[w.id] # Rows(w.table)[w.id] PROVE FALSE
  BY <1>2
<1>6. PICK n \in Writing : Has(d, w.table, w.id, n)
  <2>1. Changes(d, stmt[d], w.table, w.id)
    BY <1>1, <1>5, Changed
  <2> QED
    BY <1>4, <2>1 DEF Changes, Writing
<1>7. ~Conflict(m, n)
  BY <1>1, <1>3, <1>6, RowsExclude
<1> QED
  BY <1>3, <1>6, <1>7 DEF Conflict, Writing

\* So its statement still changes what it changed before.
LEMMA EffectIsSafe ==
  ASSUME IInv, NEW d \in Call, Commit(d), NEW c \in Call, c # d, NEW w \in Write, w = stmt[c],
         held[c] # {}
  PROVE  (SetsKey(w)' <=> SetsKey(w)) /\ (SetsUser(w)' <=> SetsUser(w))
<1>1. CASE w.kind = "insert"
  BY <1>1 DEF SetsKey, SetsUser
<1>2. CASE w.kind # "insert"
  <2>1. /\ TablesTypeOK /\ Install(d) /\ Pending(d) /\ pend[d] \in Write
        /\ w.table \in TableName /\ w.id \in DOMAIN Rows(w.table)
    BY IdsOfTables, StatementsFit DEF IInv, Commit, CallInv, Complete, Pending
  <2>2. DOMAIN Rows(w.table)' = DOMAIN Rows(w.table)
    BY <2>1, Written
  <2>3. Rows(w.table)'[w.id] = Rows(w.table)[w.id] /\ w.id \in Live(Rows(w.table))
    BY <1>2, OwnRowIsSafe
  <2>4. w.id \in Live(Rows(w.table))'
    BY <2>2, <2>3 DEF Live
  <2>5. SetsKey(w)' <=> SetsKey(w)
    BY <2>3, <2>4 DEF SetsKey
  <2>6. w.table = "employees" => Rows(w.table) = employees /\ Rows(w.table)' = employees'
    BY DEF Rows
  <2>7. SetsUser(w)' <=> SetsUser(w)
    BY <2>3, <2>4, <2>6 DEF SetsUser
  <2> QED
    BY <2>5, <2>7
<1> QED
  BY <1>1, <1>2

\* Nobody else takes the key it has entered.
LEMMA EntryIsSafe ==
  ASSUME IInv, NEW d \in Call, Commit(d), NEW c \in Call, c # d, NEW w \in Write, w = stmt[c],
         w.kind # "delete", EntryLock(w) \in held[c]
  PROVE  KeyHolders(w)' = {}
<1>1. /\ TablesTypeOK /\ Exclusion /\ CallInv(c) /\ CallInv(d) /\ stmt[d] \in Write
      /\ Install(d) /\ Pending(d) /\ pend[d] = stmt[d] /\ AllLocks(stmt[d]) \subseteq held[d]
      /\ w.table \in TableName
  BY IdsOfTables, StatementsFit DEF IInv, Commit, CallInv, Complete, Pending
<1>2. KeyHolders(w) = {}
  BY <1>1 DEF CallInv, EntryStays
<1>3. PICK v \in Write : v = stmt[d]
  BY <1>1
<1>4. SUFFICES ASSUME NEW i \in DOMAIN Rows(w.table), i # w.id, Rows(w.table)'[i] \notin NotLive,
                      UniqueKey(w.table, Rows(w.table)'[i]) = UniqueKey(w.table, w.row)
               PROVE  FALSE
  <2>1. DOMAIN Rows(w.table)' = DOMAIN Rows(w.table)
    BY <1>1, Written
  <2>2. \A row : UniqueKey(w.table, row)' = UniqueKey(w.table, row)
    BY DEF UniqueKey
  <2> QED
    BY <2>1 DEF KeyHolders, Live, UniqueKey
<1>5. i \in Live(Rows(w.table)) => UniqueKey(w.table, Rows(w.table)[i]) # UniqueKey(w.table, w.row)
  BY <1>2, <1>4 DEF KeyHolders
<1>6. CASE Rows(w.table)'[i] = Rows(w.table)[i]
  BY <1>4, <1>5, <1>6 DEF Live
<1>7. CASE Rows(w.table)'[i] # Rows(w.table)[i]
  <2>1. /\ v.table = w.table /\ v.id = i /\ Rows(w.table)'[i] = v.row
        /\ \/ v.kind = "insert"
           \/ v.kind = "update" /\ i \in Live(Rows(w.table))
    <3>1. Changes(d, v, w.table, i)
      BY <1>1, <1>3, <1>7, Changed
    <3> QED
      BY <1>4, <3>1 DEF Changes, NotLive
  <2>2. UniqueKey(v.table, v.row) = UniqueKey(w.table, w.row)
    BY <1>4, <2>1
  <2>3. SetsKey(v)
    BY <1>5, <2>1, <2>2 DEF SetsKey
  <2>4. EntryLock(v) \in held[d]
    BY <1>1, <1>3, <2>3, AllLocksHeld
  <2> QED
    BY <1>1, <2>1, <2>2, <2>4, EntriesExclude
<1> QED
  BY <1>6, <1>7

\* The rows it refers to stay.
LEMMA ReferredIsSafe ==
  ASSUME IInv, NEW d \in Call, Commit(d), NEW c \in Call, c # d,
         NEW t \in TableName, NEW i \in Live(Rows(t)), Has(c, t, i, "key share")
  PROVE  i \in Live(Rows(t))'
<1>1. /\ TablesTypeOK /\ Exclusion /\ stmt[d] \in Write
      /\ Install(d) /\ Pending(d) /\ pend[d] = stmt[d]
  BY StatementsFit DEF IInv, Commit, CallInv, Complete, Pending
<1>2. PICK v \in Write : v = stmt[d]
  BY <1>1
<1>3. DOMAIN Rows(t)' = DOMAIN Rows(t) /\ (v.kind # "delete" => v.row \notin NotLive)
  BY <1>1, <1>2, Written
<1>4. i \in DOMAIN Rows(t) /\ Rows(t)[i] \notin NotLive
  BY DEF Live
<1>5. ~Has(d, t, i, "update")
  BY <1>1, RowsExclude DEF Conflict
<1>6. Rows(t)'[i] \notin NotLive
  <2>1. CASE Rows(t)'[i] # Rows(t)[i]
    <3>1. Changes(d, v, t, i)
      BY <1>2, <1>4, <2>1, Changed
    <3> QED
      BY <1>3, <1>4, <1>5, <3>1 DEF Changes, NotLive
  <2> QED
    BY <1>4, <2>1
<1> QED
  BY <1>3, <1>4, <1>6 DEF Live
\* Nobody comes to refer to a row that a call has locked to delete it.
LEMMA ReferringIsSafe ==
  ASSUME IInv, NEW d \in Call, Commit(d), NEW c \in Call, c # d, NEW k
  PROVE  /\ Has(c, "companies", k, "update") => EmployeesOf(k)' \subseteq EmployeesOf(k)
         /\ Has(c, "users", k, "update") => EmployeesBeing(k)' \subseteq EmployeesBeing(k)
<1>1. /\ TablesTypeOK /\ Exclusion /\ stmt[d] \in Write
      /\ Install(d) /\ Pending(d) /\ pend[d] = stmt[d] /\ AllLocks(stmt[d]) \subseteq held[d]
  BY StatementsFit DEF IInv, Commit, CallInv, Complete, Pending
<1>2. PICK v \in Write : v = stmt[d]
  BY <1>1
<1>3. /\ "employees" \in TableName /\ Rows("employees") = employees /\ Rows("employees")' = employees'
  BY DEF TableName, Rows
<1>4. DOMAIN employees' = DOMAIN employees
  BY <1>1, <1>3, Written
<1>5. ASSUME NEW e \in Live(employees)', e \notin Live(employees) \/ employees'[e] # employees[e]
      PROVE  /\ v.table = "employees" /\ employees'[e] = v.row
             /\ \/ v.kind = "insert"
                \/ /\ v.kind = "update" /\ v.id = e
                   /\ e \in Live(employees) /\ v.row.company = employees[e].company
  <2>1. e \in DOMAIN Rows("employees") /\ employees'[e] # employees[e] /\ employees'[e] \notin NotLive
    BY <1>3, <1>4, <1>5 DEF Live
  <2>2. Changes(d, v, "employees", e)
    BY <1>2, <1>3, <2>1, Changed
  <2> QED
    BY <1>3, <2>1, <2>2 DEF Changes, SetsOnly, NotLive
<1>6. v.table = "employees" /\ v.kind = "insert" => /\ Has(d, "companies", v.row.company, "key share")
                                                   /\ Has(d, "users", v.row.user, "key share")
  BY <1>1, <1>2, AllLocksHeld DEF SetsUser
<1>7. ASSUME Has(c, "companies", k, "update"), NEW e \in EmployeesOf(k)' PROVE e \in EmployeesOf(k)
  <2>1. e \in Live(employees)' /\ employees'[e].company = k
    BY DEF EmployeesOf
  <2>2. ~Has(d, "companies", k, "key share")
    BY <1>1, <1>7, RowsExclude DEF Conflict
  <2> QED
    BY <1>5, <1>6, <2>1, <2>2 DEF EmployeesOf
<1>8. ASSUME Has(c, "users", k, "update"), NEW e \in EmployeesBeing(k)' PROVE e \in EmployeesBeing(k)
  <2>1. e \in Live(employees)' /\ employees'[e].user = k
    BY DEF EmployeesBeing
  <2>2. ~Has(d, "users", k, "key share")
    BY <1>1, <1>8, RowsExclude DEF Conflict
  <2>3. CASE v.table = "employees" /\ v.kind = "update" /\ v.id = e /\ e \in Live(employees) /\ employees'[e] = v.row
    <3>1. ~SetsUser(v)
      BY <1>1, <1>2, <2>1, <2>2, <2>3, AllLocksHeld
    <3> QED
      BY <2>1, <2>3, <3>1 DEF SetsUser, EmployeesBeing
  <2> QED
    BY <1>5, <1>6, <2>1, <2>2, <2>3 DEF EmployeesBeing
<1> QED
  BY <1>7, <1>8

\* Nobody else inserts the row that a call inserts.
LEMMA FreshIsSafe ==
  ASSUME IInv, NEW d \in Call, Commit(d), NEW c \in Call, c # d, NEW w \in Write, w = stmt[c],
         w.kind = "insert", Rows(w.table)[w.id] = Unborn
  PROVE  Rows(w.table)'[w.id] = Unborn
<1>1. TablesTypeOK /\ w.table \in TableName /\ w.id \in DOMAIN Rows(w.table)
  BY IdsOfTables DEF IInv
<1>2. CASE Rows(w.table)'[w.id] # Rows(w.table)[w.id]
  <2>1. Changes(d, stmt[d], w.table, w.id)
    BY <1>1, <1>2, Changed
  <2>2. stmt[d].kind = "insert" /\ stmt[d].table = w.table /\ stmt[d].id = w.id
    BY <2>1 DEF Changes, Live, NotLive
  <2> QED
    BY <2>2, StatementsFit DEF IInv
<1> QED
  BY <1>2

\* However a row changes, it keeps the columns that no statement sets.
LEMMA KeepsIsSafe ==
  ASSUME IInv, NEW d \in Call, Commit(d), NEW c \in Call, NEW w \in Write, w = stmt[c],
         w.kind = "update", w.id \in Live(Rows(w.table))'
  PROVE  SetsOnly(w, Rows(w.table)'[w.id])
<1>1. /\ TablesTypeOK /\ CallInv(c) /\ Install(d) /\ Pending(d) /\ pend[d] \in Write
      /\ w.table \in TableName /\ w.id \in DOMAIN Rows(w.table)
  BY IdsOfTables, StatementsFit DEF IInv, Commit, CallInv, Complete, Pending
<1>2. w.id \in DOMAIN Rows(w.table)' /\ Rows(w.table)'[w.id] \notin NotLive
  BY DEF Live
<1>3. w.id \in Live(Rows(w.table)) => SetsOnly(w, Rows(w.table)[w.id])
  BY <1>1 DEF CallInv, Keeps
<1>4. CASE Rows(w.table)'[w.id] = Rows(w.table)[w.id]
  BY <1>1, <1>2, <1>3, <1>4 DEF Live
<1>5. CASE Rows(w.table)'[w.id] # Rows(w.table)[w.id]
  <2>1. Changes(d, stmt[d], w.table, w.id)
    BY <1>1, <1>5, Changed
  <2>2. CASE stmt[d].kind = "insert" /\ stmt[d].table = w.table /\ stmt[d].id = w.id /\ Rows(w.table)'[w.id] = stmt[d].row
    BY <2>2, StatementsFit DEF IInv
  <2>3. CASE /\ stmt[d].table = w.table /\ w.id \in Live(Rows(w.table))
             /\ Rows(w.table)'[w.id] = stmt[d].row /\ SetsOnly(stmt[d], Rows(w.table)[w.id])
    BY <1>3, <2>3 DEF SetsOnly
  <2> QED
    BY <1>2, <2>1, <2>2, <2>3 DEF Changes, NotLive
<1> QED
  BY <1>4, <1>5
LEMMA OthersSurviveCommit ==
  ASSUME IInv, NEW d \in Call, Commit(d), NEW c \in Call, c # d
  PROVE  CallInv(c)'
<1>1. /\ TablesTypeOK /\ Exclusion /\ CallInv(c) /\ stmt[c] \in Write
      /\ Install(d) /\ Pending(d) /\ pend[d] \in Write
  BY StatementsFit DEF IInv, Commit, CallInv, Complete, Pending
<1>2. PICK w \in Write : w = stmt[c]
  BY <1>1
<1>3. /\ stmt' = stmt /\ want' = want /\ answer' = answer /\ stmt'[c] = w
      /\ held'[c] = held[c] /\ pend'[c] = pend[c] /\ (first'[c] => first[c])
  <2>1. stmt' = stmt /\ want' = want /\ answer' = answer /\ stmt'[c] = w
    BY <1>1, <1>2 DEF Commit
  <2>2. held'[c] = held[c]
    BY DEF Commit, IInv
  <2>3. pend'[c] = pend[c]
    BY <1>1, InstallRows
  <2>4. first'[c] => first[c]
    BY DEF Commit
  <2> QED
    BY <2>1, <2>2, <2>3, <2>4
<1>4. w.table \in TableName /\ w.id \in DOMAIN Rows(w.table) /\ DOMAIN Rows(w.table)' = DOMAIN Rows(w.table)
  BY <1>1, IdsOfTables, Written
<1>5. HeldShape(c)'
  BY <1>1, <1>2, <1>3 DEF CallInv, HeldShape, EntryLock, UniqueKey
<1>6. held[c] # {} => (SetsKey(w)' <=> SetsKey(w)) /\ (SetsUser(w)' <=> SetsUser(w)) /\ OwnRow(w)' = OwnRow(w)
  <2>1. held[c] # {} => (SetsKey(w)' <=> SetsKey(w)) /\ (SetsUser(w)' <=> SetsUser(w))
    BY <1>2, EffectIsSafe
  <2> QED
    BY <2>1 DEF OwnRow
<1>7. OwnRowStays(c)'
  <2>1. SUFFICES ASSUME held[c] # {}, w.kind # "insert"
                 PROVE  w.id \in Live(Rows(w.table))' /\ OwnRow(w)' \subseteq held[c]
    BY <1>3 DEF OwnRowStays
  <2>2. w.id \in Live(Rows(w.table)) /\ OwnRow(w) \subseteq held[c]
    BY <1>1, <1>2, <2>1 DEF CallInv, OwnRowStays
  <2>3. Rows(w.table)'[w.id] = Rows(w.table)[w.id]
    BY <1>2, <2>1, OwnRowIsSafe
  <2> QED
    BY <1>4, <1>6, <2>1, <2>2, <2>3 DEF Live
<1>8. EntryStays(c)'
  <2>1. EntryLock(w)' = EntryLock(w)
    BY DEF EntryLock, UniqueKey
  <2>2. SUFFICES ASSUME w.kind # "delete", EntryLock(w) \in held[c]
                 PROVE  SetsKey(w)' /\ KeyHolders(w)' = {}
    BY <1>3, <2>1 DEF EntryStays
  <2>3. SetsKey(w)
    BY <1>1, <1>2, <2>2 DEF CallInv, EntryStays
  <2> QED
    BY <1>2, <1>6, <2>2, <2>3, EntryIsSafe
<1>9. CompanyStays(c)'
  <2>1. RowLock("companies", w.row.company, "key share")' = RowLock("companies", w.row.company, "key share")
    BY DEF RowLock
  <2>2. SUFFICES ASSUME w.table = "employees", w.kind = "insert", Has(c, "companies", w.row.company, "key share")
                 PROVE  w.row.company \in Live(companies)'
    BY <1>3, <2>1 DEF CompanyStays, Has
  <2>3. w.row.company \in Live(companies)
    BY <1>1, <1>2, <2>2 DEF CallInv, CompanyStays, Has
  <2>4. "companies" \in TableName /\ Rows("companies") = companies /\ Rows("companies")' = companies'
    BY DEF TableName, Rows
  <2>5. w.row.company \in Live(Rows("companies"))'
    BY <2>2, <2>3, <2>4, ReferredIsSafe
  <2> QED
    BY <2>4, <2>5
<1>10. UserStays(c)'
  <2>1. RowLock("users", w.row.user, "key share")' = RowLock("users", w.row.user, "key share")
    BY DEF RowLock
  <2>2. SUFFICES ASSUME w.table = "employees", w.kind # "delete", Has(c, "users", w.row.user, "key share")
                 PROVE  SetsUser(w)' /\ w.row.user \in Live(users)'
    BY <1>3, <2>1 DEF UserStays, Has
  <2>3. SetsUser(w) /\ w.row.user \in Live(users)
    BY <1>1, <1>2, <2>2 DEF CallInv, UserStays, Has
  <2>4. "users" \in TableName /\ Rows("users") = users /\ Rows("users")' = users'
    BY DEF TableName, Rows
  <2>5. w.row.user \in Live(Rows("users"))'
    BY <2>2, <2>3, <2>4, ReferredIsSafe
  <2> QED
    BY <1>6, <2>2, <2>3, <2>4, <2>5 DEF Has
<1>11. Complete(c)'
  <2>1. SUFFICES ASSUME Pending(c) PROVE AllLocks(w)' \subseteq held[c] /\ pend[c] = w /\ answer[c] = "ok"
    BY <1>3 DEF Complete, Pending
  <2>2. AllLocks(w) \subseteq held[c] /\ pend[c] = w /\ answer[c] = "ok"
    BY <1>1, <1>2, <2>1 DEF CallInv, Complete
  <2>3. held[c] # {} \/ w.kind = "insert"
    BY <2>2, AllLocksHeld DEF Has
  <2>4. (SetsKey(w)' <=> SetsKey(w)) /\ (SetsUser(w)' <=> SetsUser(w)) /\ OwnRow(w)' = OwnRow(w)
    <3>1. w.kind = "insert" => (SetsKey(w)' <=> SetsKey(w)) /\ (SetsUser(w)' <=> SetsUser(w)) /\ OwnRow(w)' = OwnRow(w)
      BY DEF SetsKey, SetsUser, OwnRow
    <3> QED
      BY <1>6, <2>3, <3>1
  <2>5. Entry(w)' = Entry(w) /\ CompanyRef(w)' = CompanyRef(w) /\ UserRef(w)' = UserRef(w)
    BY <2>4 DEF Entry, CompanyRef, UserRef, UniqueKey
  <2>6. Referrers(w)' \subseteq Referrers(w)
    <3>1. w.kind = "delete" => Has(c, w.table, w.id, "update")
      BY <2>2, AllLocksHeld
    <3>2. CASE w.kind = "delete" /\ w.table = "companies"
      <4>1. EmployeesOf(w.id)' \subseteq EmployeesOf(w.id)
        BY <3>1, <3>2, ReferringIsSafe
      <4> QED
        BY <3>2, <4>1 DEF Referrers, RowLock
    <3>3. CASE w.kind = "delete" /\ w.table = "users"
      <4>1. EmployeesBeing(w.id)' \subseteq EmployeesBeing(w.id)
        BY <3>1, <3>3, ReferringIsSafe
      <4> QED
        BY <3>3, <4>1 DEF Referrers, RowLock
    <3>4. CASE ~(w.kind = "delete" /\ w.table = "companies") /\ ~(w.kind = "delete" /\ w.table = "users")
      BY <3>4 DEF Referrers
    <3> QED
      BY <3>2, <3>3, <3>4
  <2> QED
    BY <2>2, <2>4, <2>5, <2>6 DEF AllLocks
<1>12. Lifecycle(c)'
  BY <1>1, <1>3 DEF CallInv, Lifecycle, Executing, Pending
<1>13. Fresh(c)'
  <2>1. SUFFICES ASSUME w.kind = "insert", Executing(c) \/ Pending(c) PROVE Rows(w.table)'[w.id] = Unborn
    BY <1>3 DEF Fresh, Executing, Pending
  <2>2. Rows(w.table)[w.id] = Unborn
    BY <1>1, <1>2, <2>1 DEF CallInv, Fresh
  <2> QED
    BY <1>2, <2>1, <2>2, FreshIsSafe
<1>14. Keeps(c)'
  <2>1. SUFFICES ASSUME w.kind = "update", w.id \in Live(Rows(w.table))' PROVE SetsOnly(w, Rows(w.table)'[w.id])
    BY <1>3 DEF Keeps, SetsOnly
  <2> QED
    BY <1>2, <2>1, KeepsIsSafe
<1>15. Waits(c)'
  BY <1>1, <1>2, <1>3, <1>6 DEF CallInv, Waits, Waiting, TakesSeveral
<1>16. Queued(c)'
  BY <1>1, <1>2, <1>3 DEF CallInv, Queued, Waiting, Executing, IsRow
<1> QED
  BY <1>5, <1>7, <1>8, <1>9, <1>10, <1>11, <1>12, <1>13, <1>14, <1>15, <1>16 DEF CallInv
\* Locks that are given up exclude no more.
LEMMA FewerLocks ==
  ASSUME Exclusion, NEW c \in Call, held' = [held EXCEPT ![c] = {}], held = [d \in Call |-> held[d]]
  PROVE  Exclusion' /\ held' = [d \in Call |-> held'[d]]
<1>1. \A d \in Call : held'[d] \subseteq held[d]
  OBVIOUS
<1>2. Exclusion'
  BY <1>1 DEF Exclusion, Conflict
<1> QED
  BY <1>2

LEMMA CommitIInv ==
  ASSUME IInv, NEW d \in Call, Commit(d)
  PROVE  IInv'
<1>1. /\ TablesTypeOK /\ Exclusion /\ CallInv(d) /\ stmt[d] \in Write
      /\ Install(d) /\ Pending(d) /\ pend[d] \in Write
  BY StatementsFit DEF IInv, Commit, CallInv, Complete, Pending
<1>2. /\ stmt' = stmt /\ want' = want /\ answer' = answer /\ held' = [held EXCEPT ![d] = {}] /\ held'[d] = {}
      /\ first' \in [Call -> BOOLEAN] /\ (first'[d] => first[d])
  BY DEF Commit, IInv
<1>3. TablesTypeOK' /\ pend'[d] = NoWrite
  BY <1>1, InstallRows DEF TablesTypeOK
<1>4. Exclusion' /\ held' = [c \in Call |-> held'[c]]
  BY <1>1, <1>2, FewerLocks DEF IInv
<1>5. CallInv(d)'
  <2>1. HeldShape(d)' /\ OwnRowStays(d)' /\ EntryStays(d)' /\ CompanyStays(d)' /\ UserStays(d)' /\ Waits(d)'
    BY <1>2 DEF HeldShape, OwnRowStays, EntryStays, CompanyStays, UserStays, Waits
  <2>4. Queued(d)'
    BY <1>1, <1>2 DEF CallInv, Queued, Waiting, Executing, IsRow
  <2>2. Complete(d)' /\ Lifecycle(d)' /\ Fresh(d)'
    BY <1>1, <1>2, <1>3 DEF CallInv, Complete, Lifecycle, Fresh, Executing, Pending
  <2>3. Keeps(d)'
    <3>1. PICK w \in Write : w = stmt[d]
      BY <1>1
    <3>2. SUFFICES ASSUME w.kind = "update", w.id \in Live(Rows(w.table))'
                   PROVE  SetsOnly(w, Rows(w.table)'[w.id])
      BY <1>2, <3>1 DEF Keeps, SetsOnly
    <3> QED
      BY <3>1, <3>2, KeepsIsSafe
  <2> QED
    BY <2>1, <2>2, <2>3, <2>4 DEF CallInv
<1>6. ASSUME NEW c \in Call, c # d PROVE CallInv(c)'
  BY <1>6, OthersSurviveCommit
<1> QED
  BY <1>2, <1>3, <1>4, <1>5, <1>6 DEF IInv
-------------------------------------------------------------------------------
(* A statement under way.                                                      *)

\* What a statement does depends on the rows,
LEMMA SameRowsSameEffect ==
  ASSUME UNCHANGED <<users, companies, employees>>, NEW w
  PROVE  /\ Rows(w.table)' = Rows(w.table) /\ Live(Rows(w.table))' = Live(Rows(w.table))
         /\ Live(users)' = Live(users) /\ Live(companies)' = Live(companies)
         /\ SetsKey(w)' = SetsKey(w) /\ SetsUser(w)' = SetsUser(w) /\ KeyHolders(w)' = KeyHolders(w)
         /\ OwnRow(w)' = OwnRow(w) /\ AllLocks(w)' = AllLocks(w) /\ EntryLock(w)' = EntryLock(w)
<1>1. Rows(w.table)' = Rows(w.table)
  BY DEF Rows
<1>2. /\ Live(Rows(w.table))' = Live(Rows(w.table))
      /\ Live(users)' = Live(users) /\ Live(companies)' = Live(companies) /\ Live(employees)' = Live(employees)
  BY <1>1 DEF Live
<1>3. EntryLock(w)' = EntryLock(w)
  BY DEF EntryLock, UniqueKey
<1>4. SetsKey(w)' = SetsKey(w)
  BY <1>1, <1>2 DEF SetsKey, UniqueKey
<1>5. SetsUser(w)' = SetsUser(w)
  BY <1>2 DEF SetsUser
<1>6. KeyHolders(w)' = KeyHolders(w)
  BY <1>1, <1>2 DEF KeyHolders, UniqueKey
<1>7. OwnRow(w)' = OwnRow(w)
  BY <1>4 DEF OwnRow, RowLock
<1>8. Entry(w)' = Entry(w) /\ CompanyRef(w)' = CompanyRef(w) /\ UserRef(w)' = UserRef(w)
  BY <1>4, <1>5 DEF Entry, UniqueKey, CompanyRef, UserRef, RowLock
<1>9. EmployeesOf(w.id)' = EmployeesOf(w.id) /\ EmployeesBeing(w.id)' = EmployeesBeing(w.id)
  BY <1>2 DEF EmployeesOf, EmployeesBeing
<1>10. Referrers(w)' = Referrers(w)
  BY <1>9 DEF Referrers, RowLock
<1> QED
  BY <1>1, <1>2, <1>3, <1>4, <1>5, <1>6, <1>7, <1>8, <1>10 DEF AllLocks

\* and what a call knows on its own locks, too.
LEMMA OthersStay ==
  ASSUME IInv, UNCHANGED <<users, companies, employees, stmt>>, NEW c \in Call,
         held'[c] = held[c], want'[c] = want[c], answer'[c] = answer[c], pend'[c] = pend[c],
         first'[c] = first[c]
  PROVE  CallInv(c)'
<1>1. PICK w \in Write : w = stmt[c]
  BY StatementsFit DEF IInv
<1>2. CallInv(c) /\ stmt'[c] = w
  BY <1>1 DEF IInv
<1>3. /\ HeldShape(c)' /\ OwnRowStays(c)' /\ EntryStays(c)' /\ CompanyStays(c)' /\ UserStays(c)'
  BY <1>1, <1>2, SameRowsSameEffect DEF CallInv, HeldShape, OwnRowStays, EntryStays, CompanyStays, UserStays
<1>4. Complete(c)' /\ Lifecycle(c)'
  BY <1>1, <1>2, SameRowsSameEffect DEF CallInv, Complete, Pending, Lifecycle, Executing
<1>5. Fresh(c)' /\ Keeps(c)' /\ Waits(c)'
  BY <1>1, <1>2, SameRowsSameEffect DEF CallInv, Executing, Pending, Fresh, Keeps, SetsOnly, Waits, Waiting,
     TakesSeveral
<1>6. Queued(c)'
  BY <1>2 DEF CallInv, Queued, Waiting, Executing, IsRow
<1> QED
  BY <1>3, <1>4, <1>5, <1>6 DEF CallInv
\* A refused statement gives up its locks.
LEMMA RefuseIInv ==
  ASSUME IInv, NEW c \in Call, Executing(c), NEW a \in Answer \ {"none"}, Refuse(c, a)
  PROVE  IInv'
<1>1. /\ TablesTypeOK /\ Exclusion /\ CallInv(c)
      /\ UNCHANGED <<users, companies, employees, pend, stmt>>
      /\ held' = [held EXCEPT ![c] = {}] /\ want' = [want EXCEPT ![c] = NoLock]
      /\ first' = [first EXCEPT ![c] = FALSE] /\ answer' = [answer EXCEPT ![c] = a]
  BY DEF IInv, Refuse, Awake, tables
<1>2. held'[c] = {} /\ want'[c] = NoLock /\ answer'[c] = a /\ pend'[c] = pend[c] /\ first'[c] = FALSE
  BY <1>1 DEF IInv
<1>3. Exclusion' /\ held' = [d \in Call |-> held'[d]]
  BY <1>1, FewerLocks DEF IInv
<1>4. CallInv(c)'
  <2>1. PICK w \in Write : w = stmt[c]
    BY StatementsFit DEF IInv
  <2>2. ~Pending(c) /\ ~Pending(c)' /\ ~Executing(c)'
    BY <1>1, <1>2 DEF CallInv, Lifecycle, Executing, Pending
  <2>3. /\ HeldShape(c)' /\ OwnRowStays(c)' /\ EntryStays(c)' /\ CompanyStays(c)' /\ UserStays(c)' /\ Waits(c)'
       /\ Queued(c)'
    BY <1>2 DEF HeldShape, OwnRowStays, EntryStays, CompanyStays, UserStays, Waits, Queued
  <2>4. Complete(c)' /\ Lifecycle(c)' /\ Fresh(c)'
    BY <1>2, <2>2 DEF Complete, Lifecycle, Fresh
  <2>5. Keeps(c)'
    BY <1>1, <2>1, SameRowsSameEffect DEF CallInv, Keeps, SetsOnly
  <2> QED
    BY <2>3, <2>4, <2>5 DEF CallInv
<1>5. ASSUME NEW d \in Call, d # c PROVE CallInv(d)'
  <2>1. /\ held'[d] = held[d] /\ want'[d] = want[d] /\ answer'[d] = answer[d] /\ pend'[d] = pend[d]
        /\ first'[d] = first[d]
    BY <1>1, <1>5
  <2> QED
    BY <1>1, <2>1, OthersStay
<1>6. /\ TablesTypeOK' /\ answer' \in [Call -> Answer] /\ want' = [d \in Call |-> want'[d]]
      /\ first' \in [Call -> BOOLEAN]
  BY <1>1 DEF TablesTypeOK, IInv
<1> QED
  BY <1>1, <1>3, <1>4, <1>5, <1>6 DEF IInv

\* When it has come to the end, it has all its locks.
LEMMA FinishIInv ==
  ASSUME IInv, NEW c \in Call, Executing(c), Finish(c)
  PROVE  IInv'
<1>1. /\ TablesTypeOK /\ Exclusion /\ CallInv(c)
      /\ UNCHANGED <<users, companies, employees, stmt, held>>
      /\ pend' = [pend EXCEPT ![c] = stmt[c]] /\ want' = [want EXCEPT ![c] = NoLock]
      /\ first' = [first EXCEPT ![c] = FALSE] /\ answer' = [answer EXCEPT ![c] = "ok"]
  BY DEF IInv, Finish, Awake, tables
<1>2. PICK w \in Write : w = stmt[c]
  BY StatementsFit DEF IInv
<1>3. /\ held'[c] = held[c] /\ want'[c] = NoLock /\ answer'[c] = "ok" /\ pend'[c] = w /\ stmt'[c] = w
      /\ first'[c] = FALSE
  BY <1>1, <1>2 DEF IInv, TablesTypeOK
<1>4. AllLocks(w) \subseteq held[c]
  BY <1>2, PartByPart DEF Finish
<1>5. CallInv(c)'
  <2>1. /\ HeldShape(c)' /\ OwnRowStays(c)' /\ EntryStays(c)' /\ CompanyStays(c)' /\ UserStays(c)'
    BY <1>1, <1>2, <1>3, SameRowsSameEffect DEF CallInv, HeldShape, OwnRowStays, EntryStays, CompanyStays, UserStays
  <2>2. Complete(c)' /\ Lifecycle(c)'
    BY <1>1, <1>3, <1>4, SameRowsSameEffect, TablesAssumption DEF Complete, Pending, Lifecycle, Executing
  <2>3. Fresh(c)' /\ Keeps(c)' /\ Waits(c)'
    BY <1>1, <1>2, <1>3, SameRowsSameEffect DEF CallInv, Executing, Pending, Fresh, Keeps, SetsOnly, Waits, Waiting
  <2>4. Queued(c)'
    BY <1>3 DEF Queued, Waiting, Executing
  <2> QED
    BY <2>1, <2>2, <2>3, <2>4 DEF CallInv
<1>6. ASSUME NEW d \in Call, d # c PROVE CallInv(d)'
  <2>1. /\ held'[d] = held[d] /\ want'[d] = want[d] /\ answer'[d] = answer[d] /\ pend'[d] = pend[d]
        /\ first'[d] = first[d]
    BY <1>1, <1>6
  <2> QED
    BY <1>1, <2>1, OthersStay
<1>7. /\ TablesTypeOK' /\ answer' \in [Call -> Answer] /\ want' = [d \in Call |-> want'[d]]
      /\ first' \in [Call -> BOOLEAN]
  BY <1>1, <1>2 DEF TablesTypeOK, IInv, Answer
<1>8. Exclusion'
  BY <1>1 DEF Exclusion, Conflict
<1> QED
  BY <1>1, <1>5, <1>6, <1>7, <1>8 DEF IInv

\* A statement holds its entry and rows.
LEMMA RowOrEntry ==
  ASSUME NEW c \in Call, HeldShape(c), NEW h \in held[c]
  PROVE  \/ h = EntryLock(stmt[c])
         \/ \E t, i, m : h = RowLock(t, i, m) /\ m \in Writing \cup {"key share"}
<1> DEFINE w == stmt[c]
<1>1. CASE h \in {RowLock(w.table, w.id, m) : m \in Writing}
  <2>1. PICK m \in Writing : h = RowLock(w.table, w.id, m)
    BY <1>1
  <2> QED
    BY <2>1
<1>2. CASE h = EntryLock(w)
  BY <1>2
<1>3. CASE h = RowLock("companies", w.row.company, "key share")
  BY <1>3
<1>4. CASE h = RowLock("users", w.row.user, "key share")
  BY <1>4
<1>5. CASE \E e \in EmployeeId : h = RowLock("employees", e, "update")
  <2>1. PICK e \in EmployeeId : h = RowLock("employees", e, "update")
    BY <1>5
  <2> QED
    BY <2>1 DEF Writing
<1> QED
  BY <1>1, <1>2, <1>3, <1>4, <1>5 DEF HeldShape

\* A statement asks for no row and no entry that it has.
LEMMA NoLockTwice ==
  ASSUME IInv, NEW c \in Call, NEW l \in NextLocks(c), NEW h \in held[c]
  PROVE  h.what # l.what
<1>1. PICK w \in Write : w = stmt[c]
  BY StatementsFit DEF IInv
<1>2. /\ l \in AllLocks(w) /\ l # h
      /\ l \notin OwnRow(w) => OwnRow(w) \subseteq held[c]
  BY <1>1, PartByPart
<1>3. HeldShape(c) /\ OwnRowStays(c)
  BY DEF IInv, CallInv
<1>4. w.kind \in {"insert", "update", "delete"} /\ w.table \in {"users", "companies", "employees"}
  BY WriteType
<1>5. l \notin OwnRow(w)
  <2>1. w.kind # "insert" => OwnRow(w) = {} \/ l \notin OwnRow(w) \/ l \in held[c]
    BY <1>1, <1>3 DEF OwnRowStays
  <2>2. l \notin held[c]
    BY <1>1, PartByPart
  <2>3. w.kind = "insert" => OwnRow(w) = {}
    BY DEF OwnRow
  <2> QED
    BY <2>1, <2>2, <2>3
<1>6. /\ \A t, i, m : RowLock(t, i, m).what = <<t, i>> /\ RowLock(t, i, m).mode = m
      /\ \A t, i, m : RowLock(t, i, m).what # EntryLock(w).what
  <2>1. ASSUME NEW t, NEW i, NEW m PROVE RowLock(t, i, m).what = <<t, i>> /\ RowLock(t, i, m).mode = m
    BY DEF RowLock
  <2>2. ASSUME NEW t, NEW i PROVE <<t, i>> # EntryLock(w).what
    <3>1. EntryLock(w).what = <<"entry", w.table, UniqueKey(w.table, w.row)>>
      BY DEF EntryLock
    <3>2. DOMAIN <<t, i>> = 1..2 /\ DOMAIN <<"entry", w.table, UniqueKey(w.table, w.row)>> = 1..3
      OBVIOUS
    <3>3. 3 \in 1..3 /\ 3 \notin 1..2
      OBVIOUS
    <3> QED
      BY <3>1, <3>2, <3>3
  <2> QED
    BY <2>1, <2>2
<1>7. CASE l \in Entry(w)
  <2>1. l = EntryLock(w)
    BY <1>7 DEF Entry, EntryLock
  <2>2. h = EntryLock(w) \/ \E t, i, m : h = RowLock(t, i, m)
    BY <1>1, <1>3, RowOrEntry
  <2> QED
    BY <1>2, <1>6, <2>1, <2>2
<1>8. CASE l \in CompanyRef(w)
  <2>1. /\ w.table = "employees" /\ w.kind = "insert"
        /\ l = RowLock("companies", w.row.company, "key share")
    BY <1>8 DEF CompanyRef
  <2>2. h = EntryLock(w) \/ h = RowLock("users", w.row.user, "key share")
    BY <1>1, <1>2, <1>3, <2>1 DEF HeldShape
  <2>3. l.what = <<"companies", w.row.company>> /\ l.what # EntryLock(w).what
    BY <1>6, <2>1
  <2>4. CASE h = EntryLock(w)
    BY <2>3, <2>4
  <2>5. CASE h = RowLock("users", w.row.user, "key share")
    <3>1. h.what = <<"users", w.row.user>>
      BY <1>6, <2>5
    <3> QED
      BY <2>3, <3>1
  <2> QED
    BY <2>2, <2>4, <2>5
<1>9. CASE l \in UserRef(w)
  <2>1. /\ w.table = "employees" /\ w.kind # "delete"
        /\ l = RowLock("users", w.row.user, "key share")
    BY <1>9 DEF UserRef, SetsUser
  <2>2. \/ h = EntryLock(w)
        \/ \E m \in Writing : h = RowLock("employees", w.id, m)
        \/ h = RowLock("companies", w.row.company, "key share")
    <3>1. h # l
      BY <1>2
    <3> QED
      BY <1>1, <1>3, <2>1, <3>1 DEF HeldShape
  <2>3. l.what = <<"users", w.row.user>> /\ l.what # EntryLock(w).what
    BY <1>6, <2>1
  <2>4. CASE h = EntryLock(w)
    BY <2>3, <2>4
  <2>5. CASE \E m \in Writing : h = RowLock("employees", w.id, m)
    <3>1. h.what = <<"employees", w.id>>
      BY <1>6, <2>5
    <3> QED
      BY <2>3, <3>1
  <2>6. CASE h = RowLock("companies", w.row.company, "key share")
    <3>1. h.what = <<"companies", w.row.company>>
      BY <1>6, <2>6
    <3> QED
      BY <2>3, <3>1
  <2> QED
    BY <2>2, <2>4, <2>5, <2>6
<1>10. CASE l \in Referrers(w)
  <2>1. w.kind = "delete" /\ w.table \in {"users", "companies"}
    BY <1>4, <1>10 DEF Referrers
  <2>2. \/ w.table = "users" /\ \E e : l = RowLock("employees", e, "key share")
        \/ w.table = "companies" /\ \E e : l = RowLock("employees", e, "update")
    BY <1>10, <2>1 DEF Referrers
  <2>3. \/ \E m : h = RowLock(w.table, w.id, m)
        \/ w.table = "companies" /\ \E e : h = RowLock("employees", e, "update")
    BY <1>1, <1>3, <2>1 DEF HeldShape, Writing
  <2>4. PICK e, n : /\ l = RowLock("employees", e, n)
                    /\ w.table = "companies" => n = "update"
    BY <2>2
  <2>5. l.what = <<"employees", e>>
    BY <1>6, <2>4
  <2>6. CASE \E m : h = RowLock(w.table, w.id, m)
    <3>1. h.what = <<w.table, w.id>>
      BY <1>6, <2>6
    <3> QED
      BY <2>1, <2>5, <3>1
  <2>7. CASE w.table = "companies" /\ \E f : h = RowLock("employees", f, "update")
    <3>1. PICK f : h = RowLock("employees", f, "update")
      BY <2>7
    <3>2. h.what = <<"employees", f>> /\ e # f
      BY <1>2, <1>6, <2>4, <2>7, <3>1
    <3> QED
      BY <2>5, <3>2
  <2> QED
    BY <2>3, <2>6, <2>7
<1> QED
  BY <1>2, <1>5, <1>7, <1>8, <1>9, <1>10 DEF AllLocks

\* Who waits with a lock in hand has come past its own row.
LEMMA WaitIInv ==
  ASSUME IInv, NEW c \in Call, Executing(c), NEW l \in NextLocks(c), Wait(c, l)
  PROVE  IInv'
<1>0. PICK b \in BOOLEAN : /\ b => IsRow(l)
                           /\ first' = [first EXCEPT ![c] = b] /\ want' = [want EXCEPT ![c] = l]
                           /\ UNCHANGED <<tables, pend, stmt, held, answer>>
  BY DEF Wait
<1>1. /\ TablesTypeOK /\ Exclusion /\ CallInv(c)
      /\ UNCHANGED <<users, companies, employees, pend, stmt, held, answer>>
  BY <1>0 DEF IInv, tables
<1>2. PICK w \in Write : w = stmt[c]
  BY StatementsFit DEF IInv
<1>3. stmt'[c] = w /\ (held[c] # {} => TakesSeveral(w))
  <2>1. SUFFICES ASSUME held[c] # {} PROVE TakesSeveral(w)
    BY <1>1, <1>2
  <2>2. /\ w.kind \in {"insert", "update", "delete"} /\ w.table \in {"users", "companies", "employees"}
        /\ w.table = "users" => Rows(w.table) = users
    BY WriteType DEF Rows
  <2>3. l \notin held[c] /\ l \in AllLocks(w)
    BY <1>2, PartByPart
  <2>4. w.kind # "insert" => OwnRow(w) \subseteq held[c] /\ w.id \in Live(Rows(w.table))
    BY <1>1, <1>2, <2>1 DEF CallInv, OwnRowStays
  <2>5. CASE w.kind = "insert" /\ w.table # "employees"
    <3>1. held[c] = {EntryLock(w)}
      BY <1>1, <1>2, <2>1, <2>5 DEF CallInv, HeldShape
    <3>2. AllLocks(w) = {EntryLock(w)}
      BY <2>5 DEF AllLocks, OwnRow, Entry, EntryLock, CompanyRef, UserRef, Referrers, SetsKey, SetsUser
    <3> QED
      BY <2>3, <3>1, <3>2
  <2>6. CASE w.kind = "delete" /\ w.table = "employees"
    <3>1. AllLocks(w) = OwnRow(w)
      BY <2>6 DEF AllLocks, Entry, CompanyRef, UserRef, Referrers, SetsKey, SetsUser
    <3> QED
      BY <2>3, <2>4, <2>6, <3>1
  <2>7. CASE w.kind = "update" /\ ~SetsKey(w) /\ ~SetsUser(w)
    <3>1. AllLocks(w) = OwnRow(w)
      BY <2>7 DEF AllLocks, Entry, CompanyRef, UserRef, Referrers
    <3> QED
      BY <2>3, <2>4, <2>7, <3>1
  <2>8. CASE w.kind = "update" /\ w.table = "users"
    <3>1. ~SetsUser(w)
      BY <2>8 DEF SetsUser
    <3>2. w.row.email = users[w.id].email
      BY <1>1, <1>2, <2>2, <2>4, <2>8 DEF CallInv, Keeps, SetsOnly
    <3>3. ~SetsKey(w)
      BY <2>2, <2>8, <3>2 DEF SetsKey, UniqueKey
    <3> QED
      BY <2>7, <2>8, <3>1, <3>3
  <2> QED
    BY <2>2, <2>5, <2>6, <2>7, <2>8 DEF TakesSeveral
<1>4. CallInv(c)'
  <2>1. /\ HeldShape(c)' /\ OwnRowStays(c)' /\ EntryStays(c)' /\ CompanyStays(c)' /\ UserStays(c)'
    BY <1>1, <1>2, <1>3, SameRowsSameEffect DEF CallInv, HeldShape, OwnRowStays, EntryStays, CompanyStays, UserStays
  <2>2. Complete(c)' /\ Lifecycle(c)'
    BY <1>1, <1>2, <1>3, SameRowsSameEffect DEF CallInv, Complete, Pending, Lifecycle, Executing
  <2>3. Fresh(c)' /\ Keeps(c)'
    BY <1>1, <1>2, <1>3, SameRowsSameEffect DEF CallInv, Executing, Pending, Fresh, Keeps, SetsOnly
  <2>4. Waits(c)'
    BY <1>1, <1>3, SameRowsSameEffect DEF Waits, TakesSeveral
  <2>5. want'[c] = l /\ first'[c] = b /\ held'[c] = held[c]
    BY <1>0 DEF IInv
  <2>6. w.kind = "insert" /\ w.table # "employees" => ~b
    <3>1. SUFFICES ASSUME w.kind = "insert", w.table # "employees" PROVE ~IsRow(l)
      BY <1>0
    <3>2. l \in AllLocks(w)
      BY <1>2, PartByPart
    <3>3. l = EntryLock(w)
      BY <3>1, <3>2 DEF AllLocks, OwnRow, Entry, EntryLock, CompanyRef, UserRef, Referrers, SetsUser
    <3> QED
      BY <3>3 DEF IsRow, EntryLock
  <2>7. Executing(c)'
    BY <1>0 DEF Executing
  <2>8. Queued(c)'
    BY <1>0, <1>2, <1>3, <2>5, <2>6, <2>7, NoLockTwice DEF Queued, IsRow
  <2> QED
    BY <2>1, <2>2, <2>3, <2>4, <2>8 DEF CallInv
<1>5. ASSUME NEW d \in Call, d # c PROVE CallInv(d)'
  <2>1. /\ held'[d] = held[d] /\ want'[d] = want[d] /\ answer'[d] = answer[d] /\ pend'[d] = pend[d]
        /\ first'[d] = first[d]
    BY <1>0, <1>1, <1>5 DEF IInv
  <2> QED
    BY <1>1, <2>1, OthersStay
<1>6. /\ TablesTypeOK' /\ want' = [d \in Call |-> want'[d]]
      /\ first' \in [Call -> BOOLEAN]
  BY <1>0, <1>1 DEF TablesTypeOK, IInv
<1>7. Exclusion'
  BY <1>1 DEF Exclusion, Conflict
<1> QED
  BY <1>1, <1>4, <1>5, <1>6, <1>7 DEF IInv
\* Who takes a lock has found what it protects as it should be.
LEMMA GrantIInv ==
  ASSUME IInv, NEW c \in Call, Executing(c), NEW l \in NextLocks(c),
         Blockers(c, l) = {}, Obstacle(c, l) = "none",
         held' = [held EXCEPT ![c] = @ \cup {l}], Awake(c),
         UNCHANGED <<tables, pend, stmt, answer>>
  PROVE  IInv'
<1>1. /\ TablesTypeOK /\ Exclusion /\ CallInv(c)
      /\ UNCHANGED <<users, companies, employees, pend, stmt, answer>>
      /\ want' = [want EXCEPT ![c] = NoLock] /\ first' = [first EXCEPT ![c] = FALSE]
  BY DEF IInv, Awake, tables
<1>2. PICK w \in Write : w = stmt[c]
  BY StatementsFit DEF IInv
<1>3. /\ stmt'[c] = w /\ held'[c] = held[c] \cup {l} /\ want'[c] = NoLock /\ first'[c] = FALSE
      /\ \A d \in Call : d # c => held'[d] = held[d]
  BY <1>1, <1>2 DEF IInv
<1>4. /\ l \in AllLocks(w)
      /\ l \notin OwnRow(w) => OwnRow(w) \subseteq held[c]
  BY <1>2, PartByPart
<1>5. w.kind \in {"insert", "update", "delete"} /\ w.table \in {"users", "companies", "employees"}
  BY WriteType
<1>6. Exclusion'
  <2>1. ASSUME NEW d \in Call, d # c, NEW h \in held[d], h.what = l.what
        PROVE  ~Conflict(h.mode, l.mode) /\ ~Conflict(l.mode, h.mode)
    BY <2>1 DEF Blockers, Conflict
  <2>2. ASSUME NEW a \in Call, NEW b \in Call, a # b, NEW h \in held'[a], NEW g \in held'[b], h.what = g.what
        PROVE  ~Conflict(h.mode, g.mode)
    <3>1. CASE h \in held[a] /\ g \in held[b]
      BY <1>1, <2>2, <3>1 DEF Exclusion
    <3>2. CASE a = c /\ h = l
      BY <1>3, <2>1, <2>2, <3>2
    <3>3. CASE b = c /\ g = l
      BY <1>3, <2>1, <2>2, <3>3
    <3> QED
      BY <1>3, <2>2, <3>1, <3>2, <3>3
  <2> QED
    BY <2>2 DEF Exclusion, Conflict
<1>7. l \in Referrers(w) => /\ w.table = "companies" /\ w.kind = "delete"
                            /\ \E e \in EmployeeId : l = RowLock("employees", e, "update")
  <2>1. SUFFICES ASSUME l \in Referrers(w)
                 PROVE  /\ w.table = "companies" /\ w.kind = "delete"
                        /\ \E e \in EmployeeId : l = RowLock("employees", e, "update")
    OBVIOUS
  <2>2. w.table # "users"
    BY <1>2, <1>4, <2>1, ObstacleAt
  <2>3. w.table = "companies" /\ w.kind = "delete"
    BY <1>5, <2>1, <2>2 DEF Referrers
  <2>4. Referrers(w) = {RowLock("employees", e, "update") : e \in EmployeesOf(w.id)}
    BY <2>3 DEF Referrers
  <2>5. EmployeesOf(w.id) \subseteq EmployeeId
    BY <1>1 DEF EmployeesOf, Live, TablesTypeOK
  <2> QED
    BY <2>1, <2>3, <2>4, <2>5
<1>8. /\ l \in OwnRow(w) => /\ w.kind # "insert" /\ OwnRow(w) = {l}
                            /\ \E m \in Writing : l = RowLock(w.table, w.id, m)
      /\ l \in Entry(w) => w.kind # "delete" /\ l = EntryLock(w) /\ SetsKey(w)
      /\ l \in CompanyRef(w) => /\ w.table = "employees" /\ w.kind = "insert"
                                /\ l = RowLock("companies", w.row.company, "key share")
      /\ l \in UserRef(w) => /\ w.table = "employees" /\ w.kind # "delete" /\ SetsUser(w)
                             /\ l = RowLock("users", w.row.user, "key share")
  BY <1>5 DEF OwnRow, Writing, Entry, EntryLock, SetsKey, CompanyRef, UserRef, SetsUser
<1>9. HeldShape(c)'
  <2>1. ASSUME NEW h \in held[c] \cup {l}
        PROVE  \/ w.kind # "insert" /\ h \in {RowLock(w.table, w.id, m) : m \in Writing}
               \/ w.kind # "delete" /\ h = EntryLock(w)
               \/ w.table = "employees" /\ w.kind = "insert" /\ h = RowLock("companies", w.row.company, "key share")
               \/ w.table = "employees" /\ w.kind # "delete" /\ h = RowLock("users", w.row.user, "key share")
               \/ /\ w.table = "companies" /\ w.kind = "delete"
                  /\ \E e \in EmployeeId : h = RowLock("employees", e, "update")
    <3>1. CASE h \in held[c]
      BY <1>1, <1>2, <3>1 DEF CallInv, HeldShape
    <3>2. CASE h = l
      BY <1>4, <1>7, <1>8, <3>2 DEF AllLocks
    <3> QED
      BY <3>1, <3>2
  <2> QED
    BY <1>1, <1>3, <2>1, SameRowsSameEffect DEF HeldShape
<1>10. OwnRowStays(c)'
  <2>1. SUFFICES ASSUME w.kind # "insert" PROVE w.id \in Live(Rows(w.table)) /\ OwnRow(w) \subseteq held[c] \cup {l}
    BY <1>1, <1>3, SameRowsSameEffect DEF OwnRowStays
  <2>2. CASE l \in OwnRow(w)
    <3>1. Exists(w)
      BY <1>2, <1>4, <2>2, ObstacleAt
    <3> QED
      BY <1>8, <2>1, <2>2, <3>1 DEF Exists
  <2>3. CASE l \notin OwnRow(w)
    <3>1. OwnRow(w) # {}
      BY <1>5, <2>1 DEF OwnRow
    <3>2. held[c] # {}
      BY <1>4, <2>3, <3>1
    <3> QED
      BY <1>1, <1>2, <2>1, <3>2 DEF CallInv, OwnRowStays
  <2> QED
    BY <2>2, <2>3
<1>11. EntryStays(c)'
  <2>1. SUFFICES ASSUME w.kind # "delete", EntryLock(w) \in held[c] \cup {l} PROVE SetsKey(w) /\ KeyHolders(w) = {}
    BY <1>1, <1>3, SameRowsSameEffect DEF EntryStays
  <2>2. CASE EntryLock(w) \in held[c]
    BY <1>1, <1>2, <2>1, <2>2 DEF CallInv, EntryStays
  <2>3. CASE l = EntryLock(w)
    <3>1. \A t, i, m : RowLock(t, i, m) # l
      BY <2>3, LocksDiffer
    <3>2. l \in Entry(w)
      BY <1>4, <1>7, <1>8, <3>1 DEF AllLocks
    <3> QED
      BY <1>2, <1>4, <1>8, <3>2, ObstacleAt
  <2> QED
    BY <2>1, <2>2, <2>3
<1>12. CompanyStays(c)'
  <2>1. SUFFICES ASSUME w.table = "employees", w.kind = "insert",
                        RowLock("companies", w.row.company, "key share") \in held[c] \cup {l}
                 PROVE  w.row.company \in Live(companies)
    BY <1>1, <1>3, SameRowsSameEffect DEF CompanyStays, RowLock
  <2>2. CASE RowLock("companies", w.row.company, "key share") \in held[c]
    BY <1>1, <1>2, <2>1, <2>2 DEF CallInv, CompanyStays
  <2>3. CASE l = RowLock("companies", w.row.company, "key share")
    <3>1. l \in CompanyRef(w)
      BY <2>1, <2>3 DEF CompanyRef
    <3> QED
      BY <1>2, <1>4, <3>1, ObstacleAt
  <2> QED
    BY <2>1, <2>2, <2>3
<1>13. UserStays(c)'
  <2>1. SUFFICES ASSUME w.table = "employees", w.kind # "delete",
                        RowLock("users", w.row.user, "key share") \in held[c] \cup {l}
                 PROVE  SetsUser(w) /\ w.row.user \in Live(users)
    BY <1>1, <1>3, SameRowsSameEffect DEF UserStays, RowLock
  <2>2. CASE RowLock("users", w.row.user, "key share") \in held[c]
    BY <1>1, <1>2, <2>1, <2>2 DEF CallInv, UserStays
  <2>3. CASE l = RowLock("users", w.row.user, "key share")
    <3>1. \A t, i, m, u, j, n : t # u => RowLock(t, i, m) # RowLock(u, j, n)
      BY LocksDiffer
    <3>2. \A t, i, m, v : RowLock(t, i, m) # EntryLock(v)
      BY LocksDiffer
    <3>3. l \in UserRef(w)
      BY <1>4, <1>5, <1>7, <1>8, <2>1, <2>3, <3>1, <3>2 DEF AllLocks
    <3> QED
      BY <1>2, <1>4, <1>8, <3>3, ObstacleAt
  <2> QED
    BY <2>1, <2>2, <2>3
<1>14. Complete(c)' /\ Lifecycle(c)'
  BY <1>1, <1>3 DEF CallInv, Complete, Pending, Lifecycle, Executing
<1>15. Fresh(c)' /\ Keeps(c)' /\ Waits(c)'
  BY <1>1, <1>2, <1>3, SameRowsSameEffect DEF CallInv, Executing, Pending, Fresh, Keeps, SetsOnly, Waits, Waiting
<1>19. Queued(c)'
  BY <1>3 DEF Queued, Waiting, Executing
<1>16. CallInv(c)'
  BY <1>9, <1>10, <1>11, <1>12, <1>13, <1>14, <1>15, <1>19 DEF CallInv
<1>17. ASSUME NEW d \in Call, d # c PROVE CallInv(d)'
  <2>1. /\ held'[d] = held[d] /\ want'[d] = want[d] /\ answer'[d] = answer[d] /\ pend'[d] = pend[d]
        /\ first'[d] = first[d]
    BY <1>1, <1>3, <1>17 DEF IInv
  <2> QED
    BY <1>1, <2>1, OthersStay
<1>18. /\ TablesTypeOK' /\ first' \in [Call -> BOOLEAN]
       /\ want' = [d \in Call |-> want'[d]] /\ held' = [d \in Call |-> held'[d]]
  BY <1>1 DEF TablesTypeOK, IInv
<1> QED
  BY <1>1, <1>6, <1>16, <1>17, <1>18 DEF IInv
LEMMA ObstacleType ==
  ASSUME IInv, NEW c \in Call, NEW l \in NextLocks(c)
  PROVE  Obstacle(c, l) \in Answer
<1>1. PICK w \in Write : w = stmt[c]
  BY StatementsFit DEF IInv
<1>2. l \in AllLocks(w)
  BY <1>1, PartByPart
<1> QED
  BY <1>1, <1>2, ObstacleAt DEF AllLocks, Answer

LEMMA TakeIInv ==
  ASSUME IInv, NEW c \in Call, Executing(c), NEW l \in NextLocks(c), Take(c, l)
  PROVE  IInv'
<1>1. CASE Blockers(c, l) # {}
  BY <1>1, WaitIInv DEF Take
<1>2. CASE Blockers(c, l) = {} /\ Obstacle(c, l) # "none"
  <2>1. Refuse(c, Obstacle(c, l))
    BY <1>2 DEF Take
  <2> QED
    BY <1>2, <2>1, ObstacleType, RefuseIInv
<1>3. CASE Blockers(c, l) = {} /\ Obstacle(c, l) = "none"
  BY <1>3, GrantIInv DEF Take
<1> QED
  BY <1>1, <1>2, <1>3

LEMMA NextIInv == IInv /\ [Next]_vars => IInv'
<1> SUFFICES ASSUME IInv, [Next]_vars PROVE IInv'
  OBVIOUS
<1>1. ASSUME NEW c \in Call, Proceed(c) PROVE IInv'
  <2>1. Executing(c)
    BY <1>1 DEF Proceed
  <2>2. CASE Finish(c)
    BY <2>1, <2>2, FinishIInv
  <2>3. ASSUME NEW l \in NextLocks(c), Take(c, l) PROVE IInv'
    BY <2>1, <2>3, TakeIInv
  <2> QED
    BY <1>1, <2>2, <2>3 DEF Proceed
<1>2. ASSUME NEW c \in Call, Detect(c) PROVE IInv'
  <2>1. Executing(c)
    BY <1>2 DEF Detect, WaitsFor, Waiting, IInv, CallInv, Lifecycle
  <2> QED
    BY <1>2, <2>1, RefuseIInv DEF Detect, Answer
<1>3. ASSUME NEW c \in Call, Commit(c) PROVE IInv'
  BY <1>3, CommitIInv
<1>4. CASE UNCHANGED vars
  <2>1. /\ UNCHANGED <<users, companies, employees, pend, stmt, held, want, first, answer>>
        /\ TablesTypeOK' /\ Exclusion'
    BY <1>4 DEF vars, tables, IInv, TablesTypeOK, Exclusion, Conflict
  <2>2. \A c \in Call : CallInv(c)'
    BY <2>1, OthersStay
  <2> QED
    BY <2>1, <2>2 DEF IInv
<1> QED
  BY <1>1, <1>2, <1>3, <1>4 DEF Next

LEMMA InitIInv == Init => IInv
<1> SUFFICES ASSUME Init PROVE IInv
  OBVIOUS
<1>1. PICK s \in Seed : users = s.users /\ companies = s.companies /\ employees = s.employees
  BY DEF Init
<1>2. /\ stmt \in Statements /\ stmt \in [Call -> Write] /\ Seed # {}
      /\ pend = [c \in Call |-> NoWrite] /\ held = [c \in Call |-> {}] /\ want = [c \in Call |-> NoLock]
      /\ first = [c \in Call |-> FALSE] /\ answer = [c \in Call |-> "none"]
  BY <1>1, LocksAssumption DEF Init
<1>3. TablesTypeOK /\ answer \in [Call -> Answer] /\ Exclusion
  BY <1>1, <1>2, LocksAssumption DEF TablesTypeOK, Answer, Exclusion
<1>4. Executable(stmt, s)
  BY <1>1, <1>2, LocksAssumption
<1>5. ASSUME NEW c \in Call PROVE CallInv(c)
  <2>1. PICK w \in Write : w = stmt[c]
    BY <1>2
  <2>2. Rows(w.table) = CASE w.table = "users" -> s.users
                          [] w.table = "companies" -> s.companies
                          [] w.table = "employees" -> s.employees
    BY <1>1 DEF Rows
  <2>3. Fresh(c)
    BY <1>4, <2>1, <2>2 DEF Fresh, Executable
  <2>4. Keeps(c)
    BY <1>4, <2>1, <2>2 DEF Keeps, Executable, Live
  <2>5. held[c] = {} /\ want[c] = NoLock /\ ~first[c] /\ ~Pending(c) /\ Executing(c)
    BY <1>2 DEF Pending, Executing
  <2>6. /\ HeldShape(c) /\ OwnRowStays(c) /\ EntryStays(c) /\ CompanyStays(c) /\ UserStays(c) /\ Waits(c)
        /\ Queued(c)
    BY <2>5 DEF HeldShape, OwnRowStays, EntryStays, CompanyStays, UserStays, Waits, Queued
  <2>7. Complete(c) /\ Lifecycle(c)
    BY <2>5 DEF Complete, Lifecycle
  <2> QED
    BY <2>3, <2>4, <2>6, <2>7 DEF CallInv
<1> QED
  BY <1>2, <1>3, <1>5 DEF IInv

THEOREM Inductive == Spec => []IInv
  BY InitIInv, NextIInv, PTL DEF Spec
-------------------------------------------------------------------------------
(* What follows.                                                               *)

\* Type correctness; and no lock outlives its transaction.
THEOREM TypeCorrect == Spec => []TypeOK
<1>1. IInv => TypeOK
  <2>1. SUFFICES ASSUME IInv PROVE TypeOK
    OBVIOUS
  <2>2. stmt \in [Call -> Write]
    BY <2>1, LocksAssumption DEF IInv
  <2>3. ASSUME NEW c \in Call, NEW h \in held[c] PROVE h.mode \in {"update", "no key update", "key share"}
    <3>1. HeldShape(c)
      BY <2>1 DEF IInv, CallInv
    <3>2. CASE h = EntryLock(stmt[c])
      <4>1. h.mode = "update"
        BY <3>2 DEF EntryLock
      <4> QED
        BY <4>1
    <3>3. CASE \E t, i, m : h = RowLock(t, i, m) /\ m \in Writing \cup {"key share"}
      <4>1. PICK t, i, m : h = RowLock(t, i, m) /\ m \in Writing \cup {"key share"}
        BY <3>3
      <4>2. h.mode = m
        BY <4>1 DEF RowLock
      <4> QED
        BY <4>1, <4>2 DEF Writing
    <3> QED
      BY <2>3, <3>1, <3>2, <3>3, RowOrEntry
  <2>4. ASSUME NEW c \in Call
        PROVE  /\ answer[c] \in Answer
               /\ first[c] \in BOOLEAN
               /\ ~Executing(c) => want[c] = NoLock /\ ~first[c]
               /\ ~Executing(c) /\ pend[c] = NoWrite => held[c] = {}
    BY <2>1, <2>4 DEF IInv, CallInv, Lifecycle, Pending, Queued
  <2> QED
    BY <2>1, <2>2, <2>3, <2>4 DEF TypeOK, IInv, Answer
<1> QED
  BY <1>1, Inductive, PTL
-------------------------------------------------------------------------------
(* Circles of waiting statements.                                             *)

\* Whoever c waits for is another call, which has a lock or is the first in the line
\* where c stands; the first in a line waits for those that have its row.
LEMMA WhoIsWaitedFor ==
  ASSUME IInv, NEW c \in Call, NEW d \in WaitsFor(c)
  PROVE  /\ d \in Call /\ d # c /\ Waiting(c)
         /\ held[d] # {} \/ (first[d] /\ want[d].what = want[c].what)
         /\ first[c] => \E h \in held[d] : h.what = want[c].what
<1>1. Waiting(c) /\ Queued(c)
  BY DEF WaitsFor, IInv, CallInv
<1>2. CASE IsRow(want[c]) /\ ~first[c]
  <2>1. d \in Ahead(c, want[c])
    BY <1>1, <1>2 DEF WaitsFor
  <2> QED
    BY <1>1, <1>2, <2>1 DEF Ahead
<1>3. CASE ~(IsRow(want[c]) /\ ~first[c])
  <2>1. d \in Blockers(c, want[c])
    BY <1>1, <1>3 DEF WaitsFor
  <2>2. d \in Call /\ d # c /\ held[d] # {}
    BY <2>1 DEF Blockers
  <2>3. IsRow(want[c]) => want[c] \notin Entry(stmt[c])
    BY DEF IsRow, Entry
  <2>4. first[c] => \E h \in held[d] : h.what = want[c].what
    BY <1>1, <2>1, <2>3 DEF Blockers, Queued
  <2> QED
    BY <1>1, <2>2, <2>4
<1> QED
  BY <1>2, <1>3

\* Those for whom c waits at some remove wait for none but such.
LEMMA ReachedIsClosed ==
  ASSUME IInv, NEW c \in Call
  PROVE  WaitsFor(c) \subseteq Reached(c) /\ \A d \in Reached(c) : WaitsFor(d) \subseteq Reached(c)
<1>1. \A d \in Call : WaitsFor(d) \subseteq Call
  BY WhoIsWaitedFor
<1> QED
  BY <1>1 DEF Reached

\* Everyone in a circle waits for somebody in it,
LEMMA CircleGoesOn ==
  ASSUME IInv, NEW c \in Call, InCircle(c), NEW d \in Circle(c)
  PROVE  \E e \in WaitsFor(d) : e \in Circle(c)
<1> DEFINE beyond == {x \in Call : \E e \in WaitsFor(d) : x = e \/ x \in Reached(e)}
<1>1. d \in Call /\ d \in Reached(c) /\ c \in Reached(d)
  BY DEF Circle, Reached
<1>2. \A x \in Call : WaitsFor(x) \subseteq Call
  BY WhoIsWaitedFor
<1>3. WaitsFor(d) \subseteq beyond
  BY <1>1, <1>2
<1>4. ASSUME NEW x \in beyond PROVE WaitsFor(x) \subseteq beyond
  <2>1. PICK e \in WaitsFor(d) : x = e \/ x \in Reached(e)
    BY <1>4
  <2>2. e \in Call /\ WaitsFor(x) \subseteq Reached(e)
    BY <1>1, <1>2, <2>1, ReachedIsClosed
  <2> QED
    BY <1>2, <1>4, <2>1, <2>2
<1>5. c \in beyond
  BY <1>1, <1>3, <1>4 DEF Reached
<1>6. PICK e \in WaitsFor(d) : c = e \/ c \in Reached(e)
  BY <1>5
<1>7. e \in Reached(c)
  BY <1>1, <1>6, ReachedIsClosed
<1>8. c \in Reached(e)
  BY <1>6 DEF InCircle
<1> QED
  BY <1>6, <1>7, <1>8 DEF Circle

\* and is waited for.
LEMMA SomebodyWaits ==
  ASSUME NEW c \in Call, InCircle(c)
  PROVE  \E d \in Call : c \in WaitsFor(d)
<1> DEFINE others == Call \ {c}
<1>1. SUFFICES ASSUME \A d \in Call : c \notin WaitsFor(d) PROVE FALSE
  OBVIOUS
<1>2. \A d \in Call : WaitsFor(d) \subseteq others
  BY <1>1 DEF WaitsFor, Ahead, Blockers
<1>3. others \in SUBSET Call /\ c \notin others
  OBVIOUS
<1> QED
  BY <1>2, <1>3 DEF InCircle, Reached

\* Two of a circle have locks.  A call without one is waited for as the first in a
\* line, by one that stands in the same line; it waits itself for one that has the
\* row, and that is not the one behind it.
LEMMA TwoHold ==
  ASSUME IInv, NEW c \in Call, InCircle(c)
  PROVE  \E d, e \in Circle(c) : d # e /\ held[d] # {} /\ held[e] # {}
<1>1. c \in Circle(c) /\ Circle(c) \subseteq Call
  BY DEF InCircle, Circle, Reached
<1>2. PICK h \in Circle(c) : held[h] # {}
  <2>1. PICK d \in WaitsFor(c) : d \in Circle(c)
    BY <1>1, CircleGoesOn
  <2>2. CASE held[d] # {}
    BY <2>1, <2>2
  <2>3. CASE held[d] = {}
    <3>1. first[d]
      BY <1>1, <2>1, <2>3, WhoIsWaitedFor
    <3>2. PICK e \in WaitsFor(d) : e \in Circle(c)
      BY <2>1, CircleGoesOn
    <3>3. held[e] # {}
      BY <1>1, <2>1, <3>1, <3>2, WhoIsWaitedFor
    <3> QED
      BY <3>2, <3>3
  <2> QED
    BY <2>2, <2>3
<1>3. PICK d \in WaitsFor(h) : d \in Circle(c)
  BY CircleGoesOn
<1>4. d # h /\ Waiting(h) /\ (held[d] # {} \/ (first[d] /\ want[d].what = want[h].what))
  BY <1>1, <1>3, WhoIsWaitedFor
<1>5. CASE held[d] # {}
  BY <1>2, <1>3, <1>4, <1>5
<1>6. CASE held[d] = {}
  <2>1. PICK e \in WaitsFor(d) : e \in Circle(c)
    BY <1>3, CircleGoesOn
  <2>2. PICK g \in held[e] : g.what = want[h].what
    BY <1>1, <1>3, <1>4, <1>6, <2>1, WhoIsWaitedFor
  <2>3. \A l \in held[h] : l.what # want[h].what
    BY <1>1, <1>4 DEF IInv, CallInv, Queued
  <2> QED
    BY <1>2, <2>1, <2>2, <2>3
<1> QED
  BY <1>5, <1>6

\* What the detector finds.
LEMMA VictimsOf ==
  ASSUME IInv, NEW c \in Call, Detect(c)
  PROVE  /\ stmt[c].kind = "insert" => stmt[c].table = "employees"
         /\ \E d, e \in Circle(c) : d # e /\ TakesSeveral(stmt[d]) /\ TakesSeveral(stmt[e])
<1>1. InCircle(c) /\ Waiting(c)
  BY DEF Detect, WaitsFor
<1>2. ASSUME NEW d \in Circle(c), held[d] # {} PROVE TakesSeveral(stmt[d])
  <2>1. d \in Call
    BY DEF Circle, Reached
  <2>2. Waiting(d)
    BY <1>1, <2>1, CircleGoesOn, WhoIsWaitedFor
  <2> QED
    BY <1>2, <2>1, <2>2 DEF IInv, CallInv, Waits
<1>3. \E d, e \in Circle(c) : d # e /\ TakesSeveral(stmt[d]) /\ TakesSeveral(stmt[e])
  BY <1>1, <1>2, TwoHold
<1>4. stmt[c].kind = "insert" => stmt[c].table = "employees"
  <2>1. held[c] # {} \/ first[c]
    BY <1>1, SomebodyWaits, WhoIsWaitedFor
  <2>2. CASE first[c]
    BY <2>2 DEF IInv, CallInv, Queued
  <2>3. CASE held[c] # {}
    BY <1>1, <2>3 DEF IInv, CallInv, Waits, TakesSeveral
  <2> QED
    BY <2>1, <2>2, <2>3
<1> QED
  BY <1>3, <1>4

\* Every circle has two statements that take several locks, however many stand in
\* line for one row; and nobody has to give up the creation of a user or a company.
THEOREM ItTakesTwo == Spec => DeadlocksTakeTwo
<1>1. ASSUME IInv, [Next]_vars, NEW c \in Call, answer'[c] # answer[c], answer'[c] = "40P01"
      PROVE  Detect(c)
  <2>1. answer \in [Call -> Answer]
    BY <1>1 DEF IInv
  <2>3. ASSUME NEW d \in Call, d # c, Detect(d) PROVE FALSE
    BY <1>1, <2>1, <2>3 DEF Detect, Refuse
  <2>4. ASSUME NEW d \in Call, Commit(d) PROVE FALSE
    BY <1>1, <2>4 DEF Commit
  <2>5. ASSUME NEW d \in Call, Finish(d) PROVE FALSE
    BY <1>1, <2>1, <2>5 DEF Finish
  <2>6. ASSUME NEW d \in Call, NEW l \in NextLocks(d), Take(d, l) PROVE FALSE
    <3>1. PICK w \in Write : w = stmt[d]
      BY <1>1, StatementsFit DEF IInv
    <3>2. l \in AllLocks(w)
      BY <2>6, <3>1, PartByPart
    <3>3. Obstacle(d, l) # "40P01"
      BY <3>1, <3>2, ObstacleAt DEF AllLocks
    <3>4. answer' = answer \/ answer' = [answer EXCEPT ![d] = Obstacle(d, l)]
      BY <2>6 DEF Take, Wait, Refuse
    <3> QED
      BY <1>1, <2>1, <3>3, <3>4
  <2>7. CASE UNCHANGED vars
    BY <1>1, <2>7 DEF vars
  <2> QED
    BY <1>1, <2>3, <2>4, <2>5, <2>6, <2>7 DEF Next, Proceed
<1>2. IInv /\ [Next]_vars => [\A c \in Call : answer'[c] # answer[c] /\ answer'[c] = "40P01" =>
          /\ stmt[c].kind = "insert" => stmt[c].table = "employees"
          /\ \E d, e \in Circle(c) : d # e /\ TakesSeveral(stmt[d]) /\ TakesSeveral(stmt[e])]_vars
  BY <1>1, VictimsOf
<1> QED
  BY <1>2, Inductive, PTL DEF Spec, DeadlocksTakeTwo
-------------------------------------------------------------------------------
(* Statements are atomic.                                                      *)

\* A finished statement need not wait for any executed write.
LEMMA NeedNotWait ==
  ASSUME IInv, NEW c \in Call, Executing(c), NEW w \in Write, w = stmt[c], AllLocks(w) \subseteq held[c]
  PROVE  ~MustWait(c, w)
<1>1. SUFFICES ASSUME NEW d \in Call, d # c, Pending(d),
                      \/ SameRow(pend[d], w) \/ SameKey(pend[d], w)
                      \/ Referenced(pend[d], w) \/ Referring(pend[d], w)
               PROVE  FALSE
  BY DEF MustWait, Pending
<1>2. TablesTypeOK /\ Exclusion /\ CallInv(c) /\ CallInv(d) /\ pend[d] = stmt[d] /\ AllLocks(stmt[d]) \subseteq held[d]
  BY <1>1 DEF IInv, CallInv, Complete
<1>3. PICK v \in Write : v = stmt[d]
  BY StatementsFit DEF IInv
<1>4. /\ v.kind \in {"insert", "update", "delete"} /\ v.table \in {"users", "companies", "employees"}
      /\ w.kind \in {"insert", "update", "delete"} /\ w.table \in {"users", "companies", "employees"}
  BY WriteType
<1>5. /\ v.kind = "insert" => Rows(v.table)[v.id] = Unborn
      /\ v.kind # "insert" => v.id \in Live(Rows(v.table))
      /\ w.kind = "insert" => Rows(w.table)[w.id] = Unborn
      /\ w.kind # "insert" => w.id \in Live(Rows(w.table))
  BY <1>1, <1>2, <1>3, AllLocksHeld DEF CallInv, Fresh, OwnRowStays, Has
<1>6. \A t, i : i \in Live(Rows(t)) => Rows(t)[i] # Unborn
  BY DEF Live, NotLive
\* The locks of the two on one row exclude each other, unless one is for a reference.
<1>7. ASSUME NEW t, NEW i PROVE ~(Has(c, t, i, "update") /\ Has(d, t, i, "update"))
  BY <1>1, <1>2, RowsExclude DEF Conflict
<1>8. ASSUME NEW t, NEW i PROVE ~(Has(c, t, i, "update") /\ Has(d, t, i, "no key update"))
  BY <1>1, <1>2, RowsExclude DEF Conflict
<1>9. ASSUME NEW t, NEW i PROVE ~(Has(c, t, i, "no key update") /\ Has(d, t, i, "update"))
  BY <1>1, <1>2, RowsExclude DEF Conflict
<1>10. ASSUME NEW t, NEW i PROVE ~(Has(c, t, i, "no key update") /\ Has(d, t, i, "no key update"))
  BY <1>1, <1>2, RowsExclude DEF Conflict
<1>11. ASSUME NEW t, NEW i PROVE ~(Has(c, t, i, "update") /\ Has(d, t, i, "key share"))
  BY <1>1, <1>2, RowsExclude DEF Conflict
<1>12. ASSUME NEW t, NEW i PROVE ~(Has(c, t, i, "key share") /\ Has(d, t, i, "update"))
  BY <1>1, <1>2, RowsExclude DEF Conflict
<1>13. ~(v.kind # "insert" /\ w.kind # "insert" /\ v.table = w.table /\ v.id = w.id)
  BY <1>2, <1>3, <1>7, <1>8, <1>9, <1>10, AllLocksHeld
<1>14. ~(v.kind = "delete" /\ v.table = "companies" /\ w.kind # "insert" /\ w.table = "employees" /\ w.id \in EmployeesOf(v.id))
  <2>1. SUFFICES ASSUME v.kind = "delete", v.table = "companies", w.kind # "insert", w.table = "employees",
                        w.id \in EmployeesOf(v.id)
                 PROVE  FALSE
    OBVIOUS
  <2>2. Has(d, "employees", w.id, "update")
    BY <1>2, <1>3, <2>1, AllLocksHeld
  <2>3. Has(c, "employees", w.id, "update") \/ Has(c, "employees", w.id, "no key update")
    BY <2>1, AllLocksHeld
  <2> QED
    BY <1>7, <1>9, <2>2, <2>3
<1>15. ~(w.kind = "delete" /\ w.table = "companies" /\ v.kind # "insert" /\ v.table = "employees" /\ v.id \in EmployeesOf(w.id))
  <2>1. SUFFICES ASSUME w.kind = "delete", w.table = "companies", v.kind # "insert", v.table = "employees",
                        v.id \in EmployeesOf(w.id)
                 PROVE  FALSE
    OBVIOUS
  <2>2. Has(c, "employees", v.id, "update")
    BY <2>1, AllLocksHeld
  <2>3. Has(d, "employees", v.id, "update") \/ Has(d, "employees", v.id, "no key update")
    BY <1>2, <1>3, <2>1, AllLocksHeld
  <2> QED
    BY <1>7, <1>8, <2>2, <2>3
<1>16. ~SameRow(v, w)
  BY <1>4, <1>13, <1>14 DEF SameRow, Removes
<1>17. ~SameKey(v, w)
  <2>1. SUFFICES ASSUME SetsKey(w), SameKey(v, w) PROVE FALSE
    BY DEF SameKey
  <2>2. EntryLock(w) \in held[c] /\ w.kind # "delete"
    BY <2>1, AllLocksHeld DEF SetsKey
  <2>3. KeyHolders(w) = {}
    BY <1>2, <2>2 DEF CallInv, EntryStays
  <2>4. v.table = w.table /\ v.kind # "delete" /\ UniqueKey(v.table, v.row) = UniqueKey(w.table, w.row)
    BY <2>1, <2>3 DEF SameKey
  <2>5. ~SetsKey(v)
    BY <1>1, <1>2, <1>3, <2>2, <2>4, AllLocksHeld, EntriesExclude
  <2>6. /\ v.kind = "update" /\ v.id \in Live(Rows(v.table))
        /\ UniqueKey(v.table, v.row) = UniqueKey(v.table, Rows(v.table)[v.id])
    BY <1>4, <1>5, <2>4, <2>5 DEF SetsKey
  <2>7. v.id # w.id
    BY <1>4, <1>5, <1>6, <1>13, <2>4, <2>6
  <2> QED
    BY <2>3, <2>4, <2>6, <2>7 DEF KeyHolders
<1>18. ~Referenced(v, w)
  <2>1. ~(SetsUser(w) /\ Removes(v, "users", w.row.user))
    BY <1>2, <1>3, <1>12, AllLocksHeld DEF Removes
  <2>2. ASSUME w.table = "employees", w.kind = "insert", v.table = "companies", v.id = w.row.company,
               v.kind = "delete" \/ SetsKey(v)
        PROVE  FALSE
    <3>1. Has(c, "companies", w.row.company, "key share")
      BY <2>2, AllLocksHeld
    <3>2. w.row.company \in Live(companies)
      BY <1>2, <2>2, <3>1 DEF CallInv, CompanyStays, Has
    <3>3. v.kind # "insert"
      BY <1>5, <1>6, <2>2, <3>2 DEF Rows
    <3> QED
      BY <1>2, <1>3, <1>12, <2>2, <3>1, <3>3, AllLocksHeld
  <2> QED
    BY <2>1, <2>2 DEF Referenced
<1>19. ~Referring(v, w)
  <2>1. ASSUME w.table = "users", w.kind = "delete" PROVE EmployeesBeing(w.id) = {}
    <3>1. \A e \in EmployeesBeing(w.id) : Has(c, "employees", e, "key share")
      BY <2>1, AllLocksHeld
    <3>2. \A e : ~Has(c, "employees", e, "key share")
      <4>1. SUFFICES ASSUME NEW e, Has(c, "employees", e, "key share") PROVE FALSE
        OBVIOUS
      <4>2. PICK m : RowLock("employees", e, "key share") = RowLock("users", w.id, m)
        BY <1>2, <2>1, <4>1 DEF CallInv, HeldShape, Has
      <4>3. \A t, i, k, u, j, n : t # u => RowLock(t, i, k) # RowLock(u, j, n)
        BY LocksDiffer
      <4> QED
        BY <4>2, <4>3
    <3> QED
      BY <3>1, <3>2
  <2>2. ~(w.table = "users" /\ w.kind = "delete" /\ SetsUser(v) /\ v.row.user = w.id)
    BY <1>2, <1>3, <1>11, AllLocksHeld
  <2>3. ASSUME w.table = "companies", w.kind = "delete" \/ SetsKey(w),
               v.table = "employees", v.kind = "insert", v.row.company = w.id
        PROVE  FALSE
    <3>1. Has(d, "companies", w.id, "key share")
      BY <1>2, <1>3, <2>3, AllLocksHeld
    <3>2. w.id \in Live(companies)
      BY <1>2, <1>3, <2>3, <3>1 DEF CallInv, CompanyStays, Has
    <3>3. w.kind # "insert"
      BY <1>5, <1>6, <2>3, <3>2 DEF Rows
    <3> QED
      BY <1>11, <2>3, <3>1, <3>3, AllLocksHeld
  <2>4. ASSUME w.table = "companies", w.kind = "delete", v.table = "employees", v.id \in EmployeesOf(w.id)
        PROVE  FALSE
    <3>1. v.id \in Live(employees)
      BY <2>4 DEF EmployeesOf
    <3>2. v.kind # "insert"
      BY <1>5, <1>6, <2>4, <3>1 DEF Rows
    <3> QED
      BY <1>15, <2>4, <3>2
  <2> QED
    BY <2>1, <2>2, <2>3, <2>4 DEF Referring
<1> QED
  BY <1>1, <1>2, <1>3, <1>16, <1>17, <1>18, <1>19
\* What the database answers to a statement that it tests all at once.
LEMMA AnswersAre ==
  ASSUME NEW w \in Write, Exists(w), w.table = "employees" /\ w.kind # "delete" => PeriodOK(w.row)
  PROVE  /\ SetsKey(w) /\ KeyHolders(w) # {} => "23505" \in Answers(w)
         /\ (SetsKey(w) => KeyHolders(w) = {}) => /\ BrokenReferences(w) \subseteq Answers(w)
                                                  /\ BrokenReferences(w) = {} => "ok" \in Answers(w)
<1>1. Answers(w) = IF SetsKey(w) /\ KeyHolders(w) # {} THEN {"23505"}
                   ELSE IF BrokenReferences(w) # {} THEN BrokenReferences(w) ELSE {"ok"}
  BY DEF Answers
<1> QED
  BY <1>1

\* With all its locks a statement would succeed at once,
LEMMA SucceedsAtOnce ==
  ASSUME IInv, NEW c \in Call, NEW w \in Write, w = stmt[c], AllLocks(w) \subseteq held[c]
  PROVE  "ok" \in Answers(w)
<1>1. CallInv(c) /\ (w.table = "employees" /\ w.kind # "delete" => PeriodOK(w.row))
  BY StatementsFit DEF IInv
<1>2. w.kind \in {"insert", "update", "delete"}
  BY WriteType
<1>3. Exists(w)
  BY <1>1, AllLocksHeld DEF CallInv, OwnRowStays, Has, Exists
<1>4. SetsKey(w) => KeyHolders(w) = {}
  <2>1. SetsKey(w) => w.kind # "delete"
    BY DEF SetsKey
  <2> QED
    BY <1>1, <2>1, AllLocksHeld DEF CallInv, EntryStays
<1>5. w.table = "employees" /\ w.kind = "insert" => w.row.company \in Live(companies)
  BY <1>1, AllLocksHeld DEF CallInv, CompanyStays, Has
<1>6. SetsUser(w) => w.row.user \in Live(users)
  <2>1. SetsUser(w) => w.table = "employees" /\ w.kind # "delete"
    BY DEF SetsUser
  <2> QED
    BY <1>1, <2>1, AllLocksHeld DEF CallInv, UserStays, Has
<1>7. w.table = "users" /\ w.kind = "delete" => EmployeesBeing(w.id) = {}
  <2>1. SUFFICES ASSUME w.table = "users", w.kind = "delete", NEW e \in EmployeesBeing(w.id) PROVE FALSE
    OBVIOUS
  <2>2. RowLock("employees", e, "key share") \in held[c]
    BY <2>1, AllLocksHeld DEF Has
  <2>3. PICK m : RowLock("employees", e, "key share") = RowLock("users", w.id, m)
    BY <1>1, <2>1, <2>2 DEF CallInv, HeldShape
  <2>4. \A t, i, k, u, j, n : t # u => RowLock(t, i, k) # RowLock(u, j, n)
    BY LocksDiffer
  <2> QED
    BY <2>3, <2>4
<1>8. BrokenReferences(w) = {}
  BY <1>5, <1>6, <1>7 DEF BrokenReferences
<1> QED
  BY <1>1, <1>3, <1>4, <1>8, AnswersAre

\* and what it has come upon would refuse it at once.
LEMMA RefusedAtOnce ==
  ASSUME IInv, NEW c \in Call, NEW l \in NextLocks(c), Obstacle(c, l) # "none",
         NEW w \in Write, w = stmt[c]
  PROVE  Obstacle(c, l) \in Answers(w)
<1>1. CallInv(c) /\ (w.table = "employees" /\ w.kind # "delete" => PeriodOK(w.row))
  BY StatementsFit DEF IInv
<1>2. w.kind \in {"insert", "update", "delete"} /\ w.table \in {"users", "companies", "employees"}
  BY WriteType
<1>3. /\ l \in AllLocks(w)
      /\ l \notin OwnRow(w) => OwnRow(w) \subseteq held[c]
      /\ l \notin OwnRow(w) \cup Entry(w) => Entry(w) \subseteq held[c]
  BY PartByPart
<1>4. CASE l \in OwnRow(w)
  <2>1. ~Exists(w) /\ Obstacle(c, l) = "no rows"
    BY <1>3, <1>4, ObstacleAt
  <2> QED
    BY <2>1 DEF Answers
<1>5. CASE l \in Entry(w)
  <2>1. KeyHolders(w) # {} /\ Obstacle(c, l) = "23505"
    BY <1>3, <1>5, ObstacleAt
  <2>2. SetsKey(w)
    BY <1>5 DEF Entry
  <2>3. Exists(w)
    BY <2>2 DEF SetsKey, Exists
  <2> QED
    BY <1>1, <2>1, <2>2, <2>3, AnswersAre
<1>6. CASE l \notin OwnRow(w) \cup Entry(w)
  <2>1. SetsKey(w) => KeyHolders(w) = {}
    <3>1. SetsKey(w) => EntryLock(w) \in held[c] /\ w.kind # "delete"
      BY <1>3, <1>6 DEF Entry, EntryLock, SetsKey
    <3> QED
      BY <1>1, <3>1 DEF CallInv, EntryStays
  <2>2. Exists(w)
    <3>1. w.kind # "insert" => OwnRow(w) # {}
      BY <1>2 DEF OwnRow
    <3>2. w.kind # "insert" => held[c] # {}
      BY <1>3, <1>6, <3>1
    <3> QED
      BY <1>1, <3>2 DEF CallInv, OwnRowStays, Exists
  <2>3. CASE l \in CompanyRef(w)
    <3>1. w.row.company \notin Live(companies) /\ Obstacle(c, l) = "employees_company_id_fkey"
      BY <1>3, <2>3, ObstacleAt
    <3>2. w.table = "employees" /\ w.kind = "insert"
      BY <2>3 DEF CompanyRef
    <3> QED
      BY <1>1, <2>1, <2>2, <3>1, <3>2, AnswersAre DEF BrokenReferences
  <2>4. CASE l \in UserRef(w)
    <3>1. w.row.user \notin Live(users) /\ Obstacle(c, l) = "employees_user_id_fkey"
      BY <1>3, <2>4, ObstacleAt
    <3>2. SetsUser(w)
      BY <2>4 DEF UserRef
    <3> QED
      BY <1>1, <2>1, <2>2, <3>1, <3>2, AnswersAre DEF BrokenReferences
  <2>5. CASE l \in Referrers(w)
    <3>1. w.table = "users" /\ Obstacle(c, l) = "employees_user_id_fkey"
      BY <1>3, <2>5, ObstacleAt
    <3>2. w.kind = "delete" /\ EmployeesBeing(w.id) # {}
      BY <2>5, <3>1 DEF Referrers
    <3> QED
      BY <1>1, <2>1, <2>2, <3>1, <3>2, AnswersAre DEF BrokenReferences
  <2> QED
    BY <1>3, <1>6, <2>3, <2>4, <2>5 DEF AllLocks
<1> QED
  BY <1>4, <1>5, <1>6

\* A statement that takes its locks one after the other is answered as if it had
\* taken them at once, at the moment of the answer.
THEOREM StatementsAtomic == Spec => StatementsAreAtomic
<1>1. ASSUME IInv, [Next]_vars, NEW c \in Call PROVE Answered(c)
  <2>1. SUFFICES ASSUME answer'[c] # answer[c]
                 PROVE  \/ answer'[c] = "40P01"
                        \/ /\ answer'[c] \in Answers(stmt[c])
                           /\ answer'[c] = "ok" => ~MustWait(c, stmt[c])
    BY DEF Answered
  <2>2. answer \in [Call -> Answer] /\ stmt[c] \in Write
    BY <1>1, StatementsFit DEF IInv
  <2>3. CASE Detect(c)
    BY <2>2, <2>3 DEF Detect, Refuse
  <2>4. CASE Executing(c) /\ Finish(c)
    <3>1. answer'[c] = "ok" /\ AllLocks(stmt[c]) \subseteq held[c]
      BY <2>2, <2>4, PartByPart DEF Finish
    <3> QED
      BY <1>1, <2>2, <2>4, <3>1, SucceedsAtOnce, NeedNotWait
  <2>5. ASSUME NEW l \in NextLocks(c), Take(c, l)
        PROVE  answer'[c] = Obstacle(c, l) /\ answer'[c] \in Answers(stmt[c]) /\ answer'[c] # "ok"
    <3>1. Obstacle(c, l) # "none" /\ answer'[c] = Obstacle(c, l)
      BY <2>1, <2>2, <2>5 DEF Take, Wait, Refuse
    <3>2. Obstacle(c, l) \in Answers(stmt[c])
      BY <1>1, <2>2, <3>1, RefusedAtOnce
    <3>3. PICK w \in Write : w = stmt[c]
      BY <2>2
    <3>4. l \in AllLocks(w)
      BY <3>3, PartByPart
    <3>5. Obstacle(c, l) # "ok"
      BY <3>3, <3>4, ObstacleAt DEF AllLocks
    <3> QED
      BY <3>1, <3>2, <3>5
  <2>6. ASSUME NEW d \in Call, d # c, Proceed(d) \/ Detect(d) PROVE FALSE
    BY <2>1, <2>2, <2>6 DEF Proceed, Detect, Finish, Take, Wait, Refuse
  <2>7. ASSUME NEW d \in Call, Commit(d) PROVE FALSE
    BY <2>1, <2>7 DEF Commit
  <2>8. CASE UNCHANGED vars
    BY <2>1, <2>8 DEF vars
  <2>9. CASE Proceed(c)
    BY <2>4, <2>5, <2>9 DEF Proceed
  <2> QED
    BY <1>1, <2>3, <2>6, <2>7, <2>8, <2>9 DEF Next
<1>2. IInv /\ [Next]_vars => [\A c \in Call : Answered(c)]_vars
  BY <1>1
<1> QED
  BY <1>2, Inductive, PTL DEF Spec, StatementsAreAtomic
===============================================================================
