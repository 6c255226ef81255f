--------------------------------- MODULE Paging ---------------------------------
(* ListUsers, ListCompanies and ListEmployees: a client walks over the pages of*)
(* a list, from any offset and with any page size, while rows are created,     *)
(* deleted and change their status.  Each page is one SELECT ... ORDER BY      *)
(* created_at DESC, id DESC LIMIT limit+1 OFFSET offset on a snapshot of its   *)
(* own; the page token is the next offset.  The three lists share one module:  *)
(* the company that ListEmployees requires selects a table within the table.   *)
EXTENDS Integers, FiniteSets

CONSTANTS Id,                      \* ids, in the order of their UUIDs
          Time,                    \* values of created_at
          DefaultSize, MaxSize,    \* 50 and 200 in the code
          MaxChange,               \* bound: changes of the table during the walk
          Unborn, Gone,            \* a row not created yet; a deleted row
          Unset                    \* no filter

Status == {"active", "inactive"}
Row == [created : Time, status : Status]
NotLive == {Unborn, Gone}

ASSUME PagingAssumption ==
    /\ Id \subseteq Int /\ IsFiniteSet(Id)
    /\ Time \subseteq Int
    /\ MaxSize \in Nat \ {0} /\ DefaultSize \in 1..MaxSize
    /\ MaxChange \in Nat
    /\ NotLive \cap Row = {}
    /\ Unset \notin Status

VARIABLES rows,                    \* the committed table
          service, filter,         \* which list, which status
          phase,                   \* of the walk: "idle", "walking", "done"
          token,                   \* the next_page_token to send
          answer,                  \* to the last request
          asked,                   \* flips with every page: asking again is a step
          start,                   \* rows the walk set out to list
          seen,                    \* rows delivered so far
          repeats,                 \* deliveries of rows delivered before
          added, removed           \* rows that joined or left the list meanwhile

walk == <<phase, token, answer, asked, start, seen, repeats>>
vars == <<rows, service, filter, walk, added, removed>>

TypeOK == /\ rows \in [Id -> Row \cup NotLive]
          /\ service \in {"users", "companies", "employees"}
          /\ filter \in Status \cup {Unset}
          /\ phase \in {"idle", "walking", "done"}
          /\ token \in Nat
          /\ answer \in {"none", "page", "ErrInvalidPageSize", "ErrInvalidPageToken"}
          /\ asked \in BOOLEAN
          /\ start \subseteq Id /\ seen \subseteq Id
          /\ repeats \in Nat /\ added \in Nat /\ removed \in Nat

\* The table may be anything when the walk begins.
Init == /\ rows \in [Id -> Row \cup {Unborn}]
        /\ service \in {"users", "companies", "employees"}
        /\ filter \in {Unset, "active"}
        /\ phase = "idle" /\ token = 0 /\ answer = "none" /\ asked = FALSE
        /\ start = {} /\ seen = {}
        /\ repeats = 0 /\ added = 0 /\ removed = 0

-------------------------------------------------------------------------------
\* The query.
Matches(row) == row \notin NotLive /\ (filter = Unset \/ row.status = filter)

Listed == {i \in Id : Matches(rows[i])}

Before(i, j) == \/ rows[i].created > rows[j].created
                \/ rows[i].created = rows[j].created /\ i > j

Rank(i) == Cardinality({j \in Listed : Before(j, i)})

\* How many rows LIMIT limit+1 OFFSET offset finds.
Fetched(offset, limit) ==
    LET rest == Cardinality(Listed) - offset
    IN IF rest <= 0 THEN 0 ELSE IF rest > limit + 1 THEN limit + 1 ELSE rest

\* Mistake: the row that was fetched to see whether there are more is returned.
UntrimmedPage(offset, limit) == {i \in Listed : Rank(i) \in offset..(offset + limit)}

\* The rows returned, the one in excess cut off.
Page(offset, limit) == {i \in Listed : Rank(i) \in offset..(offset + limit - 1)}

\* Mistake: a full page is taken for a sign of another one.
FullPageHasNext(offset, limit) == Fetched(offset, limit) >= limit

\* ListEmployees tests for the exact number of rows.
HasNext(offset, limit) == IF service = "employees" THEN Fetched(offset, limit) = limit + 1
                          ELSE Fetched(offset, limit) > limit

\* Mistake: the row in excess is skipped.
TokenPastExcess(offset, limit) == offset + limit + 1

NextToken(offset, limit) == offset + limit

-------------------------------------------------------------------------------
\* Mistake: only a negative size stands for the default.
NegativeIsDefault(size) == IF size < 0 THEN DefaultSize ELSE size

normalizePageSize(size) == IF size <= 0 THEN DefaultSize ELSE size

ListError(size, tok) == IF size > MaxSize THEN "ErrInvalidPageSize"
                        ELSE IF tok < 0 THEN "ErrInvalidPageToken" ELSE "nil"

RequestSize == -1..(MaxSize + 1)
BadToken == -1                     \* negative, or no number

List(tok, size) ==
    /\ ListError(size, tok) = "nil"
    /\ LET limit == normalizePageSize(size) IN
       /\ seen' = seen \cup Page(tok, limit)
       /\ repeats' = repeats + Cardinality(seen \cap Page(tok, limit))
       /\ IF HasNext(tok, limit)
            THEN phase' = "walking" /\ token' = NextToken(tok, limit)
            ELSE phase' = "done" /\ UNCHANGED token
    /\ answer' = "page" /\ asked' = ~asked
    /\ UNCHANGED <<rows, service, filter, added, removed>>

\* The first request may name any offset; an empty token is offset 0.
FirstPage == /\ phase = "idle"
             /\ \E tok \in 0..Cardinality(Id), size \in RequestSize :
                   /\ start' = {i \in Listed : Rank(i) >= tok}
                   /\ List(tok, size)

NextPage == /\ phase = "walking"
            /\ \E size \in RequestSize : List(token, size)
            /\ UNCHANGED start

Refuse == /\ phase # "done"
          /\ \E tok \in {token, BadToken}, size \in RequestSize :
                /\ ListError(size, tok) # "nil"
                /\ answer' = ListError(size, tok)
          /\ UNCHANGED <<rows, service, filter, phase, token, asked, start, seen, repeats, added, removed>>

-------------------------------------------------------------------------------
\* What other RPCs commit between two pages.
Changes(i, row) ==
    /\ phase = "walking" /\ added + removed < MaxChange
    /\ rows' = [rows EXCEPT ![i] = row]
    /\ added' = added + (IF Matches(row) /\ ~Matches(rows[i]) THEN 1 ELSE 0)
    /\ removed' = removed + (IF Matches(rows[i]) /\ ~Matches(row) THEN 1 ELSE 0)
    /\ UNCHANGED <<service, filter, walk>>

\* created_at is read from the clock before the INSERT, so the new row may come
\* anywhere in the order.  Only CreateEmployee takes a status.
Create(i) == /\ rows[i] = Unborn
             /\ \E row \in Row : /\ service # "employees" => row.status = "active"
                                 /\ Changes(i, row)

Delete(i) == rows[i] \notin NotLive /\ Changes(i, Gone)

\* Mistake: UNSPECIFIED, which a request may hold, is stored.
UpdateUnspecified(i) == /\ rows[i] \notin NotLive
                        /\ \E s \in Status \cup {Unset} : Changes(i, [rows[i] EXCEPT !.status = s])

\* No update changes created_at.
Update(i) == /\ rows[i] \notin NotLive
             /\ \E s \in Status : Changes(i, [rows[i] EXCEPT !.status = s])

\* The company whose employees are listed is deleted: ON DELETE CASCADE, and no
\* other employee can join it.
DeleteCompany == /\ service = "employees"
                 /\ phase = "walking" /\ added + removed < MaxChange
                 /\ rows' = [i \in Id |-> Gone]
                 /\ removed' = removed + Cardinality(Listed)
                 /\ UNCHANGED <<service, filter, walk, added>>

Next == \/ FirstPage \/ NextPage \/ Refuse \/ DeleteCompany
        \/ \E i \in Id : Create(i) \/ Delete(i) \/ Update(i)

Spec == Init /\ [][Next]_vars

\* The client goes on asking.
FairSpec == Spec /\ WF_vars(NextPage)
-------------------------------------------------------------------------------
\* A row is delivered again by a later page only because another one joined the
\* list before it: OFFSET pagination repeats no more rows than were added, and
\* none on a table that only shrinks.
RepeatsBounded == repeats <= added

\* A row that was listed when the walk began is missed by OFFSET pagination only
\* because another one left the list before it: at the end of the walk no more rows are missing than
\* were removed, none on a table that only grows.
SkipsBounded == phase = "done" => Cardinality({i \in start : i \in Listed} \ seen) <= removed

\* The next_page_token of List is an offset inside the list it was computed from, so the page it asks
\* for is not empty unless the list has shrunk, and Offset+Limit cannot overflow
\* whatever number a client sends as a token.
TokenInList == [][phase' = "walking" /\ (phase = "idle" \/ token' # token)
                     => token' < Cardinality(Listed)]_vars

\* A walk over the pages of List ends, once the table no longer grows: no page,
\* whatever size is asked for, leads to itself or back.
WalkEnds == phase = "walking" ~> phase = "done"
===============================================================================
