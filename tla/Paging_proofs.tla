------------------------------ MODULE Paging_proofs ------------------------------
(* Proofs about Paging, for tables, page sizes and numbers of changes of any   *)
(* size.                                                                       *)
EXTENDS Paging, FiniteSetTheorems, TLAPS

\* A set of rows is finite, and so are its parts.
LEMMA FinitePart == ASSUME NEW S \in SUBSET Id
                    PROVE  IsFiniteSet(S) /\ Cardinality(S) \in Nat
  BY PagingAssumption, FS_Subset, FS_CardinalityType

\* The rows of the list can be counted.
LEMMA ListedFinite == Cardinality(Listed) \in Nat
  BY FinitePart DEF Listed

\* A page size that is accepted becomes a positive limit.
LEMMA LimitPositive ==
  ASSUME NEW size \in Int
  PROVE  normalizePageSize(size) \in Nat \ {0}
  BY PagingAssumption DEF normalizePageSize

\* There is a next page only if there is a row for it to begin with, whichever
\* test the service makes.
LEMMA NextTokenInList ==
  ASSUME NEW tok \in Nat, NEW limit \in Nat \ {0}, HasNext(tok, limit)
  PROVE  NextToken(tok, limit) \in Nat /\ NextToken(tok, limit) < Cardinality(Listed)
<1> DEFINE rest == Cardinality(Listed) - tok
<1>1. rest \in Int
  BY ListedFinite
<1>2. Fetched(tok, limit) > limit
  <2>1. Fetched(tok, limit) = IF rest <= 0 THEN 0 ELSE IF rest > limit + 1 THEN limit + 1 ELSE rest
    BY DEF Fetched
  <2> QED
    BY <2>1, <1>1 DEF HasNext
<1>3. rest > limit
  BY <1>1, <1>2 DEF Fetched
<1> QED
  BY <1>3, ListedFinite DEF NextToken

\* What List answers has its type.
LEMMA ListTypeOK ==
  ASSUME TypeOK, NEW tok \in Nat, NEW size \in Int, List(tok, size)
  PROVE  /\ phase' \in {"walking", "done"} /\ token' \in Nat
         /\ answer' = "page" /\ asked' \in BOOLEAN
         /\ seen' \in SUBSET Id /\ repeats' \in Nat
         /\ UNCHANGED <<rows, service, filter, added, removed>>
<1> DEFINE limit == normalizePageSize(size)
<1>1. limit \in Nat \ {0}
  BY LimitPositive
<1>2. Page(tok, limit) \subseteq Id
  BY DEF Page, Listed
<1>3. /\ seen' = seen \cup Page(tok, limit)
      /\ repeats' = repeats + Cardinality(seen \cap Page(tok, limit))
      /\ IF HasNext(tok, limit) THEN phase' = "walking" /\ token' = NextToken(tok, limit)
         ELSE phase' = "done" /\ UNCHANGED token
      /\ answer' = "page" /\ asked' = ~asked
      /\ UNCHANGED <<rows, service, filter, added, removed>>
  BY DEF List
<1>4. Cardinality(seen \cap Page(tok, limit)) \in Nat
  BY <1>2, FinitePart
<1>5. seen' \in SUBSET Id /\ repeats' \in Nat
  BY <1>2, <1>3, <1>4 DEF TypeOK
<1>6. phase' \in {"walking", "done"} /\ token' \in Nat
  BY <1>1, <1>3, NextTokenInList DEF TypeOK
<1> QED
  BY <1>3, <1>5, <1>6 DEF TypeOK

-------------------------------------------------------------------------------
\* The type invariant holds at first,
LEMMA InitTypeOK == Init => TypeOK
<1> SUFFICES ASSUME Init PROVE TypeOK
  OBVIOUS
<1>1. rows \in [Id -> Row \cup NotLive] /\ filter \in Status \cup {Unset}
  BY DEF Init, NotLive, Status
<1>2. asked \in BOOLEAN
  BY DEF Init
<1> QED
  BY <1>1, <1>2 DEF Init, TypeOK

\* and each step preserves it.
LEMMA NextTypeOK == TypeOK /\ [Next]_vars => TypeOK'
<1> SUFFICES ASSUME TypeOK, [Next]_vars PROVE TypeOK'
  OBVIOUS
<1>1. ASSUME NEW tok \in Nat, NEW size \in Int, List(tok, size), start' \in SUBSET Id
      PROVE  TypeOK'
  BY <1>1, ListTypeOK DEF TypeOK
<1>2. CASE FirstPage
  <2>1. Cardinality(Id) \in Nat
    BY FinitePart
  <2>2. PICK tok \in 0..Cardinality(Id), size \in RequestSize :
               start' = {i \in Listed : Rank(i) >= tok} /\ List(tok, size)
    BY <1>2 DEF FirstPage
  <2>3. start' \in SUBSET Id
    BY <2>2 DEF Listed
  <2>4. tok \in Nat /\ size \in Int
    BY <2>1, PagingAssumption DEF RequestSize
  <2> QED
    BY <1>1, <2>2, <2>3, <2>4
<1>3. CASE NextPage
  <2>1. PICK size \in RequestSize : List(token, size)
    BY <1>3 DEF NextPage
  <2>2. size \in Int /\ token \in Nat /\ start' \in SUBSET Id
    BY <1>3, PagingAssumption DEF RequestSize, NextPage, TypeOK
  <2> QED
    BY <1>1, <2>1, <2>2
<1>4. CASE Refuse
  <2>1. PICK tok \in {token, BadToken}, size \in RequestSize :
               ListError(size, tok) # "nil" /\ answer' = ListError(size, tok)
    BY <1>4 DEF Refuse
  <2>2. answer' \in {"ErrInvalidPageSize", "ErrInvalidPageToken"}
    BY <2>1 DEF ListError
  <2> QED
    BY <1>4, <2>2 DEF Refuse, TypeOK
<1>5. ASSUME NEW i \in Id, NEW row \in Row \cup NotLive, Changes(i, row)
      PROVE  TypeOK'
  BY <1>5 DEF Changes, TypeOK, walk
<1>6. ASSUME NEW i \in Id, Create(i) PROVE TypeOK'
  BY <1>5, <1>6 DEF Create
<1>7. ASSUME NEW i \in Id, Delete(i) PROVE TypeOK'
  BY <1>5, <1>7 DEF Delete, NotLive
<1>8. ASSUME NEW i \in Id, Update(i) PROVE TypeOK'
  <2>1. PICK s \in Status : Changes(i, [rows[i] EXCEPT !.status = s])
    BY <1>8 DEF Update
  <2>2. rows[i] \in Row
    BY <1>8 DEF Update, TypeOK
  <2>3. [rows[i] EXCEPT !.status = s] \in Row
    BY <2>2 DEF Row
  <2> QED
    BY <1>5, <2>1, <2>3
<1>9. CASE DeleteCompany
  BY <1>9, ListedFinite DEF DeleteCompany, TypeOK, walk, NotLive
<1>10. CASE UNCHANGED vars
  BY <1>10 DEF vars, walk, TypeOK
<1> QED
  BY <1>2, <1>3, <1>4, <1>6, <1>7, <1>8, <1>9, <1>10 DEF Next

\* The variables keep their types; what List returns as a token is one that it
\* accepts, and the counts of the walk are counts.
THEOREM TypeCorrect == Spec => []TypeOK
<1> QED
  BY InitTypeOK, NextTypeOK, PTL DEF Spec

-------------------------------------------------------------------------------
\* Only a List that found another page sets a token.
LEMMA TokenStep ==
  TypeOK /\ [Next]_vars =>
      (phase' = "walking" /\ (phase = "idle" \/ token' # token) => token' < Cardinality(Listed))
<1> SUFFICES ASSUME TypeOK, [Next]_vars, phase' = "walking", phase = "idle" \/ token' # token
             PROVE  token' < Cardinality(Listed)
  OBVIOUS
<1>1. ASSUME NEW tok \in Nat, NEW size \in Int, List(tok, size)
      PROVE  token' < Cardinality(Listed)
  <2>1. HasNext(tok, normalizePageSize(size)) /\ token' = NextToken(tok, normalizePageSize(size))
    BY <1>1 DEF List
  <2> QED
    BY <2>1, LimitPositive, NextTokenInList
<1>2. CASE FirstPage
  <2>1. Cardinality(Id) \in Nat
    BY FinitePart
  <2> QED
    BY <1>1, <1>2, <2>1, PagingAssumption DEF FirstPage, RequestSize
<1>3. CASE NextPage
  BY <1>1, <1>3, PagingAssumption DEF NextPage, RequestSize, TypeOK
<1>4. CASE Refuse \/ DeleteCompany \/ UNCHANGED vars
  BY <1>4 DEF Refuse, DeleteCompany, vars, walk
<1>5. ASSUME NEW i \in Id, Create(i) \/ Delete(i) \/ Update(i) PROVE FALSE
  BY <1>5 DEF Create, Delete, Update, Changes, walk
<1> QED
  BY <1>2, <1>3, <1>4, <1>5 DEF Next

\* However long the list and whatever numbers a client sends, List returns only
\* tokens that lie inside the list, in all three services.
THEOREM TokensAreInList == Spec => TokenInList
<1>1. TypeOK /\ [Next]_vars =>
        [phase' = "walking" /\ (phase = "idle" \/ token' # token) => token' < Cardinality(Listed)]_vars
  BY TokenStep
<1> QED
  BY <1>1, TypeCorrect, PTL DEF Spec, TokenInList
-------------------------------------------------------------------------------
\* Counting.  A part of a finite set counts no more than the whole.
LEMMA PartCounts ==
  ASSUME NEW B \in SUBSET Id, NEW A \in SUBSET B
  PROVE  Cardinality(A) <= Cardinality(B)
  BY FinitePart, FS_Subset

\* A set with at most one element that another lacks counts at most one more.
LEMMA OneMore ==
  ASSUME NEW A \in SUBSET Id, NEW B \in SUBSET Id,
         \A x, y \in B \ A : x = y
  PROVE  Cardinality(B) <= Cardinality(A) + 1
<1>1. CASE B \subseteq A
  BY <1>1, PartCounts, FinitePart
<1>2. CASE ~(B \subseteq A)
  <2>1. PICK x \in B \ A : TRUE
    BY <1>2
  <2>2. A \cup {x} \in SUBSET Id /\ B \in SUBSET (A \cup {x})
    BY <2>1
  <2>3. Cardinality(B) <= Cardinality(A \cup {x})
    BY <2>2, PartCounts
  <2>4. Cardinality(A \cup {x}) = Cardinality(A) + 1
    BY <2>1, FinitePart, FS_AddElement
  <2> QED
    BY <2>3, <2>4
<1> QED
  BY <1>1, <1>2

\* The order of the lists and the place of a row in a list L of a table T, apart
\* from the variables, so that the table before a change can be compared with
\* the one after it.
Earlier(T, i, j) == \/ T[i].created > T[j].created
                    \/ T[i].created = T[j].created /\ i > j

Place(T, L, i) == Cardinality({j \in L : Earlier(T, j, i)})

Dated(T, L) == \A i \in L : T[i].created \in Int

\* A place is a count.
LEMMA PlaceNat ==
  ASSUME NEW T, NEW L \in SUBSET Id, NEW i
  PROVE  Place(T, L, i) \in Nat
  BY FinitePart DEF Place

\* No row is earlier than itself.
LEMMA NotEarlier ==
  ASSUME NEW T, NEW L \in SUBSET Id, Dated(T, L), NEW i \in L
  PROVE  ~Earlier(T, i, i)
<1>1. i \in Int /\ T[i].created \in Int
  BY PagingAssumption DEF Dated
<1> QED
  BY <1>1 DEF Earlier

\* An earlier row has a smaller place,
LEMMA PlaceLess ==
  ASSUME NEW T, NEW L \in SUBSET Id, Dated(T, L),
         NEW i \in L, NEW j \in L, Earlier(T, i, j)
  PROVE  Place(T, L, i) < Place(T, L, j)
<1> DEFINE I == {k \in L : Earlier(T, k, i)}
           J == {k \in L : Earlier(T, k, j)}
<1>1. I \in SUBSET Id /\ J \in SUBSET Id
  OBVIOUS
<1>2. i \notin I /\ i \in J
  BY NotEarlier
<1>3. I \cup {i} \subseteq J
  <2> SUFFICES ASSUME NEW k \in I PROVE k \in J
    BY <1>2
  <2>1. k \in Int /\ i \in Int /\ j \in Int
    BY PagingAssumption
  <2> QED
    BY <2>1 DEF Dated, Earlier
<1>4. Cardinality(I \cup {i}) = Cardinality(I) + 1
  BY <1>1, <1>2, FinitePart, FS_AddElement
<1>5. Cardinality(I \cup {i}) <= Cardinality(J)
  BY <1>1, <1>3, PartCounts
<1> QED
  BY <1>1, <1>4, <1>5, FinitePart DEF Place

\* so that no two rows of a list share a place,
LEMMA PlaceUnique ==
  ASSUME NEW T, NEW L \in SUBSET Id, Dated(T, L),
         NEW i \in L, NEW j \in L, Place(T, L, i) = Place(T, L, j)
  PROVE  i = j
<1>1. i \in Int /\ j \in Int /\ T[i].created \in Int /\ T[j].created \in Int
  BY PagingAssumption DEF Dated
<1>2. i = j \/ Earlier(T, i, j) \/ Earlier(T, j, i)
  BY <1>1 DEF Earlier
<1> QED
  BY <1>2, PlaceLess, PlaceNat

\* and places lie below the length of the list.
LEMMA PlaceBelow ==
  ASSUME NEW T, NEW L \in SUBSET Id, Dated(T, L), NEW i \in L
  PROVE  Place(T, L, i) < Cardinality(L)
<1> DEFINE I == {k \in L : Earlier(T, k, i)}
<1>1. I \in SUBSET L /\ i \notin I
  BY NotEarlier
<1>2. I \cup {i} \in SUBSET L /\ I \in SUBSET Id
  BY <1>1
<1>3. Cardinality(I \cup {i}) = Cardinality(I) + 1
  BY <1>1, <1>2, FinitePart, FS_AddElement
<1>4. Cardinality(I \cup {i}) <= Cardinality(L)
  BY <1>2, PartCounts
<1> QED
  BY <1>2, <1>3, <1>4, FinitePart DEF Place

\* A row that joins a list moves those behind it by one place and no other.
LEMMA PlaceJoin ==
  ASSUME NEW T, NEW U, NEW L \in SUBSET Id, NEW i \in Id, i \notin L,
         \A k \in L : U[k] = T[k], NEW j \in L
  PROVE  Place(U, L \cup {i}, j) = Place(T, L, j) + (IF Earlier(U, i, j) THEN 1 ELSE 0)
<1> DEFINE J == {k \in L : Earlier(T, k, j)}
           K == {k \in L \cup {i} : Earlier(U, k, j)}
<1>1. J \in SUBSET Id /\ i \notin J
  OBVIOUS
<1>2. K = IF Earlier(U, i, j) THEN J \cup {i} ELSE J
  BY DEF Earlier
<1>3. Cardinality(J \cup {i}) = Cardinality(J) + 1
  BY <1>1, FinitePart, FS_AddElement
<1>4. Cardinality(J) \in Nat
  BY <1>1, FinitePart
<1> QED
  BY <1>2, <1>3, <1>4 DEF Place

\* Rows of S listed at or behind place t.
AtOrBehind(S, T, L, t) == {i \in S \cap L : Place(T, L, i) >= t}

\* Rows of S that have left the list, or are listed before place t.
LeftOrBefore(S, T, L, t) == {i \in S : i \notin L \/ Place(T, L, i) < t}

\* Both lie among the rows of S.
LEMMA PartsOfIds ==
  ASSUME NEW S \in SUBSET Id, NEW T, NEW L, NEW t
  PROVE  /\ AtOrBehind(S, T, L, t) \in SUBSET Id
         /\ LeftOrBefore(S, T, L, t) \in SUBSET Id
  BY DEF AtOrBehind, LeftOrBefore

\* Through a row that joins, at most one row of S comes to stand at or behind t:
\* itself, or the one before t, pushed by a row that joined before it.
LEMMA JoinAtOrBehind ==
  ASSUME NEW T, NEW U, NEW L \in SUBSET Id, NEW i \in Id, i \notin L,
         \A k \in L : U[k] = T[k], Dated(U, L \cup {i}),
         NEW S \in SUBSET Id, NEW t \in Nat
  PROVE  Cardinality(AtOrBehind(S, U, L \cup {i}, t)) <= Cardinality(AtOrBehind(S, T, L, t)) + 1
<1> DEFINE A == AtOrBehind(S, T, L, t)
           B == AtOrBehind(S, U, L \cup {i}, t)
<1>1. ASSUME NEW x \in B \ A, x # i
      PROVE  Place(U, L \cup {i}, x) = t /\ Earlier(U, i, x) /\ x \in L
  <2>1. x \in L /\ Place(U, L \cup {i}, x) >= t /\ ~(Place(T, L, x) >= t)
    BY <1>1 DEF AtOrBehind
  <2>2. Place(T, L, x) \in Nat
    BY PlaceNat
  <2>3. Place(U, L \cup {i}, x) = Place(T, L, x) + (IF Earlier(U, i, x) THEN 1 ELSE 0)
    BY <2>1, PlaceJoin
  <2> QED
    BY <2>1, <2>2, <2>3
<1>2. ASSUME NEW x \in B \ A, x # i PROVE i \notin B
  <2>1. Place(U, L \cup {i}, i) < Place(U, L \cup {i}, x)
    BY <1>1, <1>2, PlaceLess
  <2> QED
    BY <1>1, <1>2, <2>1, PlaceNat DEF AtOrBehind
<1>3. ASSUME NEW x \in B \ A, NEW y \in B \ A PROVE x = y
  <2>1. CASE x # i /\ y # i
    BY <2>1, <1>1, PlaceUnique
  <2>2. CASE x = i \/ y = i
    BY <2>2, <1>2
  <2> QED
    BY <2>1, <2>2
<1> QED
  BY <1>3, PartsOfIds, OneMore

\* Through a row that joins, no row of S comes to stand before t that was not
\* out of the list.
LEMMA JoinLeftOrBefore ==
  ASSUME NEW T, NEW U, NEW L \in SUBSET Id, NEW i \in Id, i \notin L,
         \A k \in L : U[k] = T[k],
         NEW S \in SUBSET Id, NEW t \in Nat
  PROVE  Cardinality(LeftOrBefore(S, U, L \cup {i}, t)) <= Cardinality(LeftOrBefore(S, T, L, t))
<1> DEFINE A == LeftOrBefore(S, T, L, t)
           B == LeftOrBefore(S, U, L \cup {i}, t)
<1>1. ASSUME NEW x \in B, x \in L PROVE x \in A
  <2>1. Place(U, L \cup {i}, x) < t
    BY <1>1 DEF LeftOrBefore
  <2>2. Place(U, L \cup {i}, x) = Place(T, L, x) + (IF Earlier(U, i, x) THEN 1 ELSE 0)
    BY <1>1, PlaceJoin
  <2>3. Place(T, L, x) \in Nat
    BY PlaceNat
  <2>4. Place(T, L, x) < t
    BY <2>1, <2>2, <2>3
  <2> QED
    BY <2>4 DEF LeftOrBefore
<1>2. B \subseteq A
  BY <1>1 DEF LeftOrBefore
<1> QED
  BY <1>2, PartsOfIds, PartCounts

\* Through a row that leaves, no row of S comes to stand at or behind t.
LEMMA LeaveAtOrBehind ==
  ASSUME NEW T, NEW U, NEW L \in SUBSET Id, NEW i \in Id, i \notin L,
         \A k \in L : U[k] = T[k],
         NEW S \in SUBSET Id, NEW t \in Nat
  PROVE  Cardinality(AtOrBehind(S, U, L, t)) <= Cardinality(AtOrBehind(S, T, L \cup {i}, t))
<1> DEFINE A == AtOrBehind(S, T, L \cup {i}, t)
           B == AtOrBehind(S, U, L, t)
<1>1. ASSUME NEW x \in B PROVE x \in A
  <2>1. x \in S \cap L /\ Place(U, L, x) >= t
    BY <1>1 DEF AtOrBehind
  <2>2. Place(T, L \cup {i}, x) = Place(U, L, x) + (IF Earlier(T, i, x) THEN 1 ELSE 0)
    BY <2>1, PlaceJoin
  <2>3. Place(U, L, x) \in Nat
    BY PlaceNat
  <2> QED
    BY <2>1, <2>2, <2>3 DEF AtOrBehind
<1> QED
  BY <1>1, PartsOfIds, PartCounts

\* Through a row that leaves, at most one row of S comes to be out of the list or
\* before t: itself, or the one at t, moved up by a row that left before it.
LEMMA LeaveLeftOrBefore ==
  ASSUME NEW T, NEW U, NEW L \in SUBSET Id, NEW i \in Id, i \notin L,
         \A k \in L : U[k] = T[k], Dated(T, L \cup {i}),
         NEW S \in SUBSET Id, NEW t \in Nat
  PROVE  Cardinality(LeftOrBefore(S, U, L, t)) <= Cardinality(LeftOrBefore(S, T, L \cup {i}, t)) + 1
<1> DEFINE A == LeftOrBefore(S, T, L \cup {i}, t)
           B == LeftOrBefore(S, U, L, t)
<1>1. ASSUME NEW x \in B \ A, x # i
      PROVE  Place(T, L \cup {i}, x) = t /\ Earlier(T, i, x) /\ x \in L
  <2>1. x \in L \cup {i} /\ ~(Place(T, L \cup {i}, x) < t)
    BY <1>1 DEF LeftOrBefore
  <2>2. x \in L /\ Place(U, L, x) < t
    BY <1>1, <2>1 DEF LeftOrBefore
  <2>3. Place(T, L \cup {i}, x) = Place(U, L, x) + (IF Earlier(T, i, x) THEN 1 ELSE 0)
    BY <2>2, PlaceJoin
  <2>4. Place(U, L, x) \in Nat
    BY PlaceNat
  <2> QED
    BY <2>1, <2>2, <2>3, <2>4
<1>2. ASSUME NEW x \in B \ A, x # i PROVE i \notin B \ A
  <2>1. Place(T, L \cup {i}, i) < Place(T, L \cup {i}, x)
    BY <1>1, <1>2, PlaceLess
  <2>2. Place(T, L \cup {i}, i) < t
    BY <1>1, <1>2, <2>1
  <2> QED
    BY <2>2 DEF LeftOrBefore
<1>3. ASSUME NEW x \in B \ A, NEW y \in B \ A PROVE x = y
  <2>1. CASE x # i /\ y # i
    BY <2>1, <1>1, PlaceUnique
  <2>2. CASE x = i \/ y = i
    BY <2>2, <1>2
  <2> QED
    BY <2>1, <2>2
<1> QED
  BY <1>3, PartsOfIds, OneMore

-------------------------------------------------------------------------------
\* Rows delivered before that a later page may deliver again.
Ahead == AtOrBehind(seen, rows, Listed, token)

\* Rows the walk set out to list and has passed over: no page to come delivers
\* them as the list stands, or they are out of it.
Passed == LeftOrBefore(start \ seen, rows, Listed, token)

\* While the walk goes on, each repetition made or impending is paid for by a row
\* that joined, and each row passed over by one that left.  A row that left counts
\* as passed over from then on: it may come back before the token.
IInv == /\ TypeOK
        /\ phase = "idle" => seen = {} /\ start = {} /\ repeats = 0
        /\ phase = "walking" => /\ repeats + Cardinality(Ahead) <= added
                                /\ Cardinality(Passed) <= removed
        /\ RepeatsBounded
        /\ SkipsBounded

\* The list of the query, and the rank of a row in it, in the terms above.
LEMMA RankIsPlace ==
  /\ Listed \in SUBSET Id
  /\ TypeOK => Dated(rows, Listed)
  /\ \A i \in Id : Rank(i) = Place(rows, Listed, i)
<1>1. Listed \in SUBSET Id
  BY DEF Listed
<1>2. ASSUME TypeOK, NEW i \in Listed PROVE rows[i].created \in Int
  BY <1>2, PagingAssumption DEF TypeOK, Listed, Matches, Row
<1>3. ASSUME NEW i \in Id PROVE Rank(i) = Place(rows, Listed, i)
  BY DEF Rank, Place, Before, Earlier
<1> QED
  BY <1>1, <1>2, <1>3 DEF Dated

\* A page delivers again what lay at or behind its offset, no more, and what is
\* left of it lies behind the next token.
LEMMA PageRepeats ==
  ASSUME NEW S \in SUBSET Id, NEW tok \in Nat, NEW limit \in Nat \ {0}
  PROVE  Cardinality(S \cap Page(tok, limit))
           + Cardinality(AtOrBehind(S \cup Page(tok, limit), rows, Listed, tok + limit))
             = Cardinality(AtOrBehind(S, rows, Listed, tok))
<1> DEFINE A == AtOrBehind(S, rows, Listed, tok)
           P == Page(tok, limit)
<1>1. P = {i \in Listed : Place(rows, Listed, i) \in tok..(tok + limit - 1)}
  BY RankIsPlace DEF Page
<1>2. \A i \in Id : Place(rows, Listed, i) \in Nat
  BY PlaceNat, RankIsPlace
<1>3. S \cap P = A \cap P
  BY <1>1, <1>2, RankIsPlace DEF AtOrBehind
<1>4. AtOrBehind(S \cup P, rows, Listed, tok + limit) = A \ P
  BY <1>1, <1>2, RankIsPlace DEF AtOrBehind
<1>5. A \in SUBSET Id /\ A \cap P \in SUBSET Id /\ A \ P \in SUBSET Id
  BY PartsOfIds
<1>6. /\ Cardinality(A \ P) = Cardinality(A) - Cardinality(A \cap P)
      /\ Cardinality(A) \in Nat /\ Cardinality(A \cap P) \in Nat
  BY <1>5, FinitePart, FS_Difference
<1>7. /\ Cardinality(S \cap P) = Cardinality(A \cap P)
      /\ Cardinality(AtOrBehind(S \cup P, rows, Listed, tok + limit)) = Cardinality(A \ P)
  BY <1>3, <1>4, Zenon
<1> QED
  BY <1>6, <1>7

\* A page passes over nothing.
LEMMA PagePasses ==
  ASSUME NEW S, NEW tok \in Nat, NEW limit \in Nat \ {0}
  PROVE  LeftOrBefore(S \ Page(tok, limit), rows, Listed, tok + limit)
           \subseteq LeftOrBefore(S, rows, Listed, tok)
<1>1. Page(tok, limit) = {i \in Listed : Place(rows, Listed, i) \in tok..(tok + limit - 1)}
  BY RankIsPlace DEF Page
<1>2. \A i \in Listed : Place(rows, Listed, i) \in Nat
  BY PlaceNat, RankIsPlace
<1> QED
  BY <1>1, <1>2 DEF LeftOrBefore

\* The last page reaches the end of the list.
LEMMA LastPage ==
  ASSUME TypeOK, NEW tok \in Nat, NEW limit \in Nat \ {0}, ~HasNext(tok, limit),
         NEW S
  PROVE  {i \in S : i \in Listed} \ Page(tok, limit)
           \subseteq LeftOrBefore(S \ Page(tok, limit), rows, Listed, tok + limit)
<1> DEFINE rest == Cardinality(Listed) - tok
<1>1. rest \in Int
  BY ListedFinite
<1>2. ~(rest > limit)
  <2>1. Fetched(tok, limit) = IF rest <= 0 THEN 0 ELSE IF rest > limit + 1 THEN limit + 1 ELSE rest
    BY DEF Fetched
  <2> QED
    BY <2>1, <1>1 DEF HasNext
<1>3. Cardinality(Listed) <= tok + limit
  BY <1>1, <1>2, ListedFinite
<1>4. ASSUME NEW i \in Listed PROVE Place(rows, Listed, i) < tok + limit
  <2>1. Place(rows, Listed, i) < Cardinality(Listed) /\ Place(rows, Listed, i) \in Nat
    BY RankIsPlace, PlaceBelow, PlaceNat
  <2> QED
    BY <2>1, <1>3, ListedFinite
<1> QED
  BY <1>4 DEF LeftOrBefore

\* The invariant holds at first.
LEMMA InitIInv == Init => IInv
<1> SUFFICES ASSUME Init PROVE IInv
  OBVIOUS
<1>1. TypeOK
  BY InitTypeOK
<1> QED
  BY <1>1 DEF Init, IInv, RepeatsBounded, SkipsBounded

\* A page, the first or another, preserves what the walk owes.
LEMMA ListIInv ==
  ASSUME TypeOK, TypeOK', NEW tok \in Nat, NEW size \in Int, List(tok, size),
         NEW S \in SUBSET Id, start' = S,
         repeats + Cardinality(AtOrBehind(seen, rows, Listed, tok)) <= added,
         Cardinality(LeftOrBefore(S \ seen, rows, Listed, tok)) <= removed
  PROVE  IInv'
<1> DEFINE limit == normalizePageSize(size)
           P == Page(tok, limit)
<1>1. limit \in Nat \ {0}
  BY LimitPositive
<1>2. /\ seen' = seen \cup P
      /\ repeats' = repeats + Cardinality(seen \cap P)
      /\ IF HasNext(tok, limit) THEN phase' = "walking" /\ token' = NextToken(tok, limit)
         ELSE phase' = "done" /\ UNCHANGED token
      /\ UNCHANGED <<rows, service, filter, added, removed>>
  BY DEF List
<1> HIDE DEF limit
<1>3. seen \in SUBSET Id /\ P \in SUBSET Id /\ repeats \in Nat /\ added \in Nat /\ removed \in Nat
  BY DEF TypeOK, Page, Listed
<1>4. Listed' = Listed
  BY <1>2 DEF Listed, Matches
<1>5. /\ repeats' + Cardinality(AtOrBehind(seen', rows, Listed, tok + limit)) <= added
      /\ Cardinality(AtOrBehind(seen', rows, Listed, tok + limit)) \in Nat
      /\ repeats' \in Nat
  <2>1. Cardinality(seen \cap P) + Cardinality(AtOrBehind(seen \cup P, rows, Listed, tok + limit))
          = Cardinality(AtOrBehind(seen, rows, Listed, tok))
    BY <1>1, <1>3, PageRepeats
  <2>2. seen \cup P \in SUBSET Id /\ seen \cap P \in SUBSET Id
    BY <1>3
  <2>3. /\ Cardinality(AtOrBehind(seen \cup P, rows, Listed, tok + limit)) \in Nat
        /\ Cardinality(seen \cap P) \in Nat
    BY <2>2, FinitePart, PartsOfIds
  <2>4. repeats + Cardinality(seen \cap P)
          + Cardinality(AtOrBehind(seen \cup P, rows, Listed, tok + limit)) <= added
    BY <2>1, <2>3, <1>3
  <2> QED
    BY <2>3, <2>4, <1>2, <1>3
<1>6. Cardinality(LeftOrBefore(S \ seen', rows, Listed, tok + limit)) <= removed
  <2>1. S \ seen' = (S \ seen) \ P
    BY <1>2
  <2>2. LeftOrBefore(S \ seen', rows, Listed, tok + limit) \subseteq LeftOrBefore(S \ seen, rows, Listed, tok)
    BY <2>1, <1>1, PagePasses, Zenon
  <2>3. LeftOrBefore(S \ seen, rows, Listed, tok) \in SUBSET Id
    BY PartsOfIds
  <2>4. LeftOrBefore(S \ seen', rows, Listed, tok + limit) \in SUBSET Id
    BY <2>2, <2>3
  <2>5. Cardinality(LeftOrBefore(S \ seen', rows, Listed, tok + limit))
          <= Cardinality(LeftOrBefore(S \ seen, rows, Listed, tok))
    BY <2>2, <2>3, PartCounts
  <2> QED
    BY <2>3, <2>4, <2>5, <1>3, FinitePart
<1>7. RepeatsBounded'
  BY <1>2, <1>3, <1>5 DEF RepeatsBounded
<1>8. CASE HasNext(tok, limit)
  <2>1. phase' = "walking" /\ token' = tok + limit
    BY <1>2, <1>8 DEF NextToken
  <2>2. /\ Ahead' = AtOrBehind(seen', rows, Listed, tok + limit)
        /\ Passed' = LeftOrBefore(S \ seen', rows, Listed, tok + limit)
    BY <2>1, <1>2, <1>4 DEF Ahead, Passed, AtOrBehind, LeftOrBefore, Place, Earlier
  <2> QED
    BY <2>1, <2>2, <1>2, <1>5, <1>6, <1>7 DEF IInv, SkipsBounded
<1>9. CASE ~HasNext(tok, limit)
  <2>1. phase' = "done"
    BY <1>2, <1>9
  <2> DEFINE missing == {i \in S : i \in Listed} \ seen'
             passed == LeftOrBefore(S \ seen', rows, Listed, tok + limit)
  <2>2. {i \in S \ seen : i \in Listed} \ P \subseteq LeftOrBefore((S \ seen) \ P, rows, Listed, tok + limit)
    BY <1>1, <1>9, LastPage
  <2>3. missing = {i \in S \ seen : i \in Listed} \ P
    BY <1>2
  <2>4. S \ seen' = (S \ seen) \ P
    BY <1>2
  <2>5. passed = LeftOrBefore((S \ seen) \ P, rows, Listed, tok + limit)
    BY <2>4, Zenon
  <2>6. missing \subseteq passed
    BY <2>2, <2>3, <2>5, Zenon
  <2>7. S \ seen' \in SUBSET Id
    OBVIOUS
  <2>8. passed \in SUBSET Id
    BY <2>7, PartsOfIds
  <2>9. Cardinality(missing) <= Cardinality(passed) /\ Cardinality(missing) \in Nat /\ Cardinality(passed) \in Nat
    BY <2>6, <2>8, PartCounts, FinitePart
  <2>10. Cardinality(missing) <= removed'
    BY <2>9, <1>6, <1>3, <1>2
  <2>11. ({i \in start : i \in Listed} \ seen)' = missing
    BY <1>4
  <2>12. SkipsBounded'
    BY <2>10, <2>11 DEF SkipsBounded
  <2> QED
    BY <2>1, <2>12, <1>7 DEF IInv
<1> QED
  BY <1>8, <1>9

\* The first page owes nothing before it is delivered.
LEMMA FirstPageIInv == ASSUME IInv, TypeOK', FirstPage PROVE IInv'
<1>1. PICK tok \in 0..Cardinality(Id), size \in RequestSize :
             start' = {i \in Listed : Rank(i) >= tok} /\ List(tok, size)
  BY DEF FirstPage
<1>2. Cardinality(Id) \in Nat
  BY FinitePart
<1>3. tok \in Nat /\ size \in Int
  BY <1>2, PagingAssumption DEF RequestSize
<1> DEFINE S == {i \in Listed : Rank(i) >= tok}
<1>4. seen = {} /\ repeats = 0 /\ added \in Nat /\ removed \in Nat
  BY DEF FirstPage, IInv, TypeOK
<1>5. AtOrBehind(seen, rows, Listed, tok) = {}
  BY <1>4 DEF AtOrBehind
<1>6. LeftOrBefore(S \ seen, rows, Listed, tok) = {}
  <2> SUFFICES ASSUME NEW i \in S, i \notin Listed \/ Place(rows, Listed, i) < tok
               PROVE  FALSE
    BY DEF LeftOrBefore
  <2>1. i \in Id /\ Rank(i) >= tok
    BY RankIsPlace
  <2>2. Rank(i) = Place(rows, Listed, i) /\ Place(rows, Listed, i) \in Nat
    BY <2>1, RankIsPlace, PlaceNat
  <2> QED
    BY <2>1, <2>2, <1>3
<1>7. Cardinality(AtOrBehind(seen, rows, Listed, tok)) = 0
      /\ Cardinality(LeftOrBefore(S \ seen, rows, Listed, tok)) = 0
  BY <1>5, <1>6, FS_EmptySet, Zenon
<1>8. /\ repeats + Cardinality(AtOrBehind(seen, rows, Listed, tok)) <= added
      /\ Cardinality(LeftOrBefore(S \ seen, rows, Listed, tok)) <= removed
  BY <1>4, <1>7
<1>9. S \in SUBSET Id /\ TypeOK
  BY DEF Listed, IInv
<1> HIDE DEF S
<1> QED
  BY <1>1, <1>3, <1>8, <1>9, ListIInv DEF S

\* So does each further page.
LEMMA NextPageIInv == ASSUME IInv, TypeOK', NextPage PROVE IInv'
<1>1. PICK size \in RequestSize : List(token, size)
  BY DEF NextPage
<1>2. size \in Int /\ token \in Nat /\ start \in SUBSET Id /\ start' = start /\ phase = "walking" /\ TypeOK
  BY PagingAssumption DEF RequestSize, NextPage, IInv, TypeOK
<1>3. /\ repeats + Cardinality(AtOrBehind(seen, rows, Listed, token)) <= added
      /\ Cardinality(LeftOrBefore(start \ seen, rows, Listed, token)) <= removed
  BY <1>2 DEF IInv, Ahead, Passed
<1> QED
  BY <1>1, <1>2, <1>3, ListIInv

\* A row that joins the list pays for the one it pushes behind the token, a row
\* that leaves it for the one it lets slip before it.
LEMMA ChangesIInv ==
  ASSUME IInv, TypeOK', NEW i \in Id, NEW row \in Row \cup NotLive, Changes(i, row),
         Matches(rows[i]) /\ Matches(row) => row.created = rows[i].created
  PROVE  IInv'
<1>1. /\ phase = "walking" /\ UNCHANGED <<service, filter, walk>>
      /\ rows' = [rows EXCEPT ![i] = row]
      /\ added' = added + (IF Matches(row) /\ ~Matches(rows[i]) THEN 1 ELSE 0)
      /\ removed' = removed + (IF Matches(rows[i]) /\ ~Matches(row) THEN 1 ELSE 0)
  BY DEF Changes
<1>2. /\ phase' = "walking" /\ token' = token /\ seen' = seen /\ start' = start
      /\ repeats' = repeats /\ filter' = filter
  BY <1>1 DEF walk
<1>3. /\ TypeOK /\ token \in Nat /\ seen \in SUBSET Id /\ start \ seen \in SUBSET Id
      /\ repeats \in Nat /\ added \in Nat /\ removed \in Nat
      /\ rows \in [Id -> Row \cup NotLive]
  BY DEF IInv, TypeOK
<1>4. /\ Ahead' = AtOrBehind(seen, rows', Listed', token)
      /\ Passed' = LeftOrBefore(start \ seen, rows', Listed', token)
  BY <1>2 DEF Ahead, Passed, AtOrBehind, LeftOrBefore, Place, Earlier
<1>5. /\ repeats + Cardinality(Ahead) <= added
      /\ Cardinality(Passed) <= removed
      /\ Cardinality(Ahead) \in Nat /\ Cardinality(Passed) \in Nat
  BY <1>1, <1>3, FinitePart, PartsOfIds DEF IInv, Ahead, Passed
<1>6. /\ Cardinality(Ahead') \in Nat /\ Cardinality(Passed') \in Nat
  BY <1>3, <1>4, FinitePart, PartsOfIds
<1>7. /\ Listed \in SUBSET Id /\ Listed' \in SUBSET Id
      /\ Dated(rows, Listed) /\ Dated(rows', Listed')
  <2>1. Dated(rows', Listed')
    BY PagingAssumption DEF TypeOK, Listed, Matches, Row, Dated
  <2> QED
    BY <2>1, <1>3, RankIsPlace DEF Listed
<1>8. \A k \in Id \ {i} : rows'[k] = rows[k] /\ (k \in Listed' <=> k \in Listed)
  BY <1>1, <1>2, <1>3 DEF Listed, Matches
<1>9. i \in Listed <=> Matches(rows[i])
  BY DEF Listed
<1>10. rows'[i] = row /\ (i \in Listed' <=> Matches(row))
  BY <1>1, <1>2, <1>3 DEF Listed, Matches
<1>11. /\ repeats + Cardinality(Ahead') <= added'
       /\ Cardinality(Passed') <= removed'
  <2>1. CASE ~Matches(rows[i]) /\ Matches(row)
    <3>1. Listed' = Listed \cup {i} /\ i \notin Listed
      BY <2>1, <1>7, <1>8, <1>9, <1>10
    <3>2. /\ \A k \in Listed : rows'[k] = rows[k]
          /\ Dated(rows', Listed \cup {i})
      BY <3>1, <1>7, <1>8
    <3>3. Cardinality(AtOrBehind(seen, rows', Listed \cup {i}, token)) <= Cardinality(Ahead) + 1
      BY <3>1, <3>2, <1>3, <1>7, JoinAtOrBehind DEF Ahead
    <3>4. Cardinality(LeftOrBefore(start \ seen, rows', Listed \cup {i}, token)) <= Cardinality(Passed)
      BY <3>1, <3>2, <1>3, <1>7, JoinLeftOrBefore DEF Passed
    <3>5. Cardinality(Ahead') <= Cardinality(Ahead) + 1 /\ Cardinality(Passed') <= Cardinality(Passed)
      BY <3>1, <3>3, <3>4, <1>4
    <3> QED
      BY <3>5, <2>1, <1>1, <1>3, <1>5, <1>6
  <2>2. CASE Matches(rows[i]) /\ ~Matches(row)
    <3>1. Listed = Listed' \cup {i} /\ i \notin Listed'
      BY <2>2, <1>7, <1>8, <1>9, <1>10
    <3>2. /\ \A k \in Listed' : rows'[k] = rows[k]
          /\ Dated(rows, Listed' \cup {i})
      BY <3>1, <1>7, <1>8
    <3>3. Cardinality(AtOrBehind(seen, rows', Listed', token))
            <= Cardinality(AtOrBehind(seen, rows, Listed' \cup {i}, token))
      BY <3>1, <3>2, <1>3, <1>7, LeaveAtOrBehind
    <3>4. Cardinality(LeftOrBefore(start \ seen, rows', Listed', token))
            <= Cardinality(LeftOrBefore(start \ seen, rows, Listed' \cup {i}, token)) + 1
      BY <3>1, <3>2, <1>3, <1>7, LeaveLeftOrBefore
    <3>5. Cardinality(Ahead') <= Cardinality(Ahead) /\ Cardinality(Passed') <= Cardinality(Passed) + 1
      BY <3>1, <3>3, <3>4, <1>4 DEF Ahead, Passed
    <3> QED
      BY <3>5, <2>2, <1>1, <1>3, <1>5, <1>6
  <2>3. CASE Matches(rows[i]) <=> Matches(row)
    <3>1. Listed' = Listed
      BY <2>3, <1>7, <1>8, <1>9, <1>10
    <3>2. \A k \in Listed : rows'[k].created = rows[k].created
      BY <2>3, <1>7, <1>8, <1>9, <1>10
    <3>3. \A j \in Listed : Place(rows', Listed, j) = Place(rows, Listed, j)
      BY <3>2, <1>7 DEF Place, Earlier
    <3>4. Ahead' = Ahead /\ Passed' = Passed
      BY <3>1, <3>3, <1>4 DEF Ahead, Passed, AtOrBehind, LeftOrBefore
    <3> QED
      BY <3>4, <2>3, <1>1, <1>3, <1>5
  <2> QED
    BY <2>1, <2>2, <2>3
<1>12. RepeatsBounded'
  <2>1. added' \in Nat
    BY DEF TypeOK
  <2> QED
    BY <2>1, <1>2, <1>3, <1>6, <1>11 DEF RepeatsBounded
<1> QED
  BY <1>2, <1>11, <1>12 DEF IInv, SkipsBounded

\* When the company goes, the whole list leaves.
LEMMA DeleteCompanyIInv == ASSUME IInv, TypeOK', DeleteCompany PROVE IInv'
<1>1. /\ phase = "walking" /\ UNCHANGED <<service, filter, walk, added>>
      /\ rows' = [k \in Id |-> Gone]
      /\ removed' = removed + Cardinality(Listed)
  BY DEF DeleteCompany
<1>2. /\ phase' = "walking" /\ token' = token /\ seen' = seen /\ start' = start
      /\ repeats' = repeats /\ added' = added
  BY <1>1 DEF walk
<1>3. Listed' = {}
  BY <1>1 DEF Listed, Matches, NotLive
<1>4. Ahead' = {} /\ Passed' = start \ seen
  BY <1>2, <1>3 DEF Ahead, Passed, AtOrBehind, LeftOrBefore
<1>5. /\ start \ seen \in SUBSET Id /\ Listed \in SUBSET Id /\ Passed \in SUBSET Id
      /\ Passed \cup Listed \in SUBSET Id /\ Passed \cap Listed \in SUBSET Id
      /\ repeats \in Nat /\ added \in Nat /\ removed \in Nat
  BY DEF IInv, TypeOK, Listed, Passed, LeftOrBefore
<1>6. start \ seen \subseteq Passed \cup Listed
  BY DEF Passed, LeftOrBefore
<1>7. Cardinality(start \ seen) <= Cardinality(Passed) + Cardinality(Listed)
  <2>1. Cardinality(start \ seen) <= Cardinality(Passed \cup Listed)
    BY <1>5, <1>6, PartCounts
  <2>2. Cardinality(Passed \cup Listed)
          = Cardinality(Passed) + Cardinality(Listed) - Cardinality(Passed \cap Listed)
    BY <1>5, FinitePart, FS_Union
  <2> QED
    BY <2>1, <2>2, <1>5, FinitePart
<1>8. Cardinality(Passed) <= removed
  BY <1>1 DEF IInv
<1>9. Cardinality(Passed') <= removed'
  BY <1>1, <1>4, <1>5, <1>7, <1>8, FinitePart
<1>10. repeats <= added
  BY DEF IInv, RepeatsBounded
<1>11. Cardinality(Ahead') = 0
  BY <1>4, FS_EmptySet, Zenon
<1> QED
  BY <1>2, <1>5, <1>9, <1>10, <1>11 DEF IInv, RepeatsBounded, SkipsBounded

\* A refusal changes no more than the answer.
LEMMA StillIInv == ASSUME IInv, TypeOK', Refuse \/ UNCHANGED vars PROVE IInv'
<1>1. UNCHANGED <<rows, filter, phase, token, start, seen, repeats, added, removed>>
  BY DEF Refuse, vars, walk
<1>2. Listed' = Listed
  BY <1>1 DEF Listed, Matches
<1>3. Ahead' = Ahead /\ Passed' = Passed
  BY <1>1, <1>2 DEF Ahead, Passed, AtOrBehind, LeftOrBefore, Place, Earlier
<1> QED
  BY <1>1, <1>2, <1>3 DEF IInv, RepeatsBounded, SkipsBounded

\* Each step preserves the invariant.
LEMMA NextIInv == IInv /\ [Next]_vars => IInv'
<1> SUFFICES ASSUME IInv, [Next]_vars PROVE IInv'
  OBVIOUS
<1>1. TypeOK /\ TypeOK'
  BY NextTypeOK DEF IInv
<1>2. CASE FirstPage
  BY <1>1, <1>2, FirstPageIInv
<1>3. CASE NextPage
  BY <1>1, <1>3, NextPageIInv
<1>4. CASE Refuse \/ UNCHANGED vars
  BY <1>1, <1>4, StillIInv
<1>5. CASE DeleteCompany
  BY <1>1, <1>5, DeleteCompanyIInv
<1>6. ASSUME NEW i \in Id, Create(i) PROVE IInv'
  <2>1. PICK row \in Row : Changes(i, row)
    BY <1>6 DEF Create
  <2>2. ~Matches(rows[i])
    BY <1>6 DEF Create, Matches, NotLive
  <2> QED
    BY <1>1, <2>1, <2>2, ChangesIInv
<1>7. ASSUME NEW i \in Id, Delete(i) PROVE IInv'
  <2>1. Changes(i, Gone) /\ Gone \in NotLive /\ ~Matches(Gone)
    BY <1>7 DEF Delete, NotLive, Matches
  <2> QED
    BY <1>1, <2>1, ChangesIInv
<1>8. ASSUME NEW i \in Id, Update(i) PROVE IInv'
  <2>1. PICK s \in Status : Changes(i, [rows[i] EXCEPT !.status = s])
    BY <1>8 DEF Update
  <2>2. rows[i] \in Row
    BY <1>1, <1>8 DEF Update, TypeOK
  <2>3. /\ [rows[i] EXCEPT !.status = s] \in Row
        /\ [rows[i] EXCEPT !.status = s].created = rows[i].created
    BY <2>2 DEF Row
  <2> QED
    BY <1>1, <2>1, <2>3, ChangesIInv
<1> QED
  BY <1>2, <1>3, <1>4, <1>5, <1>6, <1>7, <1>8 DEF Next

-------------------------------------------------------------------------------
\* What a walk owes in repeated and in missing rows is paid for, at each step of
\* the walk, by rows that joined and rows that left.
THEOREM Inductive == Spec => []IInv
<1> QED
  BY InitIInv, NextIInv, PTL DEF Spec

\* However long the list, whatever the page sizes and the changes between two
\* pages: OFFSET pagination delivers no more rows twice than were added.
THEOREM RepeatsAreBounded == Spec => []RepeatsBounded
<1>1. IInv => RepeatsBounded
  BY DEF IInv
<1> QED
  BY <1>1, Inductive, PTL

\* And a walk that has ended misses no more of the rows it set out to list than
\* were removed.
THEOREM SkipsAreBounded == Spec => []SkipsBounded
<1>1. IInv => SkipsBounded
  BY DEF IInv
<1> QED
  BY <1>1, Inductive, PTL

===============================================================================
