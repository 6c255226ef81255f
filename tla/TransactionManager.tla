-------------------------- MODULE TransactionManager --------------------------
(* internal/platform/db/postgres/transaction.go.  Every RPC runs in a          *)
(* goroutine of its own and makes one outermost call of WithinReadOnly or      *)
(* WithinReadWrite; the calls share a pool of |Conn| connections.  pc follows  *)
(* the body of `within`, err is the error it is about to return ("nil" stands  *)
(* for the Go variable committed being true), and session and link are the     *)
(* database's and the network's view of the transaction, which outlive the     *)
(* call.  fn is any function: it runs statements, may call the manager again   *)
(* with the context it was given, may ignore an error, and may panic.          *)
CONSTANTS Call, Conn, Free

ASSUME FreeAssumption == Free \notin Call

VARIABLES pc, readOnly, nested, err, owner, session, link, wrote, alive

vars == <<pc, readOnly, nested, err, owner, session, link, wrote, alive>>

Location == {"ready", "begin", "fn", "rollback", "commit", "ack", "undo",
             "deferred", "done"}
ErrBeforeCommit == {"begin", "fn", "fn+rollback", "panic"}
ErrOfCommit == {"commit", "commit+rollback"}
Session == {"none", "open", "failed", "committing", "committed", "rolledback"}

TypeOK == /\ pc \in [Call -> Location]
          /\ readOnly \in [Call -> BOOLEAN]
          /\ nested \in [Call -> {"no", "inside", "over"}]
          /\ err \in [Call -> {"pending", "nil"} \cup ErrBeforeCommit \cup ErrOfCommit]
          /\ owner \in [Conn -> Call \cup {Free}]
          /\ session \in [Call -> Session]
          /\ link \in [Call -> {"none", "up", "down"}]
          /\ wrote \in [Call -> BOOLEAN]
          /\ alive \in BOOLEAN

Init == /\ pc = [c \in Call |-> "ready"]
        /\ readOnly = [c \in Call |-> FALSE]
        /\ nested = [c \in Call |-> "no"]
        /\ err = [c \in Call |-> "pending"]
        /\ owner = [k \in Conn |-> Free]
        /\ session = [c \in Call |-> "none"]
        /\ link = [c \in Call |-> "none"]
        /\ wrote = [c \in Call |-> FALSE]
        /\ alive = TRUE

-------------------------------------------------------------------------------
\* A pgx transaction gives its connection back when it is closed, so holding a
\* connection and the transaction being open are one fact; Rollback on a closed
\* transaction answers ErrTxClosed, which `within` ignores.
Held(c) == \E k \in Conn : owner[k] = c

Release(c) == owner' = [k \in Conn |-> IF owner[k] = c THEN Free ELSE owner[k]]

At(c, l) == alive /\ pc[c] = l

Goto(c, l) == pc' = [pc EXCEPT ![c] = l]

Return(c, l, e) == Goto(c, l) /\ err' = [err EXCEPT ![c] = e]

Become(c, s) == session' = [session EXCEPT ![c] = s]

Cut(c) == link' = [link EXCEPT ![c] = "down"]

\* Mistake: WithinReadOnly opens a transaction with the default options.
AccessModeDefault(c) == "ReadWrite"

AccessMode(c) == IF readOnly[c] THEN "ReadOnly" ELSE "ReadWrite"

-------------------------------------------------------------------------------
\* The two entry points; within hands opts to BeginTx.
WithinReadOnly(c) == /\ At(c, "ready")
                     /\ Goto(c, "begin")
                     /\ readOnly' = [readOnly EXCEPT ![c] = TRUE]
                     /\ UNCHANGED <<nested, err, owner, session, link, wrote, alive>>

WithinReadWrite(c) == /\ At(c, "ready")
                      /\ Goto(c, "begin")
                      /\ UNCHANGED <<readOnly, nested, err, owner, session, link, wrote, alive>>

\* BeginTx waits until a connection is free, then opens the transaction on it.
BeginTx(c) == /\ At(c, "begin")
              /\ \E k \in Conn : /\ owner[k] = Free
                                 /\ owner' = [owner EXCEPT ![k] = c]
              /\ Become(c, "open")
              /\ link' = [link EXCEPT ![c] = "up"]
              /\ Goto(c, "fn")
              /\ UNCHANGED <<readOnly, nested, err, wrote, alive>>

\* The context ended while waiting, or the database refused: nothing was held.
BeginTxFails(c) == /\ At(c, "begin")
                   /\ Return(c, "done", "begin")
                   /\ UNCHANGED <<readOnly, nested, owner, session, link, wrote, alive>>

\* fn executes a write on the transaction that QueryerFromContext hands it.  A
\* read-only transaction refuses it and is aborted by the refusal.
Statement(c) == /\ At(c, "fn") /\ link[c] = "up" /\ session[c] = "open"
                /\ IF AccessMode(c) = "ReadOnly"
                     THEN Become(c, "failed") /\ UNCHANGED wrote
                     ELSE wrote' = [wrote EXCEPT ![c] = TRUE] /\ UNCHANGED session
                /\ UNCHANGED <<pc, readOnly, nested, err, owner, link, alive>>

\* A statement is refused: the database aborts the whole transaction.
StatementFails(c) == /\ At(c, "fn") /\ link[c] = "up" /\ session[c] = "open"
                     /\ Become(c, "failed")
                     /\ UNCHANGED <<pc, readOnly, nested, err, owner, link, wrote, alive>>

\* Mistake: within does not look for a transaction in the context.
NestedWithinBegins(c) == /\ At(c, "fn") /\ nested[c] = "no"
                         /\ nested' = [nested EXCEPT ![c] = "inside"]
                         /\ Goto(c, "begin")
                         /\ UNCHANGED <<readOnly, err, owner, session, link, wrote, alive>>

\* fn calls the manager again with txCtx: within finds the transaction in the
\* context, takes no connection and leaves the outcome to the outermost call.
\* One nested call per unit of work is enough to show it.
NestedWithin(c) == /\ At(c, "fn") /\ nested[c] = "no"
                   /\ nested' = [nested EXCEPT ![c] = "inside"]
                   /\ UNCHANGED <<pc, readOnly, err, owner, session, link, wrote, alive>>

NestedReturn(c) == /\ At(c, "fn") /\ nested[c] = "inside"
                   /\ nested' = [nested EXCEPT ![c] = "over"]
                   /\ UNCHANGED <<pc, readOnly, err, owner, session, link, wrote, alive>>

FnSucceeds(c) == /\ At(c, "fn") /\ nested[c] # "inside"
                 /\ Goto(c, "commit")
                 /\ UNCHANGED <<readOnly, nested, err, owner, session, link, wrote, alive>>

\* Mistake: an error of fn is returned without a rollback.
FnFailsNoRollback(c) == /\ At(c, "fn") /\ nested[c] # "inside"
                        /\ Return(c, "done", "fn")
                        /\ UNCHANGED <<readOnly, nested, owner, session, link, wrote, alive>>

FnFails(c) == /\ At(c, "fn") /\ nested[c] # "inside"
              /\ Return(c, "rollback", "fn")
              /\ UNCHANGED <<readOnly, nested, owner, session, link, wrote, alive>>

FnPanics(c) == /\ At(c, "fn")
               /\ Return(c, "deferred", "panic")
               /\ UNCHANGED <<readOnly, nested, owner, session, link, wrote, alive>>

-------------------------------------------------------------------------------
\* tx.Rollback while the transaction is open: the database answers, or the
\* connection is destroyed and the database finds out by itself.  Either way
\* the slot of the pool is free again.
RolledBack(c) == /\ link[c] = "up"
                 /\ Become(c, "rolledback") /\ Release(c) /\ UNCHANGED link

RollbackLost(c) == Cut(c) /\ Release(c) /\ UNCHANGED session

\* fn returned an error: roll back, and join the error of a failed rollback to
\* fn's own so that callers still recognise fn's.
Rollback(c) == /\ At(c, "rollback")
               /\ \/ RolledBack(c) /\ Goto(c, "deferred") /\ UNCHANGED err
                  \/ RollbackLost(c) /\ Return(c, "deferred", "fn+rollback")
               /\ UNCHANGED <<readOnly, nested, wrote, alive>>

\* COMMIT leaves the process.  The database answers ROLLBACK to the COMMIT of
\* an aborted transaction.
SendCommit(c) == /\ At(c, "commit") /\ link[c] = "up"
                 /\ Become(c, IF session[c] = "open" THEN "committing" ELSE "rolledback")
                 /\ Goto(c, "ack")
                 /\ UNCHANGED <<readOnly, nested, err, owner, link, wrote, alive>>

\* Commit fails before anything is sent: the connection is destroyed, or the
\* driver reports the error and leaves the transaction open.
CommitNotSent(c) == /\ At(c, "commit")
                    /\ Return(c, "undo", "commit")
                    /\ \/ Cut(c) /\ Release(c)
                       \/ link[c] = "up" /\ UNCHANGED <<link, owner>>
                    /\ UNCHANGED <<readOnly, nested, session, wrote, alive>>

\* Mistakes: the driver's error reaches the caller as it is; or it is not looked at.
CommitAnsweredUnwrapped(c) == /\ At(c, "ack") /\ link[c] = "up"
                              /\ \/ session[c] = "committed" /\ Return(c, "deferred", "nil")
                                 \/ session[c] = "rolledback"
                                    /\ Return(c, "undo", "ErrTxCommitRollback")
                              /\ Release(c)
                              /\ UNCHANGED <<readOnly, nested, session, link, wrote, alive>>

CommitAnswerIgnored(c) == /\ At(c, "ack") /\ link[c] = "up"
                          /\ session[c] \in {"committed", "rolledback"}
                          /\ Return(c, "deferred", "nil")
                          /\ Release(c)
                          /\ UNCHANGED <<readOnly, nested, session, link, wrote, alive>>

\* The answer to COMMIT arrives; ErrTxCommitRollback is an error of Commit.
CommitAnswered(c) == /\ At(c, "ack") /\ link[c] = "up"
                     /\ \/ session[c] = "committed" /\ Return(c, "deferred", "nil")
                        \/ session[c] = "rolledback" /\ Return(c, "undo", "commit")
                     /\ Release(c)
                     /\ UNCHANGED <<readOnly, nested, session, link, wrote, alive>>

\* Mistake: a lost answer is reported like an error of fn, as if nothing happened.
CommitAnswerLostAsFailure(c) == /\ At(c, "ack")
                                /\ Cut(c) /\ Release(c)
                                /\ Return(c, "undo", "fn")
                                /\ UNCHANGED <<readOnly, nested, session, wrote, alive>>

\* The context ends or the connection dies while the answer is awaited.
CommitAnswerLost(c) == /\ At(c, "ack")
                       /\ Cut(c) /\ Release(c)
                       /\ Return(c, "undo", "commit")
                       /\ UNCHANGED <<readOnly, nested, session, wrote, alive>>

\* The rollback after a failed commit: most often the transaction is closed.
UndoCommit(c) == /\ At(c, "undo")
                 /\ \/ /\ ~Held(c)
                       /\ Goto(c, "deferred") /\ UNCHANGED <<err, owner, session, link>>
                    \/ Held(c) /\ RolledBack(c) /\ Goto(c, "deferred") /\ UNCHANGED err
                    \/ Held(c) /\ RollbackLost(c) /\ Return(c, "deferred", "commit+rollback")
                 /\ UNCHANGED <<readOnly, nested, wrote, alive>>

\* The deferred function, then the return to the caller.  Only a panic finds
\* the transaction open; no recovery interceptor is installed, so the panic
\* then ends the process.
Deferred(c) == /\ At(c, "deferred")
               /\ IF err[c] # "nil" /\ Held(c)
                    THEN RolledBack(c) \/ RollbackLost(c)
                    ELSE UNCHANGED <<owner, session, link>>
               /\ IF err[c] = "panic" THEN UNCHANGED pc ELSE Goto(c, "done")
               /\ UNCHANGED <<readOnly, nested, err, wrote, alive>>

-------------------------------------------------------------------------------
\* The process dies: a panic that nobody recovers, a kill, log.Fatalf.
Die == /\ alive
       /\ alive' = FALSE
       /\ owner' = [k \in Conn |-> Free]
       /\ link' = [c \in Call |-> IF link[c] = "up" THEN "down" ELSE link[c]]
       /\ UNCHANGED <<pc, readOnly, nested, err, session, wrote>>

PanicUnwinds(c) == At(c, "deferred") /\ err[c] = "panic" /\ ~Held(c) /\ Die

\* The network cuts the connection of a transaction in progress.
ConnectionDies(c) == /\ alive /\ Held(c) /\ link[c] = "up"
                     /\ Cut(c)
                     /\ UNCHANGED <<pc, readOnly, nested, err, owner, session, wrote, alive>>

\* The database: it decides a COMMIT it received, with or without a client
\* left to hear of it, and rolls back a transaction whose client is gone.
DatabaseCommits(c) == /\ session[c] = "committing"
                      /\ Become(c, "committed")
                      /\ UNCHANGED <<pc, readOnly, nested, err, owner, link, wrote, alive>>

DatabaseRollsBack(c) == /\ \/ session[c] = "committing"
                           \/ session[c] \in {"open", "failed"} /\ link[c] = "down"
                        /\ Become(c, "rolledback")
                        /\ UNCHANGED <<pc, readOnly, nested, err, owner, link, wrote, alive>>

-------------------------------------------------------------------------------
FnEnds(c) == FnSucceeds(c) \/ FnFails(c) \/ FnPanics(c) \/ NestedReturn(c)

\* What a goroutine does by itself once its RPC has arrived.
Goroutine(c) == \/ BeginTx(c) \/ FnEnds(c) \/ Rollback(c)
                \/ SendCommit(c) \/ CommitNotSent(c) \/ CommitAnswered(c)
                \/ UndoCommit(c) \/ Deferred(c) \/ PanicUnwinds(c)
                \/ (link[c] = "down" /\ CommitAnswerLost(c))

Database(c) == DatabaseCommits(c) \/ DatabaseRollsBack(c)

Next == \/ \E c \in Call : \/ WithinReadOnly(c) \/ WithinReadWrite(c)
                           \/ BeginTxFails(c)
                           \/ Statement(c) \/ StatementFails(c) \/ NestedWithin(c)
                           \/ Goroutine(c) \/ CommitAnswerLost(c)
                           \/ ConnectionDies(c) \/ Database(c)
        \/ Die

Spec == Init /\ [][Next]_vars

\* Goroutines are scheduled and fn ends, because every statement is answered or
\* fails; the database decides what it received and notices a closed socket.
\* Nothing obliges an RPC to arrive, a connection or the process to fail, or
\* the answer to COMMIT to be lost while the connection is up.
Fairness == \A c \in Call : WF_vars(Goroutine(c)) /\ WF_vars(Database(c))

FairSpec == Spec /\ Fairness

-------------------------------------------------------------------------------
Returned(c) == pc[c] = "done"

\* Connections are neither shared nor leaked: each is held by one call at most,
\* a call never holds two (so nested calls cannot starve the pool), and a call
\* that has not begun or has returned holds none, whichever way it returned.
PoolDiscipline ==
    /\ \A k, l \in Conn : owner[k] = owner[l] /\ owner[k] # Free => k = l
    /\ \A c \in Call : pc[c] \in {"ready", "begin", "done"} => ~Held(c)

\* The error `within` returns tells the truth: nil means that the transaction is
\* committed, and an error raised before COMMIT means that no COMMIT was ever
\* sent, even if the rollback failed and the database has yet to notice.
HonestError ==
    \A c \in Call : Returned(c) =>
        /\ err[c] = "nil" => session[c] = "committed"
        /\ err[c] \in ErrBeforeCommit => session[c] \notin {"committing", "committed"}

\* A unit of work started by WithinReadOnly makes nothing durable, whatever its
\* function executes.
ReadOnlyWritesNothing ==
    \A c \in Call : readOnly[c] /\ session[c] = "committed" => ~wrote[c]

\* Every call of the manager returns, unless the process dies first: no order of
\* calls, nested or not, exhausts the pool for good.
CallsReturn == \A c \in Call : pc[c] = "begin" ~> (Returned(c) \/ ~alive)

\* No transaction stays open in the database (with its locks) for ever, even
\* when its rollback was lost or its process died.
SessionsEnd == \A c \in Call :
    session[c] = "open" ~> session[c] \in {"committed", "rolledback"}

\* Refinement: what a caller has been told, and what became durable.
Told(c) == CASE Returned(c) /\ err[c] = "nil" -> "ok"
             [] Returned(c) /\ err[c] \in ErrBeforeCommit -> "failed"
             [] Returned(c) /\ err[c] \in ErrOfCommit -> "unknown"
             [] ~Returned(c) /\ ~alive -> "unknown"
             [] OTHER -> "none"

Abstract == INSTANCE UnitOfWork
              WITH outcome <- [c \in Call |-> Told(c)],
                   effect <- [c \in Call |-> session[c] = "committed"]

\* The manager implements the unit of work its callers rely on.
ImplementsUnitOfWork == Abstract!Spec
===============================================================================
