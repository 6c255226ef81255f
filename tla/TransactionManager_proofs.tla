----------------------- MODULE TransactionManager_proofs -----------------------
(* Proofs about TransactionManager, for any number of calls and connections.  *)
(* They need no assumption beyond Free not being a call.                      *)
EXTENDS TransactionManager, TLAPS

NotCommitting(c) == session[c] \notin {"committing", "committed"}

\* The error a call carries is fixed by where it stands in `within`.
ErrAtLocation ==
    \A c \in Call :
        /\ pc[c] \in {"ready", "begin", "fn", "commit", "ack"} => err[c] = "pending"
        /\ pc[c] = "rollback" => err[c] = "fn"
        /\ pc[c] = "undo" => err[c] = "commit"
        /\ pc[c] \in {"deferred", "done"} => err[c] # "pending"

\* Until COMMIT is sent the database has nothing to commit, and an error raised
\* before it keeps it so for ever.
SessionAtLocation ==
    \A c \in Call :
        /\ pc[c] \in {"ready", "begin"} => session[c] = "none"
        /\ pc[c] \in {"fn", "rollback", "commit"} => NotCommitting(c)
        /\ err[c] \in ErrBeforeCommit => NotCommitting(c)
        /\ err[c] = "nil" => session[c] = "committed"
        /\ pc[c] = "undo" /\ Held(c) => NotCommitting(c)

\* Who may still hold a connection: a call inside its transaction, or a panic
\* on its way through the deferred function; nobody once the process is dead.
HoldersInside ==
    /\ \A k, l \in Conn : owner[k] = owner[l] /\ owner[k] # Free => k = l
    /\ \A c \in Call :
          /\ pc[c] \in {"ready", "begin", "done"} => ~Held(c)
          /\ pc[c] = "deferred" /\ err[c] # "panic" => ~Held(c)
    /\ ~alive => \A c \in Call : ~Held(c)

\* A write needs a read-write transaction, and the mode is chosen before any.
WritersReadWrite ==
    \A c \in Call : /\ pc[c] = "ready" => ~wrote[c]
                    /\ wrote[c] => ~readOnly[c]

IInv == TypeOK /\ ErrAtLocation /\ SessionAtLocation /\ HoldersInside /\ WritersReadWrite
-------------------------------------------------------------------------------
\* The invariant holds at first,
LEMMA InitIInv == Init => IInv
  BY FreeAssumption DEF Init, IInv, TypeOK, ErrAtLocation, SessionAtLocation, HoldersInside,
     WritersReadWrite, Held, NotCommitting, Location, Session, ErrBeforeCommit, ErrOfCommit

\* What giving a connection back does to the pool.
LEMMA ReleaseLemma ==
  ASSUME NEW c \in Call, TypeOK, Release(c)
  PROVE  /\ owner' \in [Conn -> Call \cup {Free}]
         /\ ~Held(c)'
         /\ \A d \in Call : d # c => (Held(d)' <=> Held(d))
         /\ HoldersInside => \A k, l \in Conn :
                                owner'[k] = owner'[l] /\ owner'[k] # Free => k = l
  BY FreeAssumption DEF TypeOK, Release, Held, HoldersInside

\* and each action preserves it: one step per action.
LEMMA NextIInv == IInv /\ [Next]_vars => IInv'
<1> SUFFICES ASSUME IInv, [Next]_vars PROVE IInv'
  OBVIOUS
<1> USE FreeAssumption DEF IInv, TypeOK, ErrAtLocation, SessionAtLocation, HoldersInside, WritersReadWrite,
    NotCommitting, At, Goto, Return, Become, Cut, AccessMode, Location, Session, ErrBeforeCommit, ErrOfCommit
<1>1. ASSUME NEW c \in Call, WithinReadOnly(c) PROVE IInv'
  BY <1>1 DEF WithinReadOnly, Held
<1>2. ASSUME NEW c \in Call, WithinReadWrite(c) PROVE IInv'
  BY <1>2 DEF WithinReadWrite, Held
<1>3. ASSUME NEW c \in Call, BeginTx(c) PROVE IInv'
  BY <1>3 DEF BeginTx, Held
<1>4. ASSUME NEW c \in Call, BeginTxFails(c) PROVE IInv'
  BY <1>4 DEF BeginTxFails, Held
<1>5. ASSUME NEW c \in Call, Statement(c) PROVE IInv'
  <2>1. CASE AccessMode(c) = "ReadOnly"
    BY <1>5, <2>1 DEF Statement, Held
  <2>2. CASE AccessMode(c) # "ReadOnly"
    <3>1. ~readOnly[c] /\ pc[c] = "fn"
      BY <1>5, <2>2 DEF Statement
    <3>2. /\ wrote' = [wrote EXCEPT ![c] = TRUE]
          /\ UNCHANGED <<pc, readOnly, nested, err, owner, session, link, alive>>
      BY <1>5, <2>2 DEF Statement
    <3> QED
      BY <3>1, <3>2 DEF Held
  <2> QED
    BY <2>1, <2>2
<1>6. ASSUME NEW c \in Call, StatementFails(c) PROVE IInv'
  BY <1>6 DEF StatementFails, Held
<1>7. ASSUME NEW c \in Call, NestedWithin(c) PROVE IInv'
  BY <1>7 DEF NestedWithin, Held
<1>8. ASSUME NEW c \in Call, NestedReturn(c) PROVE IInv'
  BY <1>8 DEF NestedReturn, Held
<1>9. ASSUME NEW c \in Call, FnSucceeds(c) PROVE IInv'
  BY <1>9 DEF FnSucceeds, Held
<1>10. ASSUME NEW c \in Call, FnFails(c) PROVE IInv'
  BY <1>10 DEF FnFails, Held
<1>11. ASSUME NEW c \in Call, FnPanics(c) PROVE IInv'
  BY <1>11 DEF FnPanics, Held
<1>12. ASSUME NEW c \in Call, Rollback(c) PROVE IInv'
  <2>1. Release(c) /\ UNCHANGED <<readOnly, nested, wrote, alive>>
    BY <1>12 DEF Rollback, RolledBack, RollbackLost
  <2>2. CASE RolledBack(c) /\ Goto(c, "deferred") /\ UNCHANGED err
    BY <1>12, <2>1, <2>2, ReleaseLemma DEF Rollback, RolledBack
  <2>3. CASE RollbackLost(c) /\ Return(c, "deferred", "fn+rollback")
    BY <1>12, <2>1, <2>3, ReleaseLemma DEF Rollback, RollbackLost
  <2> QED
    BY <1>12, <2>2, <2>3 DEF Rollback
<1>13. ASSUME NEW c \in Call, SendCommit(c) PROVE IInv'
  BY <1>13 DEF SendCommit, Held
<1>14. ASSUME NEW c \in Call, CommitNotSent(c) PROVE IInv'
  <2>1. CASE Cut(c) /\ Release(c)
    BY <1>14, <2>1, ReleaseLemma DEF CommitNotSent
  <2>2. CASE UNCHANGED <<link, owner>>
    BY <1>14, <2>2 DEF CommitNotSent, Held
  <2> QED
    BY <1>14, <2>1, <2>2 DEF CommitNotSent
<1>15. ASSUME NEW c \in Call, CommitAnswered(c) PROVE IInv'
  <2>1. CASE session[c] = "committed" /\ Return(c, "deferred", "nil")
    BY <1>15, <2>1, ReleaseLemma DEF CommitAnswered
  <2>2. CASE session[c] = "rolledback" /\ Return(c, "undo", "commit")
    BY <1>15, <2>2, ReleaseLemma DEF CommitAnswered
  <2> QED
    BY <1>15, <2>1, <2>2 DEF CommitAnswered
<1>16. ASSUME NEW c \in Call, CommitAnswerLost(c) PROVE IInv'
  BY <1>16, ReleaseLemma DEF CommitAnswerLost
<1>17. ASSUME NEW c \in Call, UndoCommit(c) PROVE IInv'
  <2>1. CASE ~Held(c) /\ Goto(c, "deferred") /\ UNCHANGED <<err, owner, session, link>>
    <3>1. \A d \in Call : Held(d)' <=> Held(d)
      BY <2>1 DEF Held
    <3> QED
      BY <1>17, <2>1, <3>1 DEF UndoCommit
  <2>2. CASE Held(c) /\ RolledBack(c) /\ Goto(c, "deferred") /\ UNCHANGED err
    BY <1>17, <2>2, ReleaseLemma DEF UndoCommit, RolledBack
  <2>3. CASE Held(c) /\ RollbackLost(c) /\ Return(c, "deferred", "commit+rollback")
    BY <1>17, <2>3, ReleaseLemma DEF UndoCommit, RollbackLost
  <2> QED
    BY <1>17, <2>1, <2>2, <2>3 DEF UndoCommit
<1>18. ASSUME NEW c \in Call, Deferred(c) PROVE IInv'
  <2>1. CASE Held(c)
    <3>1. err[c] = "panic" /\ Release(c) /\ UNCHANGED pc
      BY <1>18, <2>1 DEF Deferred, RolledBack, RollbackLost
    <3>2. CASE RolledBack(c)
      BY <1>18, <3>1, <3>2, ReleaseLemma DEF Deferred, RolledBack
    <3>3. CASE RollbackLost(c)
      BY <1>18, <3>1, <3>3, ReleaseLemma DEF Deferred, RollbackLost
    <3> QED
      BY <1>18, <2>1, <3>1, <3>2, <3>3 DEF Deferred
  <2>2. CASE ~Held(c)
    <3>1. UNCHANGED <<owner, session, link>>
      BY <1>18, <2>2 DEF Deferred
    <3>2. \A d \in Call : Held(d)' <=> Held(d)
      BY <3>1 DEF Held
    <3> QED
      BY <1>18, <2>2, <3>1, <3>2 DEF Deferred
  <2> QED
    BY <2>1, <2>2
<1>23. ASSUME Die PROVE IInv'
  <2>1. \A c \in Call : ~Held(c)'
    BY <1>23 DEF Die, Held
  <2>2. TypeOK'
    BY <1>23 DEF Die
  <2> QED
    BY <1>23, <2>1, <2>2 DEF Die, Held
<1>19. ASSUME NEW c \in Call, PanicUnwinds(c) PROVE IInv'
  BY <1>19, <1>23 DEF PanicUnwinds
<1>20. ASSUME NEW c \in Call, ConnectionDies(c) PROVE IInv'
  BY <1>20 DEF ConnectionDies, Held
<1>21. ASSUME NEW c \in Call, DatabaseCommits(c) PROVE IInv'
  BY <1>21 DEF DatabaseCommits, Held
<1>22. ASSUME NEW c \in Call, DatabaseRollsBack(c) PROVE IInv'
  BY <1>22 DEF DatabaseRollsBack, Held
<1>24. CASE UNCHANGED vars
  BY <1>24 DEF vars, Held
<1> QED
  BY <1>1, <1>2, <1>3, <1>4, <1>5, <1>6, <1>7, <1>8, <1>9, <1>10, <1>11, <1>12,
     <1>13, <1>14, <1>15, <1>16, <1>17, <1>18, <1>19, <1>20, <1>21, <1>22, <1>23,
     <1>24 DEF Next, Goroutine, FnEnds, Database
-------------------------------------------------------------------------------
\* Every state the manager reaches satisfies the inductive invariant.
THEOREM Inductive == Spec => []IInv
<1> QED
  BY InitIInv, NextIInv, PTL DEF Spec

\* The variables keep their types.
THEOREM TypeCorrect == Spec => []TypeOK
<1>1. IInv => TypeOK
  BY DEF IInv
<1> QED
  BY <1>1, Inductive, PTL

\* No connection is shared or leaked, with any number of calls and connections.
THEOREM PoolIsDisciplined == Spec => []PoolDiscipline
<1>1. IInv => PoolDiscipline
  BY DEF IInv, HoldersInside, PoolDiscipline
<1> QED
  BY <1>1, Inductive, PTL

\* The error that `within` returns tells what became of the transaction.
THEOREM ErrorsAreHonest == Spec => []HonestError
<1>1. IInv => HonestError
  BY DEF IInv, SessionAtLocation, NotCommitting, HonestError
<1> QED
  BY <1>1, Inductive, PTL

\* Nothing a read-only unit of work executes becomes durable.
THEOREM ReadOnlyIsReadOnly == Spec => []ReadOnlyWritesNothing
<1>1. IInv => ReadOnlyWritesNothing
  BY DEF IInv, WritersReadWrite, ReadOnlyWritesNothing
<1> QED
  BY <1>1, Inductive, PTL
-------------------------------------------------------------------------------
\* What a step changes of what was told and of what is durable.
SameTold(c) == Told(c)' = Told(c)
SameEffect(c) == (session[c] = "committed")' = (session[c] = "committed")

\* A step in which nobody is told anything and nothing becomes durable.
Silent == \A c \in Call : SameTold(c) /\ SameEffect(c)

\* A silent step is a stutter of the abstract unit of work.
LEMMA SilentStutters == Silent => UNCHANGED Abstract!unitVars
  BY DEF Silent, SameTold, SameEffect, Abstract!unitVars

\* A step that tells one caller something is a step of the unit of work.
LEMMA TellRefines ==
  ASSUME NEW c \in Call, NEW told, Told(c) = "none", Told(c)' = told,
         \A d \in Call : SameEffect(d) /\ (d # c => SameTold(d))
  PROVE  /\ Abstract!Tell(c, told)
         /\ UNCHANGED [d \in Call |-> session[d] = "committed"]
  BY DEF Abstract!Tell, SameEffect, SameTold

\* A set of calls that die, or are left in doubt, is a Lose.
LEMMA LoseRefines ==
  ASSUME NEW S \in SUBSET Call, \A d \in S : Told(d) = "none" /\ Told(d)' = "unknown",
         \A d \in Call : SameEffect(d) /\ (d \notin S => SameTold(d))
  PROVE  Abstract!Lose(S)
  BY DEF Abstract!Lose, SameEffect, SameTold

\* What is told changes only when a call returns or the process dies.
LEMMA ToldAtReturn ==
  ASSUME NEW d \in Call, UNCHANGED alive,
         \/ pc[d] # "done" /\ pc'[d] # "done"
         \/ pc'[d] = pc[d] /\ err'[d] = err[d]
  PROVE  SameTold(d)
  BY DEF SameTold, Told, Returned

\* The death of the process leaves every call in doubt that had not returned.
LEMMA DieRefines == IInv /\ Die => Abstract!Next
<1> SUFFICES ASSUME IInv, Die PROVE Abstract!Next
  OBVIOUS
<1> DEFINE S == {c \in Call : Told(c) = "none"}
<1>1. UNCHANGED <<pc, err, session>> /\ alive /\ ~alive'
  BY DEF Die
<1>2. \A c \in S : Told(c) = "none" /\ Told(c)' = "unknown"
  BY <1>1 DEF Told, Returned, IInv, TypeOK, ErrAtLocation, ErrBeforeCommit, ErrOfCommit
<1>3. \A c \in Call : SameEffect(c) /\ (c \notin S => SameTold(c))
  BY <1>1 DEF SameEffect, SameTold, Told, Returned
<1>4. Abstract!Lose(S)
  BY <1>2, <1>3, LoseRefines
<1> QED
  BY <1>4 DEF Abstract!Next

\* Every step of the manager is a step of the unit of work, or is invisible.
LEMMA StepRefines == IInv /\ [Next]_vars => [Abstract!Next]_(Abstract!unitVars)
<1> SUFFICES ASSUME IInv, [Next]_vars PROVE Abstract!Next \/ Silent
  BY SilentStutters
<1> USE DEF IInv, TypeOK, ErrAtLocation, SessionAtLocation, NotCommitting, At, Goto, Return,
    Become, Location, Session, ErrBeforeCommit, ErrOfCommit
<1>1. ASSUME NEW c \in Call, WithinReadOnly(c) PROVE Silent
  BY <1>1, ToldAtReturn DEF WithinReadOnly, Silent, SameEffect, RolledBack, RollbackLost
<1>2. ASSUME NEW c \in Call, WithinReadWrite(c) PROVE Silent
  BY <1>2, ToldAtReturn DEF WithinReadWrite, Silent, SameEffect, RolledBack, RollbackLost
<1>3. ASSUME NEW c \in Call, BeginTx(c) PROVE Silent
  BY <1>3, ToldAtReturn DEF BeginTx, Silent, SameEffect, RolledBack, RollbackLost
<1>4. ASSUME NEW c \in Call, Statement(c) PROVE Silent
  BY <1>4, ToldAtReturn DEF Statement, Silent, SameEffect, RolledBack, RollbackLost
<1>5. ASSUME NEW c \in Call, StatementFails(c) PROVE Silent
  BY <1>5, ToldAtReturn DEF StatementFails, Silent, SameEffect, RolledBack, RollbackLost
<1>6. ASSUME NEW c \in Call, NestedWithin(c) PROVE Silent
  BY <1>6, ToldAtReturn DEF NestedWithin, Silent, SameEffect, RolledBack, RollbackLost
<1>7. ASSUME NEW c \in Call, NestedReturn(c) PROVE Silent
  BY <1>7, ToldAtReturn DEF NestedReturn, Silent, SameEffect, RolledBack, RollbackLost
<1>8. ASSUME NEW c \in Call, FnSucceeds(c) PROVE Silent
  BY <1>8, ToldAtReturn DEF FnSucceeds, Silent, SameEffect, RolledBack, RollbackLost
<1>9. ASSUME NEW c \in Call, FnFails(c) PROVE Silent
  BY <1>9, ToldAtReturn DEF FnFails, Silent, SameEffect, RolledBack, RollbackLost
<1>10. ASSUME NEW c \in Call, FnPanics(c) PROVE Silent
  BY <1>10, ToldAtReturn DEF FnPanics, Silent, SameEffect, RolledBack, RollbackLost
<1>11. ASSUME NEW c \in Call, Rollback(c) PROVE Silent
  BY <1>11, ToldAtReturn DEF Rollback, Silent, SameEffect, RolledBack, RollbackLost
<1>12. ASSUME NEW c \in Call, SendCommit(c) PROVE Silent
  BY <1>12, ToldAtReturn DEF SendCommit, Silent, SameEffect, RolledBack, RollbackLost
<1>13. ASSUME NEW c \in Call, CommitNotSent(c) PROVE Silent
  BY <1>13, ToldAtReturn DEF CommitNotSent, Silent, SameEffect, RolledBack, RollbackLost
<1>14. ASSUME NEW c \in Call, CommitAnswered(c) PROVE Silent
  BY <1>14, ToldAtReturn DEF CommitAnswered, Silent, SameEffect, RolledBack, RollbackLost
<1>15. ASSUME NEW c \in Call, CommitAnswerLost(c) PROVE Silent
  BY <1>15, ToldAtReturn DEF CommitAnswerLost, Silent, SameEffect, RolledBack, RollbackLost
<1>16. ASSUME NEW c \in Call, UndoCommit(c) PROVE Silent
  BY <1>16, ToldAtReturn DEF UndoCommit, Silent, SameEffect, RolledBack, RollbackLost
<1>17. ASSUME NEW c \in Call, ConnectionDies(c) PROVE Silent
  BY <1>17, ToldAtReturn DEF ConnectionDies, Silent, SameEffect, RolledBack, RollbackLost
<1>18. ASSUME NEW c \in Call, DatabaseRollsBack(c) PROVE Silent
  BY <1>18, ToldAtReturn DEF DatabaseRollsBack, Silent, SameEffect, RolledBack, RollbackLost
<1>19. ASSUME NEW c \in Call, BeginTxFails(c) PROVE Abstract!Next
  <2>1. Told(c) = "none" /\ Told(c)' = "failed"
    BY <1>19 DEF BeginTxFails, Told, Returned
  <2>2. \A d \in Call : SameEffect(d) /\ (d # c => SameTold(d))
    BY <1>19, ToldAtReturn DEF BeginTxFails, SameEffect
  <2>3. Abstract!Tell(c, "failed") /\ UNCHANGED [d \in Call |-> session[d] = "committed"]
    BY <2>1, <2>2, TellRefines
  <2> QED
    BY <1>19, <2>3 DEF BeginTxFails, Abstract!Next, Abstract!Fail
<1>20. ASSUME NEW c \in Call, Deferred(c) PROVE Abstract!Next \/ Silent
  <2>1. \A d \in Call : SameEffect(d) /\ (d # c => SameTold(d))
    <3>1. \A d \in Call : d # c => SameTold(d)
      BY <1>20, ToldAtReturn DEF Deferred
    <3>2. session[c] = "committed" => UNCHANGED session
      BY <1>20 DEF Deferred, HoldersInside
    <3>3. \A d \in Call : SameEffect(d)
      BY <1>20, <3>2 DEF Deferred, SameEffect, RolledBack, RollbackLost
    <3> QED
      BY <3>1, <3>3
  <2>2. CASE err[c] = "panic"
    BY <1>20, <2>1, <2>2, ToldAtReturn DEF Deferred, Silent
  <2>3. CASE err[c] # "panic"
    <3>1. pc' = [pc EXCEPT ![c] = "done"] /\ Told(c) = "none" /\ UNCHANGED err
      BY <1>20, <2>3 DEF Deferred, Told, Returned
    <3>2. CASE err[c] = "nil"
      <4>1. Told(c)' = "ok"
        BY <3>1, <3>2 DEF Told, Returned
      <4>2. Abstract!Tell(c, "ok") /\ UNCHANGED [d \in Call |-> session[d] = "committed"]
        BY <2>1, <3>1, <4>1, TellRefines
      <4> DEFINE effect == [d \in Call |-> session[d] = "committed"]
      <4>3. session[c] = "committed"
        BY <3>2
      <4>4. effect = [effect EXCEPT ![c] = TRUE]
        BY <4>3, Zenon
      <4>5. effect' = [effect EXCEPT ![c] = TRUE]
        BY <4>2, <4>4
      <4>6. Abstract!Succeed(c)
        BY <4>2, <4>5 DEF Abstract!Succeed
      <4> QED
        BY <4>6 DEF Abstract!Next
    <3>3. CASE err[c] \in ErrBeforeCommit
      <4>1. Told(c)' = "failed"
        BY <3>1, <3>3 DEF Told, Returned
      <4>2. Abstract!Tell(c, "failed") /\ UNCHANGED [d \in Call |-> session[d] = "committed"]
        BY <2>1, <3>1, <4>1, TellRefines
      <4> QED
        BY <3>3, <4>2 DEF Abstract!Next, Abstract!Fail
    <3>4. CASE err[c] \in ErrOfCommit
      <4>1. Told(c)' = "unknown"
        BY <3>1, <3>4 DEF Told, Returned
      <4>2. Abstract!Lose({c})
        BY <2>1, <3>1, <4>1, LoseRefines
      <4> QED
        BY <4>2 DEF Abstract!Next
    <3> QED
      BY <1>20, <3>2, <3>3, <3>4 DEF Deferred
  <2> QED
    BY <2>2, <2>3
<1>21. ASSUME NEW c \in Call, DatabaseCommits(c) PROVE Abstract!Next
  <2>1. \A d \in Call : SameTold(d)
    BY <1>21, ToldAtReturn DEF DatabaseCommits
  <2>2. Told(c) \in {"none", "unknown"} /\ session[c] # "committed"
    BY <1>21 DEF DatabaseCommits, Told, Returned
  <2>3. session' = [session EXCEPT ![c] = "committed"]
    BY <1>21 DEF DatabaseCommits
  <2>4. Abstract!Apply(c)
    BY <2>1, <2>2, <2>3 DEF Abstract!Apply, SameTold
  <2> QED
    BY <2>4 DEF Abstract!Next
<1>22. ASSUME Die \/ \E c \in Call : PanicUnwinds(c) PROVE Abstract!Next
  BY <1>22, DieRefines DEF PanicUnwinds
<1>23. CASE UNCHANGED vars
  BY <1>23, ToldAtReturn DEF vars, Silent, SameEffect
<1> QED
  BY <1>1, <1>2, <1>3, <1>4, <1>5, <1>6, <1>7, <1>8, <1>9, <1>10, <1>11, <1>12,
     <1>13, <1>14, <1>15, <1>16, <1>17, <1>18, <1>19, <1>20, <1>21, <1>22, <1>23
     DEF Next, Goroutine, FnEnds, Database

\* The manager starts as the abstract unit of work does.
LEMMA InitRefines == Init => Abstract!Init
  BY DEF Init, Abstract!Init, Told, Returned

\* The manager implements the unit of work, for any number of calls and of
\* connections: a caller is never told anything that the database belies.
THEOREM ManagerImplementsUnitOfWork == Spec => ImplementsUnitOfWork
<1> QED
  BY InitRefines, StepRefines, Inductive, PTL DEF Spec, ImplementsUnitOfWork, Abstract!Spec
===============================================================================
