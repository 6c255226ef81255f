------------------------------ MODULE UnitOfWork ------------------------------
(* What a caller of TransactionManager.WithinReadWrite or WithinReadOnly may   *)
(* rely on.  A unit of work takes effect at most once.  A nil error means that *)
(* it did, an error raised before COMMIT was sent means that it never will,    *)
(* and only an error of COMMIT itself, or the death of the process, leaves the *)
(* caller not knowing.                                                         *)
CONSTANT Call                       \* one element per unit of work

VARIABLES outcome,                  \* what the caller has been told
          effect                    \* TRUE once the writes are durable

unitVars == <<outcome, effect>>

Init == /\ outcome = [c \in Call |-> "none"]
        /\ effect = [c \in Call |-> FALSE]

\* The writes become durable: before the answer, or after an answer that left
\* the caller in doubt.
Apply(c) == /\ outcome[c] \in {"none", "unknown"}
            /\ ~effect[c]
            /\ effect' = [effect EXCEPT ![c] = TRUE]
            /\ UNCHANGED outcome

Tell(c, told) == /\ outcome[c] = "none"
                 /\ outcome' = [outcome EXCEPT ![c] = told]

\* Durable before the answer, or at the same instant.
Succeed(c) == Tell(c, "ok") /\ effect' = [effect EXCEPT ![c] = TRUE]

Fail(c) == ~effect[c] /\ Tell(c, "failed") /\ UNCHANGED effect

\* One step may leave several callers in doubt: they share a process.
Lose(S) == /\ \A c \in S : outcome[c] = "none"
           /\ outcome' = [c \in Call |-> IF c \in S THEN "unknown" ELSE outcome[c]]
           /\ UNCHANGED effect

Next == \/ \E c \in Call : Apply(c) \/ Succeed(c) \/ Fail(c)
        \/ \E S \in SUBSET Call : Lose(S)

Spec == Init /\ [][Next]_unitVars
===============================================================================
