----------------------------- MODULE GracefulService -----------------------------
(* What a client, and whoever stops the server, may rely on: work is accepted  *)
(* while the service is up; a service that ends in order has finished whatever *)
(* it had accepted; only one that breaks loses work.                           *)
CONSTANTS Call

VARIABLES phase,                   \* "off", "up", "over" or "broken"
          task                     \* of each call

serviceVars == <<phase, task>>

Init == phase = "off" /\ task = [c \in Call |-> "none"]

Open == phase = "off" /\ phase' = "up" /\ UNCHANGED task

Accept(c) == /\ phase = "up" /\ task[c] = "none"
             /\ task' = [task EXCEPT ![c] = "accepted"]
             /\ UNCHANGED phase

\* The work is done; its client may have gone meanwhile.
Finish(c) == /\ phase = "up" /\ task[c] = "accepted"
             /\ \E t \in {"answered", "unheard"} : task' = [task EXCEPT ![c] = t]
             /\ UNCHANGED phase

End == /\ phase = "up"
       /\ \A c \in Call : task[c] # "accepted"
       /\ phase' = "over" /\ UNCHANGED task

Break == /\ phase \in {"off", "up"}
         /\ phase' = "broken"
         /\ task' = [c \in Call |-> IF task[c] = "accepted" THEN "lost" ELSE task[c]]

Next == Open \/ End \/ Break \/ \E c \in Call : Accept(c) \/ Finish(c)

Spec == Init /\ [][Next]_serviceVars
===============================================================================
