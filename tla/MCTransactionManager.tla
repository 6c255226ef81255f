------------------------- MODULE MCTransactionManager -------------------------
(* Two units of work on one connection: the second has to wait for the first,  *)
(* but may begin while the transaction of the first is still in the database.  *)
EXTENDS TransactionManager

CONSTANTS c1, c2, k1
===============================================================================
