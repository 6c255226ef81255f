----------------------------- MODULE MCMigrations -----------------------------
(* Runs of the migration tool over every small database.                       *)
EXTENDS Migrations, TLC

CONSTANTS p1, p2, a, b, m1, m2
===============================================================================
