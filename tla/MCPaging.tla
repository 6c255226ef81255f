-------------------------------- MODULE MCPaging --------------------------------
(* A walk over a list of at most three rows, with pages of one or two rows.     *)
EXTENDS Paging

MCId == 1..3
MCTime == 1..2
===============================================================================
