----------------------------- MODULE MCListWrite -----------------------------
(***************************************************************************)
(* Instances of ListWrite: two calls on a list of two entries.             *)
(***************************************************************************)
EXTENDS ListWrite

CONSTANTS c1, c2
=============================================================================
