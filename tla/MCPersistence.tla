----------------------------- MODULE MCPersistence -----------------------------
(* Persistence on small instances: an early and a late model, two threads.   *)
EXTENDS Persistence

OneModel == <<"Invoice">>

\* An archive with one row in each file.
MCArchive ==
    LET row == CHOOSE r \in Rows : TRUE IN
    [m \in ToSet(Archived) |-> [rows |-> [NoRows EXCEPT ![1] = row], next |-> 2]]
===============================================================================
