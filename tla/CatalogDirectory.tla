-------------------------- MODULE CatalogDirectory --------------------------
(***************************************************************************)
(* What the catalog promises its callers: a directory of schemas, each with *)
(* its tables.  A schema that is created starts empty, whatever its name    *)
(* stood for before, and dropping a schema makes its tables unreachable.    *)
(***************************************************************************)
CONSTANTS SchemaNames, TableNames, DEFAULT_SCHEMA, Gone

VARIABLE dir         \* the tables of each schema, or Gone

Init == dir = [s \in SchemaNames |-> Gone]

CreateSchema(s) == dir[s] = Gone /\ dir' = [dir EXCEPT ![s] = {}]

DropSchema(s) == s # DEFAULT_SCHEMA /\ dir[s] # Gone /\ dir' = [dir EXCEPT ![s] = Gone]

CreateTable(s, t) ==
    dir[s] # Gone /\ t \notin dir[s] /\ dir' = [dir EXCEPT ![s] = @ \cup {t}]

DropTable(s, t) ==
    dir[s] # Gone /\ t \in dir[s] /\ dir' = [dir EXCEPT ![s] = @ \ {t}]

(* The catalog is destroyed, or its process dies.                          *)
Clear == dir' = [s \in SchemaNames |-> Gone]

Next ==
    \/ \E s \in SchemaNames :
         \/ CreateSchema(s) \/ DropSchema(s)
         \/ \E t \in TableNames : CreateTable(s, t) \/ DropTable(s, t)
    \/ Clear

Spec == Init /\ [][Next]_dir
=============================================================================
