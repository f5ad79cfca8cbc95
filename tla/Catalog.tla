------------------------------ MODULE Catalog ------------------------------
(***************************************************************************)
(* The catalog (src/catalog/catalog.c): schemas and tables as chains of     *)
(* versions.  A CatalogSet maps a name to the newest version; `child' leads  *)
(* to the version before it, `parent' back.  A chain ends in a dummy, and a  *)
(* dropped name has a tombstone as its newest version.  Nothing is freed     *)
(* before the catalog is destroyed.                                         *)
(*                                                                         *)
(* An address is a number; set 0 is catalog->schemas, set i is the `tables'  *)
(* of the schema at address i.  hmap is the finite map that Hmap implements. *)
(* Columns and the data table of a table are left out.  The catalog belongs  *)
(* to one thread: every call is one step.                                   *)
(*                                                                         *)
(* The code uses two allocations without looking at the result: the strdup   *)
(* of a tombstone's name and the calloc of hmap_init's buckets.  When one of  *)
(* them fails the call goes on, and a later call dereferences NULL: the       *)
(* process dies, and its memory with it.                                    *)
(***************************************************************************)
EXTENDS Integers, FiniteSets, FiniteSetsExt

CONSTANTS
    SchemaNames, TableNames,
    MaxEntries,      \* bound: addresses malloc may return
    MayFail          \* whether an allocation may fail although addresses are left

CONSTANTS DEFAULT_SCHEMA, Gone

NULL == 0

ASSUME CatalogAssumption ==
    /\ MaxEntries \in Nat /\ MayFail \in BOOLEAN
    /\ NULL \notin SchemaNames \cup TableNames
    /\ SchemaNames \cap TableNames = {}
    /\ \A tables \in SUBSET TableNames : Gone # tables

Ids   == 1 .. MaxEntries
Sets  == {0} \cup Ids
Names == SchemaNames \cup TableNames

VARIABLES
    alive,           \* catalog_create has returned and catalog_destroy has not
    ent,             \* the entry at each address
    data,            \* each CatalogSet's hmap: the newest version of a name
    no_buckets       \* the hmaps whose buckets are NULL: calloc failed in hmap_init

\* History: since the process started,
VARIABLES
    unchecked,       \* an allocation that nobody checks has failed
    died             \* NULL was dereferenced

vars == <<alive, ent, data, no_buckets, unchecked, died>>

(* A set's `data', and the second CatalogSet of a schema, which is made and
   destroyed with the schema and used by no call.                          *)
Hmaps == {"data", "indexes"}

NoEntry == [type |-> "none", name |-> NULL, deleted |-> FALSE, parent |-> NULL, child |-> NULL]

(* catalogEntry_init *)
Entry(type, name) == [NoEntry EXCEPT !.type = type, !.name = name]

EmptySet == [n \in Names |-> NULL]

Unused == {i \in Ids : ent[i] = NoEntry}

(* malloc finds memory for n more entries; it may fail even so.            *)
Memory(n)   == Cardinality(Unused) >= n
NoMemory(n) == MayFail \/ ~Memory(n)

Fresh      == Min(Unused)
FreshDummy == Min(Unused \ {Fresh})

(* Mutant: tombstones are not told apart from live versions.               *)
Visible_head(set, n) == IF data[set][n] = NULL THEN NULL ELSE data[set][n]

(* catalogSet_get_entry: the newest version unless it is deleted.          *)
Visible(set, n) ==
    LET h == data[set][n]
    IN  IF h = NULL \/ ent[h].deleted THEN NULL ELSE h

(* The process dies; whatever starts after it finds nothing.               *)
Dies ==
    /\ alive' = FALSE /\ died' = TRUE
    /\ ent' = [i \in Ids |-> NoEntry]
    /\ data' = [i \in Sets |-> EmptySet]
    /\ no_buckets' = {}

(* The buckets can be read.                                                *)
Usable(set) == <<set, "data">> \notin no_buckets

(***************************************************************************)
(* CatalogSet                                                              *)
(***************************************************************************)

(* Mutant: the version below does not learn of its parent.                 *)
link_oneway(set, n, v, entry, below, belowEntry) ==
    /\ ent' = [ent EXCEPT ![below] = belowEntry, ![v] = [entry EXCEPT !.child = below]]
    /\ data' = [data EXCEPT ![set][n] = v, ![v] = EmptySet]

(* Mutant: the new version takes the place of the old one.                 *)
link_forget(set, n, v, entry, below, belowEntry) ==
    /\ ent' = [ent EXCEPT ![below] = belowEntry, ![v] = entry]
    /\ data' = [data EXCEPT ![set][n] = v, ![v] = EmptySet]

(* v becomes the newest version, on top of `below'.                        *)
link(set, n, v, entry, below, belowEntry) ==
    /\ ent' = [ent EXCEPT ![below] = [belowEntry EXCEPT !.parent = v],
                          ![v] = [entry EXCEPT !.child = below]]
    /\ data' = [data EXCEPT ![set][n] = v, ![v] = EmptySet]

(* catalogSet_create_entry returns true: the name is new and gets a dummy
   first, or its newest version is a tombstone.                            *)
catalogSet_create_entry(set, n, entry) ==
    \/ /\ data[set][n] = NULL /\ Memory(2)
       /\ link(set, n, Fresh, entry, FreshDummy, Entry("INVALID", n))
    \/ /\ data[set][n] # NULL /\ ent[data[set][n]].deleted /\ Memory(1)
       /\ link(set, n, Fresh, entry, data[set][n], ent[data[set][n]])

(* It returns false: the name is there, or there is no memory for a dummy. *)
create_entry_false(set, n) ==
    \/ Visible(set, n) # NULL
    \/ data[set][n] = NULL /\ NoMemory(2)

Tombstone(name) == [Entry("INVALID", name) EXCEPT !.deleted = TRUE]

(* Mutant: the newest version is marked instead of being covered.          *)
drop_entry_impl_mark(set, n) ==
    /\ ent' = [ent EXCEPT ![data[set][n]].deleted = TRUE]
    /\ UNCHANGED <<alive, data, no_buckets, unchecked, died>>

(* catalogSet_drop_entry_impl: a tombstone covers the newest version, be it
   a tombstone itself.  strdup(NULL) reads NULL; when strdup fails the
   tombstone has no name; when malloc fails nothing happens.               *)
drop_entry_impl(set, n) ==
    LET top == data[set][n] IN
    \/ /\ ent[top].name = NULL
       /\ Dies
       /\ UNCHANGED unchecked
    \/ /\ ent[top].name # NULL /\ Memory(1)
       /\ \/ /\ link(set, n, Fresh, Tombstone(ent[top].name), top, ent[top])
             /\ UNCHANGED unchecked
          \/ /\ MayFail
             /\ link(set, n, Fresh, Tombstone(NULL), top, ent[top])
             /\ unchecked' = TRUE
       /\ UNCHANGED <<alive, no_buckets, died>>
    \/ /\ ent[top].name # NULL /\ NoMemory(1)
       /\ UNCHANGED vars

catalogSet_drop_entry(set, n) ==
    \/ /\ ~Usable(set)
       /\ Dies
       /\ UNCHANGED unchecked
    \/ /\ Usable(set) /\ data[set][n] = NULL
       /\ UNCHANGED vars
    \/ /\ Usable(set) /\ data[set][n] # NULL
       /\ drop_entry_impl(set, n)

(***************************************************************************)
(* Catalog                                                                 *)
(***************************************************************************)

(* The unchecked callocs that fail while a catalog or a schema is made.    *)
Lost(hmaps) == {l \in SUBSET hmaps : l # {} => MayFail}

(* Mutant: the strdup of the name is not checked either.                   *)
Create_unnamed(set, type, n, lost) ==
    /\ Memory(1) /\ Usable(set) /\ MayFail
    /\ catalogSet_create_entry(set, n, Entry(type, NULL))
    /\ UNCHANGED <<alive, no_buckets, unchecked, died>>

(* Create a schema or a table, whose own hmaps `lost' have no buckets: no
   memory for it; the set it belongs in has no buckets; created; or
   create_entry returned false and what was made is destroyed again, for
   which its hmaps are walked (the call returns 0 with if_not_exists, -2
   without).                                                               *)
Create(set, type, n, lost) ==
    \/ /\ NoMemory(1)
       /\ UNCHANGED vars
    \/ /\ Memory(1) /\ ~Usable(set)
       /\ Dies
       /\ UNCHANGED unchecked
    \/ /\ Memory(1) /\ Usable(set)
       /\ catalogSet_create_entry(set, n, Entry(type, n))
       /\ no_buckets' = no_buckets \cup ({Fresh} \X lost)
       /\ unchecked' = (unchecked \/ lost # {})
       /\ UNCHANGED <<alive, died>>
    \/ /\ Memory(1) /\ Usable(set)
       /\ create_entry_false(set, n)
       /\ \/ lost = {} /\ UNCHANGED vars
          \/ lost # {} /\ Dies /\ unchecked' = TRUE

catalog_create_schema(s) ==
    /\ alive
    /\ \E lost \in Lost(Hmaps) : Create(0, "SCHEMA", s, lost)

(* The name of a dropped schema leads to a tombstone as well.              *)
catalog_drop_schema(s) ==
    /\ alive /\ s # DEFAULT_SCHEMA
    /\ catalogSet_drop_entry(0, s)

catalog_get_schema(s) == Visible(0, s)

(* The schema of a call about its tables is looked up first.               *)
no_schemas ==
    /\ ~Usable(0)
    /\ Dies
    /\ UNCHANGED unchecked

catalog_create_table(s, t) ==
    /\ alive
    /\ \/ no_schemas
       \/ /\ catalog_get_schema(s) # NULL
          /\ Create(catalog_get_schema(s), "TABLE", t, {})

(* catalogSet_drop_entry on the tables of a schema.                        *)
drop_table(s, t) ==
    /\ alive
    /\ \/ no_schemas
       \/ /\ catalog_get_schema(s) # NULL
          /\ catalogSet_drop_entry(catalog_get_schema(s), t)

(* catalog_get_table, and catalogSet_scan of the schemas or of the tables of
   one: what a reader is told is Visible; here is what reading may do.     *)
catalog_get_table(s) ==
    /\ alive
    /\ \/ no_schemas
       \/ /\ catalog_get_schema(s) # NULL
          /\ \/ ~Usable(catalog_get_schema(s)) /\ Dies /\ UNCHANGED unchecked
             \/ Usable(catalog_get_schema(s)) /\ UNCHANGED vars

(* The versions from h downwards.                                          *)
Chain(h) ==
    LET down[i \in 0 .. MaxEntries] ==
          IF i = 0 THEN {h}
          ELSE LET above == down[i - 1] IN above \cup {ent[x].child : x \in above \ {NULL}}
    IN  down[MaxEntries] \ {NULL}

InSet(set) == UNION {Chain(data[set][n]) : n \in Names}

(* After catalog_destroy, or by a new process.                             *)
catalog_create ==
    /\ ~alive /\ alive' = TRUE
    /\ data' = [data EXCEPT ![0] = EmptySet]
    /\ \E lost \in Lost({"data"}) :
         /\ no_buckets' = {0} \X lost
         /\ unchecked' = (lost # {})
    /\ died' = FALSE
    /\ UNCHANGED ent

(* catalogSet_deinit: every version of every chain, and with a version of a
   schema the tables and indexes it owns.                                  *)
catalog_destroy ==
    /\ alive
    /\ LET schemas == InSet(0)
           freed   == schemas \cup UNION {InSet(i) : i \in schemas}
           broken  == \E i \in {0} \cup schemas, h \in Hmaps : <<i, h>> \in no_buckets
       IN  \/ broken /\ Dies
          \/ /\ ~broken
             /\ alive' = FALSE
             /\ ent' = [i \in Ids |-> IF i \in freed THEN NoEntry ELSE ent[i]]
             /\ data' = [i \in Sets |-> EmptySet]
             /\ no_buckets' = {}
             /\ UNCHANGED died
    /\ UNCHANGED unchecked

Init ==
    /\ alive = FALSE
    /\ ent = [i \in Ids |-> NoEntry]
    /\ data = [i \in Sets |-> EmptySet]
    /\ no_buckets = {} /\ unchecked = FALSE /\ died = FALSE

Next ==
    \/ catalog_create \/ catalog_destroy
    \/ \E s \in SchemaNames :
         \/ catalog_create_schema(s)
         \/ catalog_drop_schema(s)
         \/ catalog_get_table(s)
         \/ \E t \in TableNames :
              \/ catalog_create_table(s, t)
              \/ drop_table(s, t)

Spec == Init /\ [][Next]_vars

(***************************************************************************)
(* Properties                                                              *)
(***************************************************************************)

(* Entries and maps have their types, and a set holds one kind of name.    *)
TypeOK ==
    /\ alive \in BOOLEAN
    /\ ent \in [Ids -> [type : {"none", "INVALID", "SCHEMA", "TABLE"},
                        name : Names \cup {NULL}, deleted : BOOLEAN,
                        parent : Ids \cup {NULL}, child : Ids \cup {NULL}]]
    /\ data \in [Sets -> [Names -> Ids \cup {NULL}]]
    /\ no_buckets \subseteq Sets \X Hmaps /\ unchecked \in BOOLEAN /\ died \in BOOLEAN
    /\ \A t \in TableNames : data[0][t] = NULL
    /\ \A i \in Ids, s \in SchemaNames : data[i][s] = NULL

(* A chain can be walked both ways: parent and child are inverse, the newest
   version has no parent, the oldest is the dummy, and right below a live
   version comes the dummy or the tombstone that made room for it.  All of
   a chain has the name it is filed under, but for tombstones whose strdup
   failed.                                                                 *)
ChainsWellFormed ==
    /\ TypeOK
    /\ \A set \in Sets, n \in Names :
         /\ data[set][n] # NULL => ent[data[set][n]].parent = NULL
         /\ \A i \in Chain(data[set][n]) :
              ent[i].name = n \/ (ent[i].deleted /\ ent[i].name = NULL)
    /\ \A i \in Ids \ Unused :
         LET c == ent[i].child IN
         IF c = NULL THEN ent[i].type = "INVALID" /\ ~ent[i].deleted
         ELSE /\ ent[c].parent = i
              /\ ~ent[i].deleted =>
                   ent[c].type = "INVALID" /\ (ent[c].deleted \/ ent[c].child = NULL)

(* No sequence of calls reads through NULL unless one of the two allocations
   that nobody checks has failed before: every other failure of an
   allocation is survived, and so is every drop, re-creation and destroy.  *)
DiesOfUncheckedOnly == died => unchecked

(* Every entry is in exactly one chain of one set, so that destroying the
   catalog frees each of them, and none twice; and once the catalog is
   destroyed, its sets being empty, nothing is left allocated.             *)
EntriesOwned ==
    \A i \in Ids \ Unused :
      Cardinality({at \in Sets \X Names : i \in Chain(data[at[1]][at[2]])}) = 1

(* An entry that a caller got keeps its place, type, name and mark for as
   long as the catalog lives, whatever is dropped or created meanwhile.    *)
VersionsStay ==
    [][alive /\ alive' =>
         \A i \in Ids : ent[i] # NoEntry =>
           ent'[i] = [ent[i] EXCEPT !.parent = ent'[i].parent]]_vars

Tables(i) == {t \in TableNames : Visible(i, t) # NULL}

Directory ==
    INSTANCE CatalogDirectory
      WITH dir <- [s \in SchemaNames |->
                     IF catalog_get_schema(s) = NULL THEN Gone ELSE Tables(catalog_get_schema(s))]

(* Seen through catalog_get_schema and catalog_get_table, the version chains
   are a plain directory, whatever allocation fails: an unchecked one may end
   the process later, and the directory with it, but shows nobody a name that
   is not there, or hides one.                                             *)
ImplementsDirectory == Directory!Spec
=============================================================================
