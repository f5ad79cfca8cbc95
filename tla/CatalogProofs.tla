--------------------------- MODULE CatalogProofs ---------------------------
(***************************************************************************)
(* Theorems about Catalog, for any names, any number of entries and any    *)
(* sequence of calls.                                                      *)
(***************************************************************************)
EXTENDS Catalog, FiniteSetTheorems, WellFoundedInduction, TLAPS

(***************************************************************************)
(* Numbers                                                                 *)
(***************************************************************************)

LEMMA Least ==
    ASSUME NEW T, T \subseteq Nat, T # {}
    PROVE  \E n \in T : \A m \in T : n <= m
<1> DEFINE R == OpToRel(<, Nat)
<1>1. IsWellFoundedOn(R, Nat)
  BY NatLessThanWellFounded
<1>2. \A x, y \in Nat : <<x, y>> \in R <=> x < y
  BY DEF OpToRel
<1> HIDE DEF R
<1>3. PICK n \in T : \A y \in T : ~(<<y, n>> \in R)
  BY <1>1, WFMin
<1>4. ASSUME NEW m \in T PROVE n <= m
  <2>1. m \in Nat /\ n \in Nat /\ ~(m < n)
    BY <1>2, <1>3
  <2> QED
    BY <2>1, SMT
<1> QED
  BY <1>4

LEMMA MinOfIds ==
    ASSUME NEW T, T \subseteq Ids, T # {}
    PROVE  Min(T) \in T
<1>1. T \subseteq Nat
  BY CatalogAssumption DEF Ids
<1>2. \E n \in T : \A m \in T : n <= m
  BY <1>1, Least
<1> QED
  BY <1>2, Zenon DEF Min

(***************************************************************************)
(* Chains, as a function of the entries                                    *)
(***************************************************************************)

Entries == [type : {"none", "INVALID", "SCHEMA", "TABLE"},
            name : Names \cup {NULL}, deleted : BOOLEAN,
            parent : Ids \cup {NULL}, child : Ids \cup {NULL}]

(* One step of the walk of Chain over the entries e.                       *)
Below(e, above) == above \cup {e[x].child : x \in above \ {NULL}}

(* Chain(h) over the entries e.                                            *)
Walk(e, h) ==
    LET down[i \in 0 .. MaxEntries] == IF i = 0 THEN {h} ELSE Below(e, down[i - 1])
    IN  down[MaxEntries] \ {NULL}

LEMMA ChainIsWalk == \A h : Chain(h) = Walk(ent, h)
BY Zenon DEF Chain, Walk, Below

LEMMA ChainAfter ==
    \A q \in Sets, m \in Names : Chain(data[q][m])' = Walk(ent', data'[q][m])
BY Zenon DEF Chain, Walk, Below

(* The walk that Chain is defined by exists.                               *)
LEMMA WalkDefined ==
    ASSUME NEW e, NEW h
    PROVE  \E down : /\ down = [i \in 0 .. MaxEntries |->
                                  IF i = 0 THEN {h} ELSE Below(e, down[i - 1])]
                     /\ Walk(e, h) = down[MaxEntries] \ {NULL}
<1>0. MaxEntries \in Nat
  BY CatalogAssumption
<1> DEFINE Is(g, n) == g = [i \in 0 .. n |-> IF i = 0 THEN {h} ELSE Below(e, g[i - 1])]
           T == {n \in Nat : ~ \E g : Is(g, n)}
<1>1. T = {}
  <2>1. SUFFICES ASSUME T # {} PROVE FALSE
    OBVIOUS
  <2>2. PICK n \in T : \A m \in T : n <= m
    <3>1. T \subseteq Nat
      OBVIOUS
    <3> HIDE DEF T
    <3> QED
      BY <2>1, <3>1, Least
  <2>3. \E g : Is(g, 0)
    <3> DEFINE g == [i \in 0 .. 0 |-> {h}]
    <3>1. Is(g, 0)
      BY SMT
    <3> QED
      BY <3>1
  <2>4. n \in Nat /\ n # 0
    BY <2>3
  <2>5. n - 1 \in Nat /\ ~(n <= n - 1)
    BY <2>4, SMT
  <2>6. PICK g : Is(g, n - 1)
    <3>1. n - 1 \notin T
      BY <2>2, <2>5, Zenon
    <3> QED
      BY <2>5, <3>1, Zenon
  <2> DEFINE k == [i \in 0 .. n |-> IF i = n THEN Below(e, g[n - 1]) ELSE g[i]]
  <2>7. ASSUME NEW i \in 0 .. n PROVE k[i] = IF i = 0 THEN {h} ELSE Below(e, k[i - 1])
    <3>1. i = n => i # 0 /\ i - 1 \in 0 .. n /\ i - 1 # n
      BY <2>4, SMT
    <3>2. i # n => i \in 0 .. n - 1 /\ (i # 0 => i - 1 \in 0 .. n /\ i - 1 # n)
      BY <2>4, SMT
    <3>3. i # n => g[i] = IF i = 0 THEN {h} ELSE Below(e, g[i - 1])
      BY <2>6, <3>2, Zenon
    <3> QED
      BY <3>1, <3>2, <3>3
  <2>8. Is(k, n)
    BY <2>7, Zenon
  <2> QED
    BY <2>8, Zenon
<1>2. \E g : Is(g, MaxEntries)
  BY <1>0, <1>1
<1> DEFINE down[i \in 0 .. MaxEntries] == IF i = 0 THEN {h} ELSE Below(e, down[i - 1])
<1>3. Is(down, MaxEntries)
  BY <1>2, Zenon DEF down
<1>4. Walk(e, h) = down[MaxEntries] \ {NULL}
  BY Zenon DEF Walk
<1> HIDE DEF down
<1> QED
  BY <1>3, <1>4

(* Induction up to a bound, for a set of numbers.                          *)
LEMMA UpTo ==
    ASSUME NEW N \in Nat, NEW G, 0 \in G,
           \A i \in 0 .. N : i # 0 /\ i - 1 \in G => i \in G
    PROVE  \A i \in 0 .. N : i \in G
<1> DEFINE T == {i \in 0 .. N : i \notin G}
<1>1. SUFFICES ASSUME T # {} PROVE FALSE
  OBVIOUS
<1>2. T \subseteq Nat
  BY SMT
<1>3. PICK n \in T : \A m \in T : n <= m
  <2> HIDE DEF T
  <2> QED
    BY <1>1, <1>2, Least
<1>4. n \in 0 .. N /\ n \notin G /\ n # 0
  OBVIOUS
<1>5. n - 1 \in 0 .. N /\ ~(n <= n - 1)
  BY <1>4, SMT
<1>6. n - 1 \in G
  BY <1>3, <1>5, Zenon
<1> QED
  BY <1>4, <1>6

(* What follows from the definition of the walk: the entries from h down,  *)
(* and no others.  MaxEntries steps are enough: as long as a step finds a  *)
(* new entry there is one more of them.                                    *)
LEMMA WalkFacts ==
    ASSUME NEW e \in [Ids -> Entries], NEW h \in Ids \cup {NULL}
    PROVE  /\ Walk(e, h) \subseteq Ids
           /\ h # NULL => h \in Walk(e, h)
           /\ \A x \in Walk(e, h) : e[x].child = NULL \/ e[x].child \in Walk(e, h)
           /\ \A S : (h \in S \/ h = NULL)
                     /\ (\A x \in Ids : x \in S => e[x].child \in S \/ e[x].child = NULL)
                     => Walk(e, h) \subseteq S
<1>0. MaxEntries \in Nat
  BY CatalogAssumption
<1>1. PICK D : /\ D = [i \in 0 .. MaxEntries |-> IF i = 0 THEN {h} ELSE Below(e, D[i - 1])]
               /\ Walk(e, h) = D[MaxEntries] \ {NULL}
  BY WalkDefined
<1>2. /\ \A i \in 0 .. MaxEntries : i # 0 => D[i] = Below(e, D[i - 1]) /\ i - 1 \in 0 .. MaxEntries
      /\ D[0] = {h} /\ 0 \in 0 .. MaxEntries /\ MaxEntries \in 0 .. MaxEntries
  <2>1. 0 \in 0 .. MaxEntries /\ MaxEntries \in 0 .. MaxEntries
    BY <1>0, SMT
  <2>2. \A i \in 0 .. MaxEntries : i # 0 => i - 1 \in 0 .. MaxEntries
    BY <1>0, SMT
  <2> QED
    BY <1>1, <2>1, <2>2, Zenon
<1>3. \A x \in Ids : e[x].child \in Ids \cup {NULL}
  BY DEF Entries
<1> DEFINE All == Ids \cup {NULL}
           Closed(X) == \A x \in X \ {NULL} : e[x].child \in X
<1>4. \A i \in 0 .. MaxEntries : D[i] \subseteq All /\ h \in D[i]
  <2> DEFINE G == {i \in 0 .. MaxEntries : D[i] \subseteq All /\ h \in D[i]}
  <2>1. 0 \in G
    BY <1>2
  <2>2. \A i \in 0 .. MaxEntries : i # 0 /\ i - 1 \in G => i \in G
    BY <1>2, <1>3 DEF Below
  <2> HIDE DEF G
  <2>3. \A i \in 0 .. MaxEntries : i \in G
    BY <1>0, <2>1, <2>2, UpTo
  <2> QED
    BY <2>3 DEF G
<1>5. IsFiniteSet(All) /\ Cardinality(All) = MaxEntries + 1
  <2>1. IsFiniteSet(Ids) /\ Cardinality(Ids) = MaxEntries
    <3>1. IsFiniteSet(1 .. MaxEntries)
          /\ Cardinality(1 .. MaxEntries) = IF 1 > MaxEntries THEN 0 ELSE MaxEntries - 1 + 1
      BY <1>0, FS_Interval
    <3> QED
      BY <1>0, <3>1, SMT DEF Ids
  <2>2. NULL \notin Ids
    BY SMT DEF NULL, Ids
  <2> QED
    BY <2>1, <2>2, FS_AddElement
<1>6. \A i \in 0 .. MaxEntries : IsFiniteSet(D[i]) /\ Cardinality(D[i]) \in Nat
  BY <1>4, <1>5, FS_Subset, FS_CardinalityType
<1>7. \A i \in 0 .. MaxEntries : Closed(D[i]) \/ Cardinality(D[i]) >= i + 1
  <2> DEFINE G == {i \in 0 .. MaxEntries : Closed(D[i]) \/ Cardinality(D[i]) >= i + 1}
  <2>1. 0 \in G
    <3>1. Cardinality(D[0]) = 1
      BY <1>2, FS_Singleton
    <3>2. Cardinality(D[0]) >= 0 + 1
      BY <3>1, SMT
    <3> QED
      BY <1>2, <3>2
  <2>2. ASSUME NEW i \in 0 .. MaxEntries, i # 0, i - 1 \in G PROVE i \in G
    <3>1. D[i] = Below(e, D[i - 1]) /\ i - 1 \in 0 .. MaxEntries
      BY <1>2, <2>2
    <3>2. CASE Closed(D[i - 1])
      <4>1. D[i] = D[i - 1]
        BY <3>1, <3>2 DEF Below
      <4> QED
        BY <3>2, <4>1
    <3>3. CASE ~Closed(D[i - 1])
      <4>1. PICK x \in D[i - 1] \ {NULL} : e[x].child \notin D[i - 1]
        BY <3>3
      <4>2. D[i - 1] \cup {e[x].child} \subseteq D[i]
        BY <3>1 DEF Below
      <4>3. Cardinality(D[i - 1] \cup {e[x].child}) = Cardinality(D[i - 1]) + 1
        <5> DEFINE c == e[x].child
                   A == D[i - 1]
        <5>1. IsFiniteSet(A) /\ c \notin A
          BY <1>6, <3>1, <4>1
        <5> HIDE DEF c, A
        <5>2. Cardinality(A \cup {c}) = Cardinality(A) + 1
          BY <5>1, FS_AddElement
        <5> QED
          BY <5>2 DEF c, A
      <4>4. Cardinality(D[i - 1] \cup {e[x].child}) <= Cardinality(D[i])
        BY <1>6, <4>2, FS_Subset
      <4>5. Cardinality(D[i - 1]) >= i
        <5>1. Cardinality(D[i - 1]) >= (i - 1) + 1
          BY <2>2, <3>3
        <5> QED
          BY <1>0, <5>1, SMT
      <4>6. PICK a \in Nat, b \in Nat : a = Cardinality(D[i - 1]) /\ b = Cardinality(D[i])
        BY <1>6, <3>1
      <4>7. a + 1 <= b /\ a >= i
        BY <4>3, <4>4, <4>5, <4>6, Zenon
      <4>8. b >= i + 1
        BY <1>0, <4>7, SMT
      <4> QED
        BY <4>6, <4>8
    <3> QED
      BY <3>2, <3>3
  <2> HIDE DEF G
  <2>3. \A i \in 0 .. MaxEntries : i \in G
    BY <1>0, <2>1, <2>2, UpTo
  <2> QED
    BY <2>3 DEF G
<1>8. Closed(D[MaxEntries])
  <2>1. SUFFICES ASSUME ~Closed(D[MaxEntries]) PROVE FALSE
    OBVIOUS
  <2>2. Cardinality(D[MaxEntries]) >= MaxEntries + 1
    BY <1>2, <1>7, <2>1
  <2>3. /\ Cardinality(D[MaxEntries]) <= Cardinality(All)
        /\ Cardinality(All) = Cardinality(D[MaxEntries]) => All = D[MaxEntries]
    <3>1. D[MaxEntries] \in SUBSET All
      BY <1>2, <1>4
    <3> HIDE DEF All
    <3> QED
      BY <1>5, <3>1, FS_Subset
  <2>4. D[MaxEntries] = All
    <3>1. PICK a \in Nat : a = Cardinality(D[MaxEntries])
      BY <1>2, <1>6
    <3>2. a >= MaxEntries + 1 /\ a <= MaxEntries + 1
      BY <1>5, <2>2, <2>3, <3>1, Zenon
    <3>3. a = MaxEntries + 1
      BY <1>0, <3>2, SMT
    <3> QED
      BY <1>5, <2>3, <3>1, <3>3, Zenon
  <2> QED
    BY <1>3, <2>1, <2>4
<1>9. ASSUME NEW S, h \in S \/ h = NULL,
             \A x \in Ids : x \in S => e[x].child \in S \/ e[x].child = NULL
      PROVE  Walk(e, h) \subseteq S
  <2> DEFINE G == {i \in 0 .. MaxEntries : D[i] \subseteq S \cup {NULL}}
  <2>1. 0 \in G
    BY <1>2, <1>9
  <2>2. \A i \in 0 .. MaxEntries : i # 0 /\ i - 1 \in G => i \in G
    BY <1>2, <1>4, <1>9 DEF Below
  <2> HIDE DEF G
  <2>3. \A i \in 0 .. MaxEntries : i \in G
    BY <1>0, <2>1, <2>2, UpTo
  <2>4. D[MaxEntries] \subseteq S \cup {NULL}
    BY <1>2, <2>3 DEF G
  <2> QED
    BY <1>1, <2>4
<1>10. Walk(e, h) \subseteq Ids /\ (h # NULL => h \in Walk(e, h))
  BY <1>1, <1>2, <1>4
<1>11. \A x \in Walk(e, h) : e[x].child = NULL \/ e[x].child \in Walk(e, h)
  BY <1>1, <1>8
<1> QED
  BY <1>9, <1>10, <1>11

LEMMA NoChain ==
    ASSUME NEW e \in [Ids -> Entries]
    PROVE  Walk(e, NULL) = {}
<1>1. \A S : (NULL \in S \/ NULL = NULL)
            /\ (\A x \in Ids : x \in S => e[x].child \in S \/ e[x].child = NULL)
            => Walk(e, NULL) \subseteq S
  BY WalkFacts
<1> DEFINE Z == {}
<1>2. \A x \in Ids : x \notin Z
  OBVIOUS
<1> HIDE DEF Z
<1>3. Walk(e, NULL) \subseteq Z
  BY <1>1, <1>2, Zenon
<1> QED
  BY <1>3 DEF Z

(***************************************************************************)
(* The inductive invariant                                                 *)
(***************************************************************************)

Used == Ids \ Unused

(* The newest version of a name is an entry, and among the schemas it is a *)
(* schema unless the name was dropped.                                     *)
HeadsUsed ==
    \A set \in Sets, n \in Names : data[set][n] # NULL =>
      /\ data[set][n] \in Used
      /\ set = 0 /\ ~ent[data[set][n]].deleted => ent[data[set][n]].type = "SCHEMA"

(* Only schemas have tables; a mark is on a tombstone only.                *)
Kinds ==
    \A i \in Ids :
      /\ ent[i].type # "SCHEMA" => data[i] = EmptySet
      /\ ent[i].type = "SCHEMA" => ent[i].name \in SchemaNames
      /\ ent[i].deleted => ent[i].type = "INVALID"
      /\ ent[i].type = "none" => ent[i] = NoEntry

(* Every entry is in a chain, and the chains are disjoint.                 *)
Owned ==
    \A i \in Used : \E set \in Sets, n \in Names : i \in Chain(data[set][n])

Disjoint ==
    \A s1, s2 \in Sets, n1, n2 \in Names, i \in Ids :
      i \in Chain(data[s1][n1]) /\ i \in Chain(data[s2][n2]) => s1 = s2 /\ n1 = n2

(* The name of an entry that is filed under n.                             *)
Named(e, n) == e.name = n \/ (e.deleted /\ e.name = NULL)

(* Before catalog_create and after catalog_destroy nothing is there.       *)
Nothing ==
    ~alive => ent = [i \in Ids |-> NoEntry] /\ data = [i \in Sets |-> EmptySet]

CatalogInv ==
    ChainsWellFormed /\ HeadsUsed /\ Kinds /\ Owned /\ Disjoint /\ Nothing

(* The types of what is known of failed allocations.                       *)
FaultTypes ==
    no_buckets \subseteq Sets \X Hmaps /\ unchecked \in BOOLEAN /\ died \in BOOLEAN

LEMMA Typed ==
    ASSUME CatalogInv
    PROVE  /\ ent \in [Ids -> Entries] /\ data \in [Sets -> [Names -> Ids \cup {NULL}]]
           /\ alive \in BOOLEAN
           /\ \A i \in Ids : ent[i] \in Entries
           /\ \A set \in Sets, n \in Names : data[set][n] \in Ids \cup {NULL}
           /\ NULL \notin Ids /\ 0 \in Sets /\ Ids \subseteq Sets
<1>1. NULL \notin Ids
  BY SMT DEF NULL, Ids
<1>2. /\ ent \in [Ids -> Entries] /\ data \in [Sets -> [Names -> Ids \cup {NULL}]]
      /\ alive \in BOOLEAN
  BY Zenon DEF CatalogInv, ChainsWellFormed, TypeOK, Entries
<1> QED
  BY <1>1, <1>2 DEF Sets

LEMMA NoEntryFields ==
    /\ NoEntry.type = "none" /\ NoEntry.name = NULL /\ NoEntry.deleted = FALSE
    /\ NoEntry.parent = NULL /\ NoEntry.child = NULL
    /\ NoEntry \in Entries
BY DEF NoEntry, Entries

(* An entry's chain consists of entries.                                   *)
LEMMA ChainUsed ==
    ASSUME CatalogInv, NEW set \in Sets, NEW n \in Names
    PROVE  Walk(ent, data[set][n]) \subseteq Used
<1>1. data[set][n] \in Ids \cup {NULL} /\ ent \in [Ids -> Entries]
  BY Typed
<1>2. data[set][n] = NULL \/ data[set][n] \in Used
  BY DEF CatalogInv, HeadsUsed
<1>3. ASSUME NEW x \in Used PROVE ent[x].child = NULL \/ ent[x].child \in Used
  <2>1. SUFFICES ASSUME ent[x].child # NULL PROVE ent[x].child \in Used
    OBVIOUS
  <2>2. x \in Ids /\ x # NULL /\ ent[x].child \in Ids
    BY <2>1, Typed DEF Used, Entries
  <2>3. ent[ent[x].child].parent = x
    BY <2>1 DEF CatalogInv, ChainsWellFormed, Used
  <2>4. ent[ent[x].child] # NoEntry
    BY <2>2, <2>3, NoEntryFields
  <2> QED
    BY <2>2, <2>4 DEF Used, Unused
<1> HIDE DEF Used
<1> QED
  BY <1>1, <1>2, <1>3, WalkFacts

(* All entries of a chain have the name it is listed under, or are         *)
(* tombstones without one.                                                 *)
LEMMA ChainNamed ==
    ASSUME CatalogInv
    PROVE  /\ \A set \in Sets, n \in Names : \A x \in Walk(ent, data[set][n]) : Named(ent[x], n)
           /\ \A set \in Sets, n \in Names :
                data[set][n] # NULL => Named(ent[data[set][n]], n)
<1>1. \A set \in Sets, n \in Names : \A x \in Walk(ent, data[set][n]) : Named(ent[x], n)
  BY ChainIsWalk DEF CatalogInv, ChainsWellFormed, Named
<1>2. \A set \in Sets, n \in Names :
        data[set][n] # NULL => data[set][n] \in Walk(ent, data[set][n])
  BY Typed, WalkFacts
<1> QED
  BY <1>1, <1>2

(* What link's arguments are, wherever it is called.                       *)
LinkArgs(set, n, v, entry, below, belowEntry) ==
    /\ set \in Sets /\ n \in Names /\ v \in Unused /\ below \in Ids /\ below # v
    /\ entry \in Entries /\ belowEntry \in Entries
    /\ Named(entry, n) /\ entry.parent = NULL /\ entry.type # "none"
    /\ entry.deleted => entry.type = "INVALID"
    /\ entry.type = "SCHEMA" => n \in SchemaNames
    /\ set = 0 => n \in SchemaNames /\ (~entry.deleted => entry.type = "SCHEMA")
    /\ set # 0 => n \in TableNames /\ ent[set].type = "SCHEMA"
    /\ \/ data[set][n] = NULL /\ below \in Unused /\ belowEntry = Entry("INVALID", n)
       \/ /\ data[set][n] = below /\ belowEntry = ent[below]
          /\ entry.deleted \/ ent[below].deleted

(* What link does to an entry and to a set.                                *)
LEMMA LinkEffect ==
    ASSUME CatalogInv, NEW set, NEW n, NEW v, NEW entry, NEW below, NEW belowEntry,
           LinkArgs(set, n, v, entry, below, belowEntry),
           link(set, n, v, entry, below, belowEntry)
    PROVE  /\ ent' \in [Ids -> Entries] /\ data' \in [Sets -> [Names -> Ids \cup {NULL}]]
           /\ \A x \in Ids : x # v /\ x # below => ent'[x] = ent[x]
           /\ ent'[v] \in Entries /\ ent'[below] \in Entries
           /\ ent'[v].child = below /\ ent'[v].parent = NULL /\ ent'[v].name = entry.name
           /\ ent'[v].type = entry.type /\ ent'[v].deleted = entry.deleted
           /\ ent'[below].child = belowEntry.child /\ ent'[below].parent = v
           /\ ent'[below].name = belowEntry.name /\ ent'[below].type = belowEntry.type
           /\ ent'[below].deleted = belowEntry.deleted
           /\ \A q \in Sets, m \in Names :
                data'[q][m] = IF q = set /\ m = n THEN v ELSE data[q][m]
           /\ data[v] = EmptySet /\ data'[v] = EmptySet /\ v # set
           /\ \A q \in Sets : q # set => data'[q] = data[q]
<1> USE DEF LinkArgs
<1>0. v \in Ids /\ v \in Sets /\ ent[v] = NoEntry
  BY DEF Unused, Sets
<1>1. ent' = [ent EXCEPT ![below] = [belowEntry EXCEPT !.parent = v],
                         ![v] = [entry EXCEPT !.child = below]]
      /\ data' = [data EXCEPT ![set][n] = v, ![v] = EmptySet]
  BY DEF link
<1>2. ent \in [Ids -> Entries] /\ data \in [Sets -> [Names -> Ids \cup {NULL}]]
  BY Typed
<1>3. data[v] = EmptySet /\ v # set
  <2>1. data[v] = EmptySet
    BY <1>0, NoEntryFields DEF CatalogInv, Kinds
  <2>2. v # set
    BY <1>0, NoEntryFields, Typed DEF NULL
  <2> QED
    BY <2>1, <2>2
<1>4. EmptySet \in [Names -> Ids \cup {NULL}]
  BY DEF EmptySet
<1>5. [entry EXCEPT !.child = below] \in Entries /\ [belowEntry EXCEPT !.parent = v] \in Entries
  BY <1>0 DEF Entries
<1>6. ent' \in [Ids -> Entries]
  <2> DEFINE a == [belowEntry EXCEPT !.parent = v]
             b == [entry EXCEPT !.child = below]
  <2> HIDE DEF a, b
  <2>1. a \in Entries /\ b \in Entries /\ ent' = [ent EXCEPT ![below] = a, ![v] = b]
    BY <1>1, <1>5 DEF a, b
  <2> HIDE DEF LinkArgs
  <2> QED
    BY <1>2, <2>1
<1>7. /\ \A x \in Ids : x # v /\ x # below => ent'[x] = ent[x]
      /\ ent'[v] = [entry EXCEPT !.child = below]
      /\ ent'[below] = [belowEntry EXCEPT !.parent = v]
  BY <1>0, <1>1, <1>2
<1>8. /\ ent'[v].child = below /\ ent'[v].parent = NULL /\ ent'[v].name = entry.name
      /\ ent'[v].type = entry.type /\ ent'[v].deleted = entry.deleted
  BY <1>7 DEF Entries
<1>9. /\ ent'[below].child = belowEntry.child /\ ent'[below].parent = v
      /\ ent'[below].name = belowEntry.name /\ ent'[below].type = belowEntry.type
      /\ ent'[below].deleted = belowEntry.deleted
  BY <1>7 DEF Entries
<1>10. /\ data' \in [Sets -> [Names -> Ids \cup {NULL}]]
       /\ \A q \in Sets, m \in Names :
            data'[q][m] = IF q = set /\ m = n THEN v ELSE data[q][m]
       /\ data'[v] = EmptySet
       /\ \A q \in Sets : q # set => data'[q] = data[q]
  <2> DEFINE row == [data[set] EXCEPT ![n] = v]
  <2>1. /\ row \in [Names -> Ids \cup {NULL}]
        /\ \A m \in Names : row[m] = IF m = n THEN v ELSE data[set][m]
    BY <1>0, <1>2
  <2> HIDE DEF row
  <2>2. data' = [q \in Sets |-> IF q = v THEN EmptySet ELSE IF q = set THEN row ELSE data[q]]
    BY <1>1, <1>2, <1>3 DEF row
  <2>3. data' \in [Sets -> [Names -> Ids \cup {NULL}]]
    BY <1>2, <1>4, <2>1, <2>2
  <2>4. \A q \in Sets : data'[q] = IF q = set THEN row ELSE data[q]
    BY <1>3, <2>2
  <2> QED
    BY <1>0, <1>3, <2>1, <2>3, <2>4
<1>11. ent'[v] \in Entries /\ ent'[below] \in Entries
  BY <1>0, <1>6
<1> QED
  BY <1>3, <1>6, <1>7, <1>8, <1>9, <1>10, <1>11

(* After link, the chain of n has v and the entry below it on top of what  *)
(* it was, and no other chain has changed.                                 *)
LEMMA LinkChains ==
    ASSUME CatalogInv, NEW set, NEW n, NEW v, NEW entry, NEW below, NEW belowEntry,
           LinkArgs(set, n, v, entry, below, belowEntry),
           link(set, n, v, entry, below, belowEntry)
    PROVE  /\ Walk(ent', data'[set][n]) = {v, below} \cup Walk(ent, data[set][n])
           /\ \A q \in Sets, m \in Names : q # set \/ m # n =>
                Walk(ent', data'[q][m]) = Walk(ent, data[q][m])
           /\ data[set][n] = NULL \/ below \in Walk(ent, data[set][n])
<1>1. /\ ent' \in [Ids -> Entries] /\ data' \in [Sets -> [Names -> Ids \cup {NULL}]]
      /\ \A x \in Ids : x # v /\ x # below => ent'[x] = ent[x]
      /\ ent'[v].child = below /\ ent'[below].child = belowEntry.child
      /\ \A q \in Sets, m \in Names : data'[q][m] = IF q = set /\ m = n THEN v ELSE data[q][m]
  BY LinkEffect
<1>2. /\ set \in Sets /\ n \in Names /\ v \in Ids /\ v \in Unused /\ below \in Ids /\ below # v
      /\ v \notin Used /\ ent[v] = NoEntry
  BY DEF LinkArgs, Used, Unused
<1>3. /\ ent \in [Ids -> Entries] /\ NULL \notin Ids
      /\ \A q \in Sets, m \in Names : data[q][m] \in Ids \cup {NULL}
      /\ \A q \in Sets, m \in Names : data'[q][m] \in Ids \cup {NULL}
  BY <1>1, Typed
<1>4. \A x \in Used : ent'[x].child = ent[x].child /\ x \in Ids
  <2>1. below \in Used => ent'[below].child = ent[below].child
    BY <1>1 DEF LinkArgs, Used
  <2> QED
    BY <1>1, <1>2, <2>1 DEF Used
<1>5. ASSUME NEW q \in Sets, NEW m \in Names, q # set \/ m # n
      PROVE  Walk(ent', data'[q][m]) = Walk(ent, data[q][m])
  <2> DEFINE h == data[q][m]
             A == Walk(ent, h)
             B == Walk(ent', h)
  <2>1. data'[q][m] = h /\ h \in Ids \cup {NULL}
    BY <1>1, <1>3, <1>5
  <2>2. A \subseteq Used
    BY ChainUsed
  <2>3. /\ h # NULL => h \in A
        /\ \A x \in A : ent[x].child = NULL \/ ent[x].child \in A
        /\ \A S : (h \in S \/ h = NULL)
                  /\ (\A x \in Ids : x \in S => ent[x].child \in S \/ ent[x].child = NULL)
                  => A \subseteq S
    BY <1>3, <2>1, WalkFacts
  <2>4. /\ h # NULL => h \in B
        /\ \A x \in B : ent'[x].child = NULL \/ ent'[x].child \in B
        /\ \A S : (h \in S \/ h = NULL)
                  /\ (\A x \in Ids : x \in S => ent'[x].child \in S \/ ent'[x].child = NULL)
                  => B \subseteq S
    BY <1>1, <2>1, WalkFacts
  <2> HIDE DEF A, B, h
  <2>5. B \subseteq A
    <3>1. \A x \in Ids : x \in A => ent'[x].child \in A \/ ent'[x].child = NULL
      BY <1>4, <2>2, <2>3
    <3> QED
      BY <2>3, <2>4, <3>1
  <2>6. A \subseteq B
    <3>1. \A x \in Ids : x \in B => ent[x].child \in B \/ ent[x].child = NULL
      BY <1>4, <2>2, <2>4, <2>5
    <3> QED
      BY <2>3, <2>4, <3>1
  <2> QED
    BY <2>1, <2>5, <2>6 DEF A, B, h
<1> DEFINE h == data[set][n]
           A == Walk(ent, h)
           B == Walk(ent', v)
<1>6. data'[set][n] = v
  BY <1>1, <1>2
<1>7. h \in Ids \cup {NULL} /\ A \subseteq Used
  BY <1>2, <1>3, ChainUsed
<1>8. /\ h # NULL => h \in A
      /\ \A x \in A : ent[x].child = NULL \/ ent[x].child \in A
      /\ \A S : (h \in S \/ h = NULL)
                /\ (\A x \in Ids : x \in S => ent[x].child \in S \/ ent[x].child = NULL)
                => A \subseteq S
  BY <1>3, <1>7, WalkFacts
<1>9. /\ v \in B
      /\ \A x \in B : ent'[x].child = NULL \/ ent'[x].child \in B
      /\ \A S : v \in S
                /\ (\A x \in Ids : x \in S => ent'[x].child \in S \/ ent'[x].child = NULL)
                => B \subseteq S
  BY <1>1, <1>2, <1>3, WalkFacts
<1>10. \/ h = NULL /\ below \in Unused /\ ent'[below].child = NULL
       \/ h = below /\ below \in A /\ below \in Used
  <2>1. CASE h = NULL
    <3>1. below \in Unused /\ belowEntry = Entry("INVALID", n)
      BY <1>2, <1>3, <2>1 DEF LinkArgs
    <3> QED
      BY <1>1, <2>1, <3>1 DEF Entry, NoEntry
  <2>2. CASE h # NULL
    BY <1>7, <1>8, <2>2 DEF LinkArgs
  <2> QED
    BY <2>1, <2>2
<1> HIDE DEF A, B, h
<1>11. B \subseteq {v, below} \cup A
  <2> DEFINE S == {v, below} \cup A
  <2>1. ASSUME NEW x \in Ids, x \in S PROVE ent'[x].child \in S \/ ent'[x].child = NULL
    <3>1. CASE x = v
      BY <1>1, <3>1
    <3>2. CASE x \in A
      BY <1>4, <1>7, <1>8, <3>2
    <3>3. CASE x = below /\ x \notin A
      BY <1>10, <3>3
    <3> QED
      BY <2>1, <3>1, <3>2, <3>3
  <2> HIDE DEF S
  <2>2. v \in S
    BY DEF S
  <2>3. B \subseteq S
    BY <1>9, <2>1, <2>2
  <2> QED
    BY <2>3 DEF S
<1>12. v \in B /\ below \in B
  BY <1>1, <1>2, <1>3, <1>9
<1>13. A \subseteq B
  <2>1. h \in B \/ h = NULL
    BY <1>10, <1>12
  <2>2. ASSUME NEW x \in Ids, x \in B PROVE ent[x].child \in B \/ ent[x].child = NULL
    <3>1. CASE x \in Used
      BY <1>4, <1>9, <2>2, <3>1
    <3>2. CASE x \notin Used
      <4>1. ent[x] = NoEntry
        BY <3>2 DEF Used, Unused
      <4> QED
        BY <4>1, NoEntryFields
    <3> QED
      BY <3>1, <3>2
  <2> QED
    BY <1>8, <2>1, <2>2
<1> QED
  BY <1>5, <1>6, <1>10, <1>11, <1>12, <1>13 DEF A, B, h

(***************************************************************************)
(* Steps                                                                   *)
(***************************************************************************)

LEMMA LinkStep ==
    ASSUME CatalogInv, NEW set, NEW n, NEW v, NEW entry, NEW below, NEW belowEntry,
           LinkArgs(set, n, v, entry, below, belowEntry),
           link(set, n, v, entry, below, belowEntry), alive, alive' = alive, FaultTypes'
    PROVE  CatalogInv'
<1>1. /\ ent' \in [Ids -> Entries] /\ data' \in [Sets -> [Names -> Ids \cup {NULL}]]
      /\ \A x \in Ids : x # v /\ x # below => ent'[x] = ent[x]
      /\ ent'[v] \in Entries /\ ent'[below] \in Entries
      /\ ent'[v].child = below /\ ent'[v].parent = NULL /\ ent'[v].name = entry.name
      /\ ent'[v].type = entry.type /\ ent'[v].deleted = entry.deleted
      /\ ent'[below].child = belowEntry.child /\ ent'[below].parent = v
      /\ ent'[below].name = belowEntry.name /\ ent'[below].type = belowEntry.type
      /\ ent'[below].deleted = belowEntry.deleted
      /\ \A q \in Sets, m \in Names :
           data'[q][m] = IF q = set /\ m = n THEN v ELSE data[q][m]
      /\ data[v] = EmptySet /\ data'[v] = EmptySet /\ v # set
      /\ \A q \in Sets : q # set => data'[q] = data[q]
  BY LinkEffect
<1>2. /\ set \in Sets /\ n \in Names /\ v \in Ids /\ v \in Unused /\ below \in Ids /\ below # v
      /\ v \notin Used /\ ent[v] = NoEntry
      /\ entry.type # "none" /\ Named(entry, n)
      /\ entry.deleted => entry.type = "INVALID"
      /\ entry.type = "SCHEMA" => n \in SchemaNames
      /\ set = 0 => n \in SchemaNames /\ (~entry.deleted => entry.type = "SCHEMA")
      /\ set # 0 => n \in TableNames /\ ent[set].type = "SCHEMA"
  BY DEF LinkArgs, Used, Unused
<1>3. /\ ent \in [Ids -> Entries] /\ data \in [Sets -> [Names -> Ids \cup {NULL}]]
      /\ NULL \notin Ids /\ 0 \in Sets /\ Ids \subseteq Sets
  BY Typed
<1>4. \/ /\ data[set][n] = NULL /\ below \in Unused /\ ent[below] = NoEntry
         /\ belowEntry = Entry("INVALID", n)
         /\ belowEntry.type = "INVALID" /\ belowEntry.name = n
         /\ belowEntry.deleted = FALSE /\ belowEntry.child = NULL
      \/ /\ data[set][n] = below /\ belowEntry = ent[below] /\ below \in Used
         /\ entry.deleted \/ ent[below].deleted
  <2>1. CASE data[set][n] = NULL
    BY <1>2, <1>3, <2>1 DEF LinkArgs, Unused, Entry, NoEntry
  <2>2. CASE data[set][n] # NULL
    BY <1>2, <2>2 DEF LinkArgs, CatalogInv, HeadsUsed
  <2> QED
    BY <2>1, <2>2
<1>5. /\ Named(ent'[below], n) /\ ent'[below].type \in {"INVALID", ent[below].type}
      /\ ent'[below].type # "none"
      /\ below \in Used => ent[below].type # "none"
  <2>1. ASSUME below \in Used PROVE ent[below].type # "none"
    BY <2>1 DEF CatalogInv, Kinds, Used, Unused
  <2>2. data[set][n] = below => Named(ent[below], n)
    BY <1>2, <1>3, ChainNamed
  <2> QED
    BY <1>1, <1>4, <2>1, <2>2 DEF Named
<1>6. /\ Walk(ent', data'[set][n]) = {v, below} \cup Walk(ent, data[set][n])
      /\ \A q \in Sets, m \in Names : q # set \/ m # n =>
           Walk(ent', data'[q][m]) = Walk(ent, data[q][m])
      /\ data[set][n] = NULL \/ below \in Walk(ent, data[set][n])
  BY LinkChains
<1>7. \A q \in Sets, m \in Names : Walk(ent, data[q][m]) \subseteq Used
  BY ChainUsed
<1>8. Used' = Used \cup {v, below}
  <2>1. ent'[v] # NoEntry /\ ent'[below] # NoEntry
    BY <1>1, <1>2, <1>5, NoEntryFields
  <2> QED
    BY <1>1, <1>2, <2>1 DEF Used, Unused
<1>9. TypeOK'
  <2>1. \A t \in TableNames : data'[0][t] = NULL
    <3>1. ASSUME NEW t \in TableNames PROVE data'[0][t] = NULL
      <4>1. data[0][t] = NULL
        BY DEF CatalogInv, ChainsWellFormed, TypeOK
      <4>2. t \in Names /\ (set = 0 => t # n)
        BY <1>2, CatalogAssumption DEF Names
      <4> QED
        BY <1>1, <1>3, <4>1, <4>2
    <3> QED
      BY <3>1
  <2>2. \A i \in Ids, s \in SchemaNames : data'[i][s] = NULL
    <3>1. ASSUME NEW i \in Ids, NEW s \in SchemaNames PROVE data'[i][s] = NULL
      <4>1. data[i][s] = NULL
        BY DEF CatalogInv, ChainsWellFormed, TypeOK
      <4>2. i # 0 /\ i \in Sets /\ s \in Names /\ (set # 0 => s # n)
        BY <1>2, <1>3, CatalogAssumption DEF Names, NULL
      <4> QED
        BY <1>1, <4>1, <4>2
    <3> QED
      BY <3>1
  <2>3. alive' \in BOOLEAN
    BY Typed, Zenon
  <2>4. ent' \in [Ids -> Entries] /\ data' \in [Sets -> [Names -> Ids \cup {NULL}]]
    BY <1>1
  <2> QED
    BY <2>1, <2>2, <2>3, <2>4, Zenon DEF TypeOK, Entries, FaultTypes
<1>10. ASSUME NEW q \in Sets, NEW m \in Names, q # set \/ m # n, data[q][m] # NULL
       PROVE  /\ data'[q][m] = data[q][m] /\ data[q][m] \in Used
              /\ data[q][m] # v /\ data[q][m] # below
              /\ ent'[data[q][m]] = ent[data[q][m]]
  <2> DEFINE h == data[q][m]
  <2>1. data'[q][m] = h /\ h \in Used /\ h \in Ids /\ h # v
    BY <1>1, <1>2, <1>10 DEF CatalogInv, HeadsUsed, Used
  <2>2. h \in Walk(ent, h)
    BY <1>3, <1>10, <2>1, WalkFacts
  <2>3. h # below
    <3>1. CASE data[set][n] = NULL
      BY <1>2, <1>3, <1>4, <2>1, <3>1 DEF Used
    <3>2. CASE data[set][n] # NULL
      <4>1. h = below => h \in Chain(data[set][n]) /\ h \in Chain(data[q][m])
        BY <1>6, <2>2, <3>2, ChainIsWalk
      <4> QED
        BY <1>2, <1>10, <2>1, <4>1 DEF CatalogInv, Disjoint
    <3> QED
      BY <3>1, <3>2
  <2> QED
    BY <1>1, <2>1, <2>3
<1>11. \A q \in Sets, m \in Names : data'[q][m] # NULL => ent'[data'[q][m]].parent = NULL
  <2>1. ASSUME NEW q \in Sets, NEW m \in Names, data'[q][m] # NULL
        PROVE  ent'[data'[q][m]].parent = NULL
    <3>1. CASE q = set /\ m = n
      BY <1>1, <3>1
    <3>2. CASE q # set \/ m # n
      <4>1. data'[q][m] = data[q][m]
        BY <1>1, <3>2
      <4> QED
        BY <1>10, <2>1, <3>2, <4>1 DEF CatalogInv, ChainsWellFormed
    <3> QED
      BY <3>1, <3>2
  <2> QED
    BY <2>1
<1> DEFINE Linked(e, i) ==
             IF e[i].child = NULL THEN e[i].type = "INVALID" /\ ~e[i].deleted
             ELSE /\ e[e[i].child].parent = i
                  /\ ~e[i].deleted =>
                       e[e[i].child].type = "INVALID"
                       /\ (e[e[i].child].deleted \/ e[e[i].child].child = NULL)
<1>20. ASSUME NEW i \in Used
       PROVE  /\ ent'[i].child = ent[i].child /\ ent'[i].type = ent[i].type
              /\ ent'[i].deleted = ent[i].deleted /\ ent'[i].name = ent[i].name
  <2>1. i \in Ids /\ i # v
    BY <1>2, <1>20 DEF Used
  <2>2. CASE i = below
    BY <1>1, <1>4, <1>20, <2>2 DEF Used
  <2>3. CASE i # below
    BY <1>1, <2>1, <2>3
  <2> QED
    BY <2>2, <2>3
<1>12. ASSUME NEW i \in Used' PROVE Linked(ent', i)
  <2>1. CASE i = v
    <3>1. below # NULL
      BY <1>2, <1>3
    <3>2. entry.deleted \/ (ent'[below].type = "INVALID"
                            /\ (ent'[below].deleted \/ ent'[below].child = NULL))
      BY <1>1, <1>2, <1>4 DEF CatalogInv, Kinds
    <3> QED
      BY <1>1, <1>5, <2>1, <3>1, <3>2
  <2>2. CASE i = below /\ below \in Unused
    BY <1>1, <1>4, <2>2 DEF Used
  <2>3. CASE i \in Used
    <3>1. i \in Ids /\ i # v /\ i # NULL
      BY <1>2, <1>3, <2>3 DEF Used
    <3>2. Linked(ent, i)
      BY <2>3 DEF CatalogInv, ChainsWellFormed, Used
    <3>3. /\ ent'[i].child = ent[i].child /\ ent'[i].type = ent[i].type
          /\ ent'[i].deleted = ent[i].deleted
      BY <1>20, <2>3
    <3> DEFINE c == ent[i].child
    <3>4. CASE c = NULL
      BY <3>2, <3>3, <3>4
    <3>5. CASE c # NULL
      <4>1. c \in Ids /\ ent[c].parent = i
        BY <1>3, <3>1, <3>2, <3>5 DEF Entries
      <4>2. c # v
        BY <1>2, <3>1, <4>1, NoEntryFields
      <4>3. c # below
        <5>1. data[set][n] = below => ent[below].parent = NULL
          BY <1>2, <1>3 DEF CatalogInv, ChainsWellFormed
        <5> QED
          BY <1>4, <3>1, <4>1, <5>1, NoEntryFields
      <4>4. ent'[c] = ent[c]
        BY <1>1, <4>1, <4>2, <4>3
      <4> QED
        BY <3>2, <3>3, <3>5, <4>4
    <3> QED
      BY <3>4, <3>5
  <2> QED
    BY <1>8, <2>1, <2>2, <2>3 DEF Used
<1>21. ASSUME NEW q \in Sets, NEW m \in Names, NEW i \in Walk(ent', data'[q][m])
       PROVE  Named(ent'[i], m)
  <2>1. ASSUME i \in Walk(ent, data[q][m]) PROVE Named(ent'[i], m)
    <3>1. i \in Used /\ Named(ent[i], m)
      BY <1>7, <2>1, ChainNamed
    <3> QED
      BY <1>20, <3>1 DEF Named
  <2>2. CASE q = set /\ m = n
    <3>1. i = v \/ i = below \/ i \in Walk(ent, data[q][m])
      BY <1>6, <1>21, <2>2
    <3>2. Named(ent'[v], n)
      BY <1>1, <1>2 DEF Named
    <3> QED
      BY <1>5, <2>1, <2>2, <3>1, <3>2
  <2>3. CASE q # set \/ m # n
    BY <1>6, <1>21, <2>1, <2>3
  <2> QED
    BY <2>2, <2>3
<1>13. ChainsWellFormed'
  <2>1. \A i \in (Ids \ Unused)' : Linked(ent', i)
    BY <1>12 DEF Used
  <2>2. \A q \in Sets, m \in Names : \A i \in Chain(data[q][m])' : Named(ent'[i], m)
    BY <1>21, ChainAfter
  <2> QED
    BY <1>9, <1>11, <2>1, <2>2, Zenon DEF ChainsWellFormed, Named
<1>14. HeadsUsed'
  <2>1. ASSUME NEW q \in Sets, NEW m \in Names, data'[q][m] # NULL
        PROVE  /\ data'[q][m] \in Used'
               /\ q = 0 /\ ~ent'[data'[q][m]].deleted => ent'[data'[q][m]].type = "SCHEMA"
    <3>1. CASE q = set /\ m = n
      BY <1>1, <1>2, <1>8, <3>1
    <3>2. CASE q # set \/ m # n
      <4>1. data'[q][m] = data[q][m]
        BY <1>1, <3>2
      <4> QED
        BY <1>8, <1>10, <2>1, <3>2, <4>1 DEF CatalogInv, HeadsUsed
    <3> QED
      BY <3>1, <3>2
  <2> QED
    BY <2>1 DEF HeadsUsed
<1>15. Kinds'
  <2>1. ASSUME NEW i \in Ids
        PROVE  /\ ent'[i].type # "SCHEMA" => data'[i] = EmptySet
               /\ ent'[i].type = "SCHEMA" => ent'[i].name \in SchemaNames
               /\ ent'[i].deleted => ent'[i].type = "INVALID"
               /\ ent'[i].type = "none" => ent'[i] = NoEntry
    <3>0. i \in Sets /\ i # 0
      BY <1>3 DEF NULL
    <3>1. CASE i = v
      BY <1>1, <1>2, <3>1 DEF Named
    <3>2. CASE i = below
      <4>1. below \in Used => ent'[below].type = ent[below].type /\ ent'[below].deleted = ent[below].deleted
        BY <1>1, <1>4 DEF Used
      <4>2. below \notin Used => ent'[below].type = "INVALID" /\ data[below] = EmptySet /\ below # set
        BY <1>1, <1>2, <1>4, <3>0, <3>2, NoEntryFields DEF CatalogInv, Kinds
      <4>3. ent'[i].type # "SCHEMA" => data'[i] = EmptySet
        BY <1>1, <1>2, <3>0, <3>2, <4>1, <4>2 DEF CatalogInv, Kinds
      <4>4. ent'[i].type = "SCHEMA" => ent'[i].name \in SchemaNames
        <5>1. below \in Used => ent'[below].name = ent[below].name
          BY <1>1, <1>4 DEF Used
        <5> QED
          BY <1>5, <3>2, <4>1, <4>2, <5>1 DEF CatalogInv, Kinds
      <4>5. ent'[i].deleted => ent'[i].type = "INVALID"
        BY <3>2, <4>1, <4>2 DEF CatalogInv, Kinds
      <4> QED
        BY <1>5, <3>2, <4>3, <4>4, <4>5
    <3>3. CASE i # v /\ i # below
      <4>1. ent'[i] = ent[i] /\ (i # set => data'[i] = data[i])
        BY <1>1, <3>0, <3>3
      <4>2. i = set => ent[i].type = "SCHEMA"
        BY <1>2, <3>0
      <4> QED
        BY <4>1, <4>2 DEF CatalogInv, Kinds
    <3> QED
      BY <3>1, <3>2, <3>3
  <2> QED
    BY <2>1, Zenon DEF Kinds, EmptySet
<1>16. \A q \in Sets, m \in Names :
         /\ Chain(data[q][m])' = Walk(ent', data'[q][m])
         /\ Chain(data[q][m]) = Walk(ent, data[q][m])
  BY ChainIsWalk, ChainAfter
<1>17. Owned'
  <2>1. ASSUME NEW i \in Used'
        PROVE  \E q \in Sets, m \in Names : i \in Walk(ent', data'[q][m])
    <3>1. CASE i = v \/ i = below
      BY <1>2, <1>6, <3>1
    <3>2. CASE i \in Used
      <4>1. PICK q \in Sets, m \in Names : i \in Walk(ent, data[q][m])
        BY <1>16, <3>2 DEF CatalogInv, Owned
      <4> QED
        BY <1>2, <1>6, <4>1
    <3> QED
      BY <1>8, <3>1, <3>2
  <2> QED
    BY <1>16, <2>1, Zenon DEF Owned
<1>18. Disjoint'
  <2>0. \A s1, s2 \in Sets, n1, n2 \in Names, i \in Ids :
          i \in Walk(ent, data[s1][n1]) /\ i \in Walk(ent, data[s2][n2]) => s1 = s2 /\ n1 = n2
    BY <1>16 DEF CatalogInv, Disjoint
  <2>1. ASSUME NEW q \in Sets, NEW m \in Names, q # set \/ m # n, NEW i \in Ids,
               i \in Walk(ent, data[q][m])
        PROVE  i \notin {v, below} \cup Walk(ent, data[set][n])
    <3>1. i \in Used /\ i # v
      BY <1>2, <1>7, <2>1
    <3>2. i \notin Walk(ent, data[set][n])
      BY <1>2, <2>0, <2>1
    <3>3. i # below
      <4>1. CASE data[set][n] = NULL
        BY <1>2, <1>3, <1>4, <3>1, <4>1 DEF Used
      <4>2. CASE data[set][n] # NULL
        BY <1>6, <3>2, <4>2
      <4> QED
        BY <4>1, <4>2
    <3> QED
      BY <3>1, <3>2, <3>3
  <2>2. ASSUME NEW s1 \in Sets, NEW s2 \in Sets, NEW n1 \in Names, NEW n2 \in Names, NEW i \in Ids,
               i \in Walk(ent', data'[s1][n1]), i \in Walk(ent', data'[s2][n2])
        PROVE  s1 = s2 /\ n1 = n2
    <3>1. CASE s1 = set /\ n1 = n
      BY <1>6, <2>1, <2>2, <3>1
    <3>2. CASE s2 = set /\ n2 = n
      BY <1>6, <2>1, <2>2, <3>2
    <3>3. CASE (s1 # set \/ n1 # n) /\ (s2 # set \/ n2 # n)
      BY <1>6, <2>0, <2>2, <3>3
    <3> QED
      BY <3>1, <3>2, <3>3
  <2>3. ASSUME NEW s1 \in Sets, NEW s2 \in Sets, NEW n1 \in Names, NEW n2 \in Names, NEW i \in Ids,
               i \in Chain(data[s1][n1])', i \in Chain(data[s2][n2])'
        PROVE  s1 = s2 /\ n1 = n2
    BY <1>16, <2>2, <2>3
  <2> QED
    BY <2>3 DEF Disjoint
<1>19. Nothing'
  BY Zenon DEF Nothing
<1> QED
  BY <1>13, <1>14, <1>15, <1>17, <1>18, <1>19 DEF CatalogInv

(* An empty catalog.                                                       *)
Empty ==
    /\ ent = [i \in Ids |-> NoEntry] /\ data = [i \in Sets |-> EmptySet]
    /\ alive \in BOOLEAN /\ FaultTypes

LEMMA EmptyInv == Empty => CatalogInv
<1>1. SUFFICES ASSUME Empty PROVE CatalogInv
  OBVIOUS
<1>2. /\ NULL \notin Ids /\ 0 \in Sets /\ Ids \subseteq Sets
      /\ SchemaNames \subseteq Names /\ TableNames \subseteq Names
  BY SMT DEF NULL, Ids, Sets, Names
<1>3. /\ \A set \in Sets, n \in Names : data[set][n] = NULL
      /\ \A i \in Ids : ent[i] = NoEntry /\ data[i] = EmptySet
      /\ Unused = Ids
  BY <1>1, <1>2 DEF Empty, EmptySet, Unused
<1>4. TypeOK
  <2>1. ent \in [Ids -> Entries] /\ data \in [Sets -> [Names -> Ids \cup {NULL}]]
    BY <1>1, NoEntryFields DEF Empty, EmptySet
  <2>2. alive \in BOOLEAN
    BY <1>1, Zenon DEF Empty
  <2>3. /\ \A t \in TableNames : data[0][t] = NULL
        /\ \A i \in Ids, s \in SchemaNames : data[i][s] = NULL
    BY <1>2, <1>3
  <2>4. FaultTypes
    BY <1>1, Zenon DEF Empty
  <2> QED
    BY <2>1, <2>2, <2>3, <2>4, Zenon DEF TypeOK, Entries, FaultTypes
<1>11. \A set \in Sets, n \in Names : Chain(data[set][n]) = {}
  <2>1. ASSUME NEW set \in Sets, NEW n \in Names PROVE Chain(data[set][n]) = {}
    <3>1. data[set][n] = NULL /\ ent \in [Ids -> Entries]
      BY <1>1, <1>3, NoEntryFields DEF Empty
    <3>2. Walk(ent, data[set][n]) = {}
      BY <3>1, NoChain
    <3> QED
      BY <3>2, ChainIsWalk
  <2> QED
    BY <2>1
<1>5. ChainsWellFormed
  BY <1>3, <1>4, <1>11 DEF ChainsWellFormed
<1>6. HeadsUsed
  BY <1>3 DEF HeadsUsed
<1>7. Kinds
  BY <1>3, NoEntryFields DEF Kinds
<1>8. Owned
  BY <1>3 DEF Owned, Used
<1>9. Disjoint
  BY <1>11 DEF Disjoint
<1>10. Nothing
  BY <1>1 DEF Empty, Nothing
<1> QED
  BY <1>5, <1>6, <1>7, <1>8, <1>9, <1>10 DEF CatalogInv

LEMMA EmptyAfter == Empty' => CatalogInv'
BY EmptyInv, PTL

(* malloc's addresses are free ones.                                       *)
LEMMA FreshIsUnused ==
    /\ Memory(1) => Fresh \in Unused
    /\ Memory(2) => Fresh \in Unused /\ FreshDummy \in Unused /\ FreshDummy # Fresh
<1>0. Unused \subseteq Ids
  BY DEF Unused
<1>1. Memory(1) \/ Memory(2) => Unused # {}
  BY FS_EmptySet, SMT DEF Memory
<1>2. Unused # {} => Fresh \in Unused
  BY <1>0, MinOfIds DEF Fresh
<1>3. ASSUME Memory(2) PROVE Unused \ {Fresh} # {}
  <2>1. SUFFICES ASSUME Unused \ {Fresh} = {} PROVE FALSE
    OBVIOUS
  <2>2. Unused = {Fresh}
    BY <1>1, <1>2, <1>3, <2>1
  <2>3. Cardinality(Unused) = 1
    BY <2>2, FS_Singleton, Zenon
  <2> QED
    BY <1>3, <2>3, SMT DEF Memory
<1>4. Unused \ {Fresh} # {} => FreshDummy \in Unused \ {Fresh}
  <2>1. Unused \ {Fresh} \subseteq Ids
    BY <1>0
  <2> QED
    BY <2>1, MinOfIds DEF FreshDummy
<1> QED
  BY <1>1, <1>2, <1>3, <1>4

LEMMA EntryFields ==
    \A type \in {"INVALID", "SCHEMA", "TABLE"}, n \in Names \cup {NULL} :
      /\ Entry(type, n) \in Entries /\ Entry(type, n).name = n /\ Entry(type, n).type = type
      /\ ~Entry(type, n).deleted /\ Entry(type, n).parent = NULL
      /\ Tombstone(n) \in Entries /\ Tombstone(n).name = n /\ Tombstone(n).type = "INVALID"
      /\ Tombstone(n).deleted /\ Tombstone(n).parent = NULL
BY DEF Entry, Tombstone, NoEntry, Entries

(* Where an entry may be put: a schema among the schemas, a table among the *)
(* tables of a schema.                                                     *)
Place(set, type, n) ==
    \/ set = 0 /\ type = "SCHEMA" /\ n \in SchemaNames
    \/ set \in Ids /\ type = "TABLE" /\ n \in TableNames /\ ent[set].type = "SCHEMA"

LEMMA PlaceFacts ==
    ASSUME CatalogInv, NEW set, NEW type, NEW n, Place(set, type, n)
    PROVE  /\ set \in Sets /\ n \in Names /\ type \in {"INVALID", "SCHEMA", "TABLE"}
           /\ set = 0 => n \in SchemaNames /\ type = "SCHEMA"
           /\ set # 0 => n \in TableNames /\ type = "TABLE" /\ ent[set].type = "SCHEMA"
           /\ data[set][n] \in Ids \cup {NULL}
           /\ data[set][n] # NULL => data[set][n] \in Used
BY Typed DEF Place, Names, NULL, CatalogInv, HeadsUsed

LEMMA CreateEntryLinks ==
    ASSUME CatalogInv, NEW set, NEW type, NEW n, Place(set, type, n),
           catalogSet_create_entry(set, n, Entry(type, n))
    PROVE  /\ Visible(set, n) = NULL
           /\ \E v, below, belowEntry :
                /\ LinkArgs(set, n, v, Entry(type, n), below, belowEntry)
                /\ link(set, n, v, Entry(type, n), below, belowEntry)
<1>1. /\ set \in Sets /\ n \in Names /\ type \in {"INVALID", "SCHEMA", "TABLE"}
      /\ set = 0 => n \in SchemaNames /\ type = "SCHEMA"
      /\ set # 0 => n \in TableNames /\ type = "TABLE" /\ ent[set].type = "SCHEMA"
      /\ data[set][n] \in Ids \cup {NULL}
      /\ data[set][n] # NULL => data[set][n] \in Used
  BY PlaceFacts
<1> DEFINE entry == Entry(type, n)
<1>2. /\ entry \in Entries /\ entry.name = n /\ entry.type = type
      /\ ~entry.deleted /\ entry.parent = NULL
  BY <1>1, EntryFields
<1>3. Unused \subseteq Ids
  BY DEF Unused
<1>4. CASE /\ data[set][n] = NULL /\ Memory(2)
           /\ link(set, n, Fresh, entry, FreshDummy, Entry("INVALID", n))
  <2>1. Fresh \in Unused /\ FreshDummy \in Unused /\ FreshDummy # Fresh
    BY <1>4, FreshIsUnused
  <2>2. Entry("INVALID", n) \in Entries
    BY <1>1, EntryFields
  <2>3. LinkArgs(set, n, Fresh, entry, FreshDummy, Entry("INVALID", n))
    <3> HIDE DEF entry
    <3> QED
      BY <1>1, <1>2, <1>3, <1>4, <2>1, <2>2 DEF LinkArgs, Named
  <2> QED
    BY <1>4, <2>3 DEF Visible
<1>5. CASE /\ data[set][n] # NULL /\ ent[data[set][n]].deleted /\ Memory(1)
           /\ link(set, n, Fresh, entry, data[set][n], ent[data[set][n]])
  <2>1. Fresh \in Unused /\ data[set][n] \in Ids /\ data[set][n] # Fresh
    BY <1>1, <1>5, FreshIsUnused DEF Used
  <2>2. ent[data[set][n]] \in Entries
    BY <2>1, Typed
  <2>3. LinkArgs(set, n, Fresh, entry, data[set][n], ent[data[set][n]])
    <3> HIDE DEF entry
    <3> QED
      BY <1>1, <1>2, <1>5, <2>1, <2>2 DEF LinkArgs, Named
  <2> QED
    BY <1>5, <2>3 DEF Visible
<1> QED
  BY <1>4, <1>5 DEF catalogSet_create_entry

LEMMA DropLinks ==
    ASSUME CatalogInv, NEW set, NEW type, NEW n, Place(set, type, n),
           data[set][n] # NULL, Memory(1), NEW name \in {n, NULL}
    PROVE  LinkArgs(set, n, Fresh, Tombstone(name), data[set][n], ent[data[set][n]])
<1>1. /\ set \in Sets /\ n \in Names
      /\ set = 0 => n \in SchemaNames
      /\ set # 0 => n \in TableNames /\ ent[set].type = "SCHEMA"
      /\ data[set][n] \in Ids /\ data[set][n] \in Used
  BY PlaceFacts
<1>2. Fresh \in Unused /\ data[set][n] # Fresh
  BY <1>1, FreshIsUnused DEF Used
<1>3. ent[data[set][n]] \in Entries
  BY <1>1, Typed
<1> DEFINE entry == Tombstone(name)
<1>4. /\ entry \in Entries /\ entry.name = name /\ entry.type = "INVALID"
      /\ entry.deleted /\ entry.parent = NULL
  BY <1>1, EntryFields
<1> HIDE DEF entry
<1>5. LinkArgs(set, n, Fresh, entry, data[set][n], ent[data[set][n]])
  BY <1>1, <1>2, <1>3, <1>4 DEF LinkArgs, Named
<1> QED
  BY <1>5 DEF entry

LEMMA SchemaPlace ==
    ASSUME CatalogInv, NEW s \in SchemaNames, catalog_get_schema(s) # NULL
    PROVE  /\ catalog_get_schema(s) = data[0][s] /\ catalog_get_schema(s) \in Ids
           /\ ent[catalog_get_schema(s)].type = "SCHEMA" /\ ent[catalog_get_schema(s)].name = s
           /\ \A t \in TableNames : Place(catalog_get_schema(s), "TABLE", t)
<1>1. s \in Names /\ 0 \in Sets
  BY Typed DEF Names
<1>2. /\ catalog_get_schema(s) = data[0][s] /\ data[0][s] # NULL /\ ~ent[data[0][s]].deleted
  BY DEF catalog_get_schema, Visible
<1>3. data[0][s] \in Ids /\ ent[data[0][s]].type = "SCHEMA" /\ ent[data[0][s]].name = s
  BY <1>1, <1>2, ChainNamed DEF CatalogInv, HeadsUsed, Used, Named
<1> QED
  BY <1>2, <1>3 DEF Place

(* A process that dies leaves nothing.                                     *)
LEMMA DiesEmpties ==
    ASSUME Dies, unchecked' \in BOOLEAN
    PROVE  Empty' /\ ~alive'
<1>1. /\ ent' = [i \in Ids |-> NoEntry] /\ data' = [i \in Sets |-> EmptySet]
      /\ alive' = FALSE /\ died' = TRUE /\ no_buckets' = {}
  BY Zenon DEF Dies
<1>2. no_buckets' \subseteq Sets \X Hmaps
  BY <1>1
<1>3. alive' \in BOOLEAN /\ died' \in BOOLEAN
  BY <1>1, Zenon
<1> QED
  BY <1>1, <1>2, <1>3, Zenon DEF Empty, FaultTypes

(* catalog_destroy frees every entry, unless the process dies of it.       *)
LEMMA DestroyEmpties ==
    ASSUME CatalogInv, catalog_destroy
    PROVE  Empty' /\ ~alive'
<1>0. unchecked' \in BOOLEAN /\ died \in BOOLEAN
  BY Zenon DEF catalog_destroy, CatalogInv, ChainsWellFormed, TypeOK
<1> DEFINE freed == InSet(0) \cup UNION {InSet(i) : i \in InSet(0)}
<1>5. CASE Dies
  BY <1>0, <1>5, DiesEmpties
<1>6. SUFFICES ASSUME ~Dies PROVE Empty' /\ ~alive'
  BY <1>5
<1>1. /\ ent' = [i \in Ids |-> IF i \in freed THEN NoEntry ELSE ent[i]]
      /\ data' = [i \in Sets |-> EmptySet] /\ alive' = FALSE
      /\ no_buckets' = {} /\ died' = died
  BY <1>6, Zenon DEF catalog_destroy
<1>2. ASSUME NEW i \in Used PROVE i \in freed
  <2>1. PICK set \in Sets, n \in Names : i \in Chain(data[set][n])
    BY DEF CatalogInv, Owned
  <2>2. i \in InSet(set)
    BY <2>1 DEF InSet
  <2>3. CASE set = 0
    BY <2>2, <2>3
  <2>4. CASE set # 0
    <3>1. set \in Ids
      BY <2>4 DEF Sets
    <3>2. data[set] # EmptySet
      <4>1. SUFFICES ASSUME data[set] = EmptySet PROVE FALSE
        OBVIOUS
      <4>2. data[set][n] = NULL
        BY <4>1 DEF EmptySet
      <4>3. Walk(ent, data[set][n]) = {}
        BY <4>2, NoChain, Typed
      <4> QED
        BY <2>1, <4>3, ChainIsWalk
    <3>3. ent[set].type = "SCHEMA" /\ ent[set].name \in SchemaNames
      BY <3>1, <3>2 DEF CatalogInv, Kinds
    <3>4. set \in Used
      BY <3>1, <3>3, NoEntryFields DEF Used, Unused
    <3>5. PICK up \in Sets, m \in Names : set \in Chain(data[up][m])
      BY <3>4 DEF CatalogInv, Owned
    <3>6. m = ent[set].name
      <4>1. Named(ent[set], m)
        BY <3>5, ChainNamed, ChainIsWalk
      <4>2. ~ent[set].deleted
        BY <3>1, <3>3 DEF CatalogInv, Kinds
      <4> QED
        BY <4>1, <4>2 DEF Named
    <3>7. up = 0
      <4>1. data[up][m] # NULL
        BY <3>5, NoChain, Typed, ChainIsWalk
      <4> QED
        BY <3>3, <3>6, <4>1 DEF CatalogInv, ChainsWellFormed, TypeOK, Sets
    <3>8. set \in InSet(0)
      BY <3>5, <3>7 DEF InSet
    <3> QED
      BY <2>2, <3>8
  <2> QED
    BY <2>3, <2>4
<1> HIDE DEF freed
<1>3. ent' = [i \in Ids |-> NoEntry]
  BY <1>1, <1>2 DEF Used, Unused
<1>4. no_buckets' \subseteq Sets \X Hmaps
  BY <1>1
<1>7. alive' \in BOOLEAN /\ died' \in BOOLEAN
  BY <1>0, <1>1, Zenon
<1> QED
  BY <1>0, <1>1, <1>3, <1>4, <1>7, Zenon DEF Empty, FaultTypes

(***************************************************************************)
(* What a step of the specification is                                     *)
(***************************************************************************)

Created(set, type, n) ==
    /\ Visible(set, n) = NULL
    /\ \E v, below, belowEntry :
         /\ LinkArgs(set, n, v, Entry(type, n), below, belowEntry)
         /\ link(set, n, v, Entry(type, n), below, belowEntry)

Dropped(set, n) ==
    \E name \in {n, NULL} : \E v, below, belowEntry :
      /\ LinkArgs(set, n, v, Tombstone(name), below, belowEntry)
      /\ link(set, n, v, Tombstone(name), below, belowEntry)

(* What a call may also come to: nothing, or the end of the process.       *)
Ends == Empty' /\ ~alive'

GoesOn == alive /\ alive' = alive /\ FaultTypes'

SchemaStep(s) == Created(0, "SCHEMA", s) \/ (s # DEFAULT_SCHEMA /\ Dropped(0, s))

TableStep(s, t) ==
    /\ catalog_get_schema(s) # NULL
    /\ Created(catalog_get_schema(s), "TABLE", t) \/ Dropped(catalog_get_schema(s), t)

LEMMA FaultFacts ==
    ASSUME CatalogInv
    PROVE  /\ FaultTypes
           /\ no_buckets \subseteq Sets \X Hmaps /\ unchecked \in BOOLEAN /\ died \in BOOLEAN
BY Zenon DEF CatalogInv, ChainsWellFormed, TypeOK, FaultTypes

LEMMA CreateKinds ==
    ASSUME CatalogInv, alive, NEW set, NEW type, NEW n, Place(set, type, n),
           NEW lost \in SUBSET Hmaps, Create(set, type, n, lost)
    PROVE  UNCHANGED vars \/ Ends \/ (GoesOn /\ Created(set, type, n))
<1>0. no_buckets \subseteq Sets \X Hmaps /\ unchecked \in BOOLEAN /\ died \in BOOLEAN
  BY FaultFacts
<1>1. CASE UNCHANGED vars
  BY <1>1
<1>2. CASE Dies /\ UNCHANGED unchecked
  BY <1>0, <1>2, DiesEmpties DEF Ends
<1>3. CASE Dies /\ unchecked' = TRUE
  <2>1. unchecked' \in BOOLEAN
    BY <1>3, Zenon
  <2> QED
    BY <1>3, <2>1, DiesEmpties DEF Ends
<1>4. CASE /\ Memory(1)
           /\ catalogSet_create_entry(set, n, Entry(type, n))
           /\ no_buckets' = no_buckets \cup ({Fresh} \X lost)
           /\ unchecked' = (unchecked \/ lost # {})
           /\ UNCHANGED <<alive, died>>
  <2>1. Fresh \in Sets
    BY <1>4, FreshIsUnused, Typed DEF Unused
  <2>2. no_buckets' \subseteq Sets \X Hmaps
    <3> DEFINE more == {Fresh} \X lost
    <3>1. more \subseteq Sets \X Hmaps
      BY <2>1
    <3> HIDE DEF more
    <3>2. no_buckets' = no_buckets \cup more
      BY <1>4 DEF more
    <3> QED
      BY <1>0, <3>1, <3>2
  <2>3. unchecked' \in BOOLEAN /\ died' \in BOOLEAN /\ alive' = alive
    BY <1>0, <1>4, Zenon
  <2>4. Created(set, type, n)
    BY <1>4, CreateEntryLinks DEF Created
  <2> QED
    BY <2>2, <2>3, <2>4, Zenon DEF GoesOn, FaultTypes
<1> QED
  BY <1>1, <1>2, <1>3, <1>4 DEF Create

LEMMA DropKinds ==
    ASSUME CatalogInv, alive, NEW set, NEW type, NEW n, Place(set, type, n),
           catalogSet_drop_entry(set, n)
    PROVE  UNCHANGED vars \/ Ends \/ (GoesOn /\ Dropped(set, n))
<1>0. no_buckets \subseteq Sets \X Hmaps /\ unchecked \in BOOLEAN /\ died \in BOOLEAN
  BY FaultFacts
<1>1. CASE UNCHANGED vars
  BY <1>1
<1>2. CASE Dies /\ UNCHANGED unchecked
  BY <1>0, <1>2, DiesEmpties DEF Ends
<1>3. ASSUME data[set][n] # NULL, Memory(1), NEW name \in {n, NULL},
             link(set, n, Fresh, Tombstone(name), data[set][n], ent[data[set][n]]),
             unchecked' \in BOOLEAN, UNCHANGED <<alive, no_buckets, died>>
      PROVE  GoesOn /\ Dropped(set, n)
  <2>1. LinkArgs(set, n, Fresh, Tombstone(name), data[set][n], ent[data[set][n]])
    BY <1>3, DropLinks
  <2>2. Dropped(set, n)
    BY <1>3, <2>1 DEF Dropped
  <2>3. alive' = alive /\ FaultTypes'
    BY <1>0, <1>3 DEF FaultTypes
  <2> QED
    BY <2>2, <2>3 DEF GoesOn
<1>4. CASE data[set][n] # NULL /\ drop_entry_impl(set, n)
  <2>1. ent[data[set][n]].name \in {n, NULL}
    <3>1. set \in Sets /\ n \in Names
      BY PlaceFacts
    <3> QED
      BY <1>4, <3>1, ChainNamed DEF Named
  <2>2. NULL \in {n, NULL} /\ TRUE \in BOOLEAN
    OBVIOUS
  <2> DEFINE top == data[set][n]
  <2>3. \/ Dies /\ UNCHANGED unchecked
        \/ /\ Memory(1) /\ UNCHANGED <<alive, no_buckets, died>>
           /\ \/ /\ link(set, n, Fresh, Tombstone(ent[top].name), top, ent[top])
                 /\ unchecked' = unchecked
              \/ /\ link(set, n, Fresh, Tombstone(NULL), top, ent[top])
                 /\ unchecked' = TRUE
        \/ UNCHANGED vars
    BY <1>4, Zenon DEF drop_entry_impl
  <2>4. CASE /\ Memory(1) /\ UNCHANGED <<alive, no_buckets, died>>
             /\ link(set, n, Fresh, Tombstone(ent[top].name), top, ent[top])
             /\ unchecked' = unchecked
    <3>1. unchecked' \in BOOLEAN
      BY <1>0, <2>4
    <3> QED
      BY <1>3, <1>4, <2>1, <2>4, <3>1
  <2>5. CASE /\ Memory(1) /\ UNCHANGED <<alive, no_buckets, died>>
             /\ link(set, n, Fresh, Tombstone(NULL), top, ent[top])
             /\ unchecked' = TRUE
    <3>1. unchecked' \in BOOLEAN
      BY <2>5, Zenon
    <3> QED
      BY <1>3, <1>4, <2>2, <2>5, <3>1
  <2> QED
    BY <1>1, <1>2, <2>3, <2>4, <2>5
<1> QED
  BY <1>1, <1>2, <1>4 DEF catalogSet_drop_entry

LEMMA StepKinds ==
    ASSUME CatalogInv, [Next]_vars
    PROVE  \/ UNCHANGED vars
           \/ Empty /\ ~alive /\ Empty'
           \/ Ends
           \/ /\ GoesOn
              /\ \E s \in SchemaNames : SchemaStep(s) \/ \E t \in TableNames : TableStep(s, t)
<1>0. no_buckets \subseteq Sets \X Hmaps /\ unchecked \in BOOLEAN /\ died \in BOOLEAN
  BY FaultFacts
<1>1. CASE UNCHANGED vars
  BY <1>1
<1>2. CASE catalog_create
  <2>1. ent' = ent /\ data' = [data EXCEPT ![0] = EmptySet] /\ alive' = TRUE /\ ~alive
    BY <1>2 DEF catalog_create
  <2>2. ent = [i \in Ids |-> NoEntry] /\ data = [i \in Sets |-> EmptySet]
    BY <2>1 DEF CatalogInv, Nothing
  <2>3. data' = [i \in Sets |-> EmptySet]
    BY <2>1, <2>2
  <2>4. alive \in BOOLEAN /\ alive' \in BOOLEAN
    BY <2>1, Typed, Zenon
  <2>5. PICK lost \in Lost({"data"}) :
          no_buckets' = {0} \X lost /\ unchecked' = (lost # {}) /\ died' = FALSE
    BY <1>2, Zenon DEF catalog_create
  <2>6. no_buckets' \subseteq Sets \X Hmaps
    <3>1. lost \subseteq Hmaps /\ 0 \in Sets
      BY Typed DEF Lost, Hmaps
    <3> QED
      BY <2>5, <3>1
  <2>7. unchecked' \in BOOLEAN /\ died' \in BOOLEAN
    BY <2>5, Zenon
  <2>8. FaultTypes'
    BY <2>6, <2>7, Zenon DEF FaultTypes
  <2>9. FaultTypes
    BY FaultFacts
  <2> QED
    BY <2>1, <2>2, <2>3, <2>4, <2>8, <2>9, Zenon DEF Empty
<1>3. CASE catalog_destroy
  BY <1>3, DestroyEmpties DEF Ends
<1>8. ASSUME no_schemas PROVE Ends
  BY <1>0, <1>8, DiesEmpties DEF Ends, no_schemas
<1>4. ASSUME NEW s \in SchemaNames, catalog_create_schema(s)
      PROVE  UNCHANGED vars \/ Ends \/ (GoesOn /\ SchemaStep(s))
  <2>1. PICK lost \in Lost(Hmaps) : Create(0, "SCHEMA", s, lost) /\ alive
    BY <1>4 DEF catalog_create_schema
  <2>2. Place(0, "SCHEMA", s) /\ lost \in SUBSET Hmaps
    BY <1>4 DEF Place, Lost
  <2> QED
    BY <2>1, <2>2, CreateKinds DEF SchemaStep
<1>5. ASSUME NEW s \in SchemaNames, catalog_drop_schema(s)
      PROVE  UNCHANGED vars \/ Ends \/ (GoesOn /\ SchemaStep(s))
  <2>1. Place(0, "SCHEMA", s) /\ alive /\ s # DEFAULT_SCHEMA /\ catalogSet_drop_entry(0, s)
    BY <1>5 DEF Place, catalog_drop_schema
  <2> QED
    BY <2>1, DropKinds DEF SchemaStep
<1>6. ASSUME NEW s \in SchemaNames, NEW t \in TableNames, catalog_create_table(s, t)
      PROVE  UNCHANGED vars \/ Ends \/ (GoesOn /\ TableStep(s, t))
  <2>1. CASE no_schemas
    BY <1>8, <2>1
  <2>2. CASE catalog_get_schema(s) # NULL /\ Create(catalog_get_schema(s), "TABLE", t, {})
    <3>1. PICK set : set = catalog_get_schema(s)
      OBVIOUS
    <3>2. Place(set, "TABLE", t) /\ Create(set, "TABLE", t, {}) /\ alive /\ {} \in SUBSET Hmaps
      BY <1>6, <2>2, <3>1, SchemaPlace DEF catalog_create_table
    <3>3. UNCHANGED vars \/ Ends \/ (GoesOn /\ Created(set, "TABLE", t))
      BY <3>2, CreateKinds
    <3> QED
      BY <2>2, <3>1, <3>3 DEF TableStep
  <2> QED
    BY <1>6, <2>1, <2>2 DEF catalog_create_table
<1>7. ASSUME NEW s \in SchemaNames, NEW t \in TableNames, drop_table(s, t)
      PROVE  UNCHANGED vars \/ Ends \/ (GoesOn /\ TableStep(s, t))
  <2>1. CASE no_schemas
    BY <1>8, <2>1
  <2>2. CASE catalog_get_schema(s) # NULL /\ catalogSet_drop_entry(catalog_get_schema(s), t)
    <3>1. PICK set : set = catalog_get_schema(s)
      OBVIOUS
    <3>2. Place(set, "TABLE", t) /\ catalogSet_drop_entry(set, t) /\ alive
      BY <1>7, <2>2, <3>1, SchemaPlace DEF drop_table
    <3>3. UNCHANGED vars \/ Ends \/ (GoesOn /\ Dropped(set, t))
      BY <3>2, DropKinds
    <3> QED
      BY <2>2, <3>1, <3>3 DEF TableStep
  <2> QED
    BY <1>7, <2>1, <2>2 DEF drop_table
<1>9. ASSUME NEW s \in SchemaNames, catalog_get_table(s)
      PROVE  UNCHANGED vars \/ Ends
  <2>1. CASE no_schemas
    BY <1>8, <2>1
  <2>2. CASE Dies /\ UNCHANGED unchecked
    BY <1>0, <2>2, DiesEmpties DEF Ends
  <2> QED
    BY <1>9, <2>1, <2>2 DEF catalog_get_table
<1> QED
  BY <1>1, <1>2, <1>3, <1>4, <1>5, <1>6, <1>7, <1>9 DEF Next

LEMMA StutterStep == CatalogInv /\ UNCHANGED vars => CatalogInv'
<1>1. SUFFICES ASSUME CatalogInv, UNCHANGED vars PROVE CatalogInv'
  OBVIOUS
<1>2. /\ alive' = alive /\ ent' = ent /\ data' = data
      /\ no_buckets' = no_buckets /\ unchecked' = unchecked /\ died' = died
  BY <1>1 DEF vars
<1>3. \A q \in Sets, m \in Names : Chain(data[q][m])' = Chain(data[q][m])
  BY <1>2, ChainIsWalk, ChainAfter
<1>4. ChainsWellFormed'
  <2>1. TypeOK'
    BY <1>1, <1>2 DEF CatalogInv, ChainsWellFormed, TypeOK
  <2>2. \A q \in Sets, m \in Names : \A i \in Chain(data[q][m])' : Named(ent'[i], m)
    BY <1>1, <1>2, <1>3 DEF CatalogInv, ChainsWellFormed, Named
  <2>3. /\ \A q \in Sets, m \in Names : data'[q][m] # NULL => ent'[data'[q][m]].parent = NULL
        /\ \A i \in (Ids \ Unused)' :
             IF ent'[i].child = NULL THEN ent'[i].type = "INVALID" /\ ~ent'[i].deleted
             ELSE /\ ent'[ent'[i].child].parent = i
                  /\ ~ent'[i].deleted =>
                       ent'[ent'[i].child].type = "INVALID"
                       /\ (ent'[ent'[i].child].deleted \/ ent'[ent'[i].child].child = NULL)
    BY <1>1, <1>2 DEF CatalogInv, ChainsWellFormed, Unused
  <2> QED
    BY <2>1, <2>2, <2>3, Zenon DEF ChainsWellFormed, Named
<1>5. HeadsUsed' /\ Kinds' /\ Nothing'
  BY <1>1, <1>2 DEF CatalogInv, HeadsUsed, Kinds, Nothing, Used, Unused
<1>6. Used' = Used
  BY <1>2 DEF Used, Unused
<1>7. Owned'
  BY <1>1, <1>3, <1>6 DEF CatalogInv, Owned
<1>8. Disjoint'
  <2>1. ASSUME NEW s1 \in Sets, NEW s2 \in Sets, NEW n1 \in Names, NEW n2 \in Names, NEW i \in Ids,
               i \in Chain(data[s1][n1])', i \in Chain(data[s2][n2])'
        PROVE  s1 = s2 /\ n1 = n2
    BY <1>1, <1>3, <2>1 DEF CatalogInv, Disjoint
  <2> QED
    BY <2>1 DEF Disjoint
<1> QED
  BY <1>4, <1>5, <1>7, <1>8 DEF CatalogInv

LEMMA StepInv ==
    ASSUME CatalogInv, [Next]_vars
    PROVE  CatalogInv'
<1>1. ASSUME NEW set, NEW type, NEW n, Created(set, type, n), GoesOn
      PROVE  CatalogInv'
  BY <1>1, LinkStep DEF Created, GoesOn
<1>2. ASSUME NEW set, NEW n, Dropped(set, n), GoesOn
      PROVE  CatalogInv'
  BY <1>2, LinkStep DEF Dropped, GoesOn
<1> QED
  BY <1>1, <1>2, StepKinds, StutterStep, EmptyAfter DEF SchemaStep, TableStep, Ends

LEMMA InitEmpty == Init => Empty
<1>1. SUFFICES ASSUME Init PROVE Empty
  OBVIOUS
<1>2. no_buckets \subseteq Sets \X Hmaps
  BY <1>1 DEF Init
<1> QED
  BY <1>1, <1>2, Zenon DEF Init, Empty, FaultTypes

LEMMA CatalogInvariant == Spec => []CatalogInv
<1>1. Init => CatalogInv
  <2>1. Init => Empty
    BY InitEmpty
  <2> QED
    BY <2>1, EmptyInv
<1>2. CatalogInv /\ [Next]_vars => CatalogInv'
  BY StepInv
<1> QED
  BY <1>1, <1>2, PTL DEF Spec

(***************************************************************************)
(* The theorems                                                            *)
(***************************************************************************)

(* The version chains stay well formed, whatever is created and dropped,   *)
(* and whichever allocation fails, strdup of a tombstone's name and calloc *)
(* of a schema's buckets included.                                         *)
THEOREM ChainsStayWellFormed == Spec => []ChainsWellFormed
BY CatalogInvariant, PTL DEF CatalogInv

LEMMA OwnedOnce == CatalogInv => EntriesOwned
<1>1. SUFFICES ASSUME CatalogInv, NEW i \in Ids \ Unused
               PROVE  Cardinality({at \in Sets \X Names : i \in Chain(data[at[1]][at[2]])}) = 1
  BY DEF EntriesOwned
<1>2. PICK set \in Sets, n \in Names : i \in Chain(data[set][n])
  BY <1>1 DEF CatalogInv, Owned, Used
<1>3. \A q \in Sets, m \in Names : i \in Chain(data[q][m]) => q = set /\ m = n
  BY <1>1, <1>2 DEF CatalogInv, Disjoint
<1>4. {at \in Sets \X Names : i \in Chain(data[at[1]][at[2]])} = {<<set, n>>}
  BY <1>2, <1>3
<1> QED
  BY <1>4, FS_Singleton

(* Every entry is in exactly one chain of one set, so that catalog_destroy *)
(* frees each of them once.                                                *)
THEOREM EveryEntryOwned == Spec => []EntriesOwned
BY CatalogInvariant, OwnedOnce, PTL

(* Linking a version in leaves the others as they are, but for the parent  *)
(* of the one below.                                                       *)
LEMMA LinkKeeps ==
    ASSUME CatalogInv, NEW set, NEW n, NEW v, NEW entry, NEW below, NEW belowEntry,
           LinkArgs(set, n, v, entry, below, belowEntry),
           link(set, n, v, entry, below, belowEntry),
           NEW i \in Ids, ent[i] # NoEntry
    PROVE  ent'[i] = [ent[i] EXCEPT !.parent = ent'[i].parent]
<1>1. ent[i] \in Entries /\ i # v
  BY Typed DEF LinkArgs, Unused
<1>2. CASE i # below
  <2>1. ent'[i] = ent[i]
    BY <1>1, <1>2, LinkEffect
  <2> QED
    BY <1>1, <2>1 DEF Entries
<1>3. CASE i = below
  <2>1. belowEntry = ent[i] /\ below \in Ids /\ below # v
    BY <1>3 DEF LinkArgs, Unused
  <2>2. ent \in [Ids -> Entries] /\ v \in Ids
    BY Typed DEF LinkArgs, Unused
  <2>3. ent'[i] = [ent[i] EXCEPT !.parent = v]
    BY <1>3, <2>1, <2>2 DEF link
  <2> QED
    BY <1>1, <2>3 DEF Entries
<1> QED
  BY <1>2, <1>3

(* A pointer that catalog_get_schema or catalog_get_table returned stays   *)
(* good until catalog_destroy.                                             *)
THEOREM EntriesKept == Spec => VersionsStay
<1> DEFINE Keeps == alive /\ alive' =>
                      \A i \in Ids : ent[i] # NoEntry =>
                        ent'[i] = [ent[i] EXCEPT !.parent = ent'[i].parent]
<1>1. ASSUME CatalogInv, [Next]_vars PROVE [Keeps]_vars
  <2>1. CASE UNCHANGED vars
    BY <2>1
  <2>2. CASE ~alive \/ ~alive'
    BY <2>2
  <2>3. ASSUME NEW set, NEW type, NEW n, Created(set, type, n) PROVE Keeps
    BY <1>1, <2>3, LinkKeeps DEF Created
  <2>4. ASSUME NEW set, NEW n, Dropped(set, n) PROVE Keeps
    BY <1>1, <2>4, LinkKeeps DEF Dropped
  <2> HIDE DEF Keeps
  <2> QED
    BY <1>1, <2>1, <2>2, <2>3, <2>4, StepKinds DEF SchemaStep, TableStep, Keeps, Ends
<1>2. Spec => [][Keeps]_vars
  BY <1>1, CatalogInvariant, PTL DEF Spec
<1> QED
  BY <1>2 DEF VersionsStay

(***************************************************************************)
(* What the process dies of                                                *)
(***************************************************************************)

(* Missing buckets, a missing name and a death have a failed allocation to *)
(* blame.                                                                  *)
Blamed ==
    /\ no_buckets # {} => unchecked
    /\ died => unchecked
    /\ \A i \in Used : ent[i].name = NULL => unchecked

LEMMA DiesBlamed ==
    ASSUME Dies, unchecked'
    PROVE  Blamed'
BY DEF Blamed

LEMMA LinkBlamed ==
    ASSUME CatalogInv, Blamed, NEW set, NEW n, NEW v, NEW entry, NEW below, NEW belowEntry,
           LinkArgs(set, n, v, entry, below, belowEntry),
           link(set, n, v, entry, below, belowEntry),
           unchecked => unchecked', entry.name = NULL => unchecked',
           no_buckets' # {} => unchecked', died' = died
    PROVE  Blamed'
<1>1. /\ \A x \in Ids : x # v /\ x # below => ent'[x] = ent[x]
      /\ ent'[v].name = entry.name /\ ent'[below].name = belowEntry.name
  BY LinkEffect
<1>2. belowEntry.name = NULL => unchecked
  <2>1. CASE data[set][n] = NULL
    <3>1. belowEntry.name = n /\ n # NULL
      BY <2>1, Typed, EntryFields, CatalogAssumption DEF LinkArgs, Names
    <3> QED
      BY <3>1
  <2>2. CASE data[set][n] # NULL
    <3>1. below \in Used /\ belowEntry = ent[below]
      BY <2>2 DEF LinkArgs, CatalogInv, HeadsUsed
    <3> QED
      BY <3>1 DEF Blamed
  <2> QED
    BY <2>1, <2>2
<1>3. ASSUME NEW i \in Ids, ent'[i] # NoEntry, ent'[i].name = NULL PROVE unchecked'
  <2>1. CASE i = v \/ i = below
    BY <1>1, <1>2, <1>3, <2>1
  <2>2. CASE i # v /\ i # below
    <3>1. i \in Used /\ ent[i].name = NULL
      BY <1>1, <1>3, <2>2 DEF Used, Unused
    <3> QED
      BY <3>1 DEF Blamed
  <2> QED
    BY <2>1, <2>2
<1>4. \A i \in Used' : ent'[i].name = NULL => unchecked'
  BY <1>3 DEF Used, Unused
<1>5. died' => unchecked'
  BY DEF Blamed
<1> QED
  BY <1>4, <1>5 DEF Blamed

LEMMA CreateBlamed ==
    ASSUME CatalogInv, Blamed, NEW set, NEW type, NEW n, Place(set, type, n),
           NEW lost, Create(set, type, n, lost)
    PROVE  Blamed' \/ UNCHANGED vars
<1>1. CASE Dies /\ ~Usable(set) /\ UNCHANGED unchecked
  <2>1. unchecked'
    BY <1>1 DEF Usable, Blamed
  <2> QED
    BY <1>1, <2>1, DiesBlamed
<1>2. CASE Dies /\ unchecked' = TRUE
  BY <1>2, DiesBlamed
<1>3. CASE /\ catalogSet_create_entry(set, n, Entry(type, n))
           /\ no_buckets' = no_buckets \cup ({Fresh} \X lost)
           /\ unchecked' = (unchecked \/ lost # {})
           /\ UNCHANGED <<alive, died>>
  <2>1. PICK v, below, belowEntry :
          /\ LinkArgs(set, n, v, Entry(type, n), below, belowEntry)
          /\ link(set, n, v, Entry(type, n), below, belowEntry)
    BY <1>3, CreateEntryLinks
  <2>2. Entry(type, n).name # NULL
    BY PlaceFacts, EntryFields, CatalogAssumption DEF Names
  <2>3. unchecked => unchecked'
    BY <1>3
  <2>4. no_buckets' # {} => unchecked'
    <3>1. lost = {} => {Fresh} \X lost = {}
      OBVIOUS
    <3>2. lost = {} => no_buckets' = no_buckets
      BY <1>3, <3>1
    <3> QED
      BY <1>3, <3>2 DEF Blamed
  <2>5. died' = died
    BY <1>3
  <2> QED
    BY <2>1, <2>2, <2>3, <2>4, <2>5, LinkBlamed
<1> QED
  BY <1>1, <1>2, <1>3 DEF Create

LEMMA DropBlamed ==
    ASSUME CatalogInv, Blamed, NEW set, NEW type, NEW n, Place(set, type, n),
           catalogSet_drop_entry(set, n)
    PROVE  Blamed' \/ UNCHANGED vars
<1>1. CASE Dies /\ ~Usable(set) /\ UNCHANGED unchecked
  <2>1. unchecked'
    BY <1>1 DEF Usable, Blamed
  <2> QED
    BY <1>1, <2>1, DiesBlamed
<1>2. CASE data[set][n] # NULL /\ drop_entry_impl(set, n)
  <2> DEFINE top == data[set][n]
  <2>1. /\ set \in Sets /\ n \in Names /\ top \in Used
        /\ ent[top].name \in {n, NULL} /\ NULL \in {n, NULL}
        /\ n \in Names \cup {NULL} /\ ent[top].name \in Names \cup {NULL}
    BY <1>2, PlaceFacts, ChainNamed DEF Named
  <2>2. CASE ent[top].name = NULL /\ Dies /\ UNCHANGED unchecked
    <3>1. unchecked'
      BY <2>1, <2>2 DEF Blamed
    <3> QED
      BY <2>2, <3>1, DiesBlamed
  <2>3. CASE /\ ent[top].name # NULL /\ Memory(1)
             /\ link(set, n, Fresh, Tombstone(ent[top].name), top, ent[top])
             /\ UNCHANGED unchecked /\ UNCHANGED <<alive, no_buckets, died>>
    <3>1. LinkArgs(set, n, Fresh, Tombstone(ent[top].name), top, ent[top])
      BY <1>2, <2>1, <2>3, DropLinks
    <3>2. Tombstone(ent[top].name).name # NULL
      BY <2>1, <2>3, EntryFields
    <3>3. no_buckets' # {} => unchecked'
      BY <2>3 DEF Blamed
    <3> QED
      BY <2>3, <3>1, <3>2, <3>3, LinkBlamed
  <2>4. CASE /\ Memory(1)
             /\ link(set, n, Fresh, Tombstone(NULL), top, ent[top])
             /\ unchecked' = TRUE /\ UNCHANGED <<alive, no_buckets, died>>
    <3>1. LinkArgs(set, n, Fresh, Tombstone(NULL), top, ent[top])
      BY <1>2, <2>1, <2>4, DropLinks
    <3> QED
      BY <2>4, <3>1, LinkBlamed
  <2> QED
    BY <1>2, <2>2, <2>3, <2>4, Zenon DEF drop_entry_impl
<1> QED
  BY <1>1, <1>2 DEF catalogSet_drop_entry

LEMMA StutterBlamed == Blamed /\ UNCHANGED vars => Blamed'
BY DEF Blamed, vars, Used, Unused

LEMMA BlamedStep ==
    ASSUME CatalogInv, Blamed, [Next]_vars
    PROVE  Blamed'
<1>1. CASE UNCHANGED vars
  BY <1>1, StutterBlamed
<1>2. CASE catalog_create
  <2>1. PICK lost \in Lost({"data"}) :
          no_buckets' = {0} \X lost /\ unchecked' = (lost # {}) /\ died' = FALSE
    BY <1>2, Zenon DEF catalog_create
  <2>2. no_buckets' # {} => unchecked'
    BY <2>1
  <2>3. Used' = {}
    BY <1>2 DEF catalog_create, CatalogInv, Nothing, Used, Unused
  <2> QED
    BY <2>1, <2>2, <2>3 DEF Blamed
<1>3. CASE catalog_destroy
  <2>1. CASE Dies /\ no_buckets # {} /\ UNCHANGED unchecked
    <3>1. unchecked'
      BY <2>1 DEF Blamed
    <3> QED
      BY <2>1, <3>1, DiesBlamed
  <2>2. CASE no_buckets' = {} /\ died' = died /\ unchecked' = unchecked
    <3>1. ent' = [i \in Ids |-> NoEntry]
      BY <1>3, DestroyEmpties, Zenon DEF Empty
    <3>2. Used' = {}
      BY <3>1 DEF Used, Unused
    <3> QED
      BY <2>2, <3>2 DEF Blamed
  <2> QED
    BY <1>3, <2>1, <2>2, Zenon DEF catalog_destroy
<1>8. ASSUME NEW set, ~Usable(set), Dies, UNCHANGED unchecked PROVE Blamed'
  <2>1. unchecked'
    BY <1>8 DEF Usable, Blamed
  <2> QED
    BY <1>8, <2>1, DiesBlamed
<1>10. ASSUME no_schemas PROVE Blamed'
  BY <1>8, <1>10 DEF no_schemas
<1>4. ASSUME NEW s \in SchemaNames, catalog_create_schema(s) PROVE Blamed'
  <2>1. PICK lost : Create(0, "SCHEMA", s, lost)
    BY <1>4 DEF catalog_create_schema
  <2>2. Place(0, "SCHEMA", s)
    BY <1>4 DEF Place
  <2> QED
    BY <1>1, <2>1, <2>2, CreateBlamed
<1>5. ASSUME NEW s \in SchemaNames, catalog_drop_schema(s) PROVE Blamed'
  <2>1. Place(0, "SCHEMA", s) /\ catalogSet_drop_entry(0, s)
    BY <1>5 DEF Place, catalog_drop_schema
  <2> QED
    BY <1>1, <2>1, DropBlamed
<1>6. ASSUME NEW s \in SchemaNames, NEW t \in TableNames, catalog_create_table(s, t)
      PROVE  Blamed'
  <2>1. CASE no_schemas
    BY <1>10, <2>1
  <2>2. CASE catalog_get_schema(s) # NULL /\ Create(catalog_get_schema(s), "TABLE", t, {})
    <3>1. PICK set : set = catalog_get_schema(s)
      OBVIOUS
    <3>2. Place(set, "TABLE", t) /\ Create(set, "TABLE", t, {})
      BY <2>2, <3>1, SchemaPlace
    <3> QED
      BY <1>1, <3>2, CreateBlamed
  <2> QED
    BY <1>6, <2>1, <2>2 DEF catalog_create_table
<1>7. ASSUME NEW s \in SchemaNames, NEW t \in TableNames, drop_table(s, t)
      PROVE  Blamed'
  <2>1. CASE no_schemas
    BY <1>10, <2>1
  <2>2. CASE catalog_get_schema(s) # NULL /\ catalogSet_drop_entry(catalog_get_schema(s), t)
    <3>1. PICK set : set = catalog_get_schema(s)
      OBVIOUS
    <3>2. Place(set, "TABLE", t) /\ catalogSet_drop_entry(set, t)
      BY <2>2, <3>1, SchemaPlace
    <3> QED
      BY <1>1, <3>2, DropBlamed
  <2> QED
    BY <1>7, <2>1, <2>2 DEF drop_table
<1>9. ASSUME NEW s \in SchemaNames, catalog_get_table(s) PROVE Blamed'
  BY <1>1, <1>8, <1>9, <1>10 DEF catalog_get_table
<1> QED
  BY <1>1, <1>2, <1>3, <1>4, <1>5, <1>6, <1>7, <1>9 DEF Next

(* NULL is dereferenced in catalog.c only after the strdup at line 197 or a *)
(* calloc of hmap_init has failed: every other failed allocation, and every *)
(* order of calls, is survived.                                            *)
THEOREM DeathIsUnchecked == Spec => []DiesOfUncheckedOnly
<1>1. Init => Blamed
  BY InitEmpty DEF Init, Blamed, Used, Unused
<1>2. CatalogInv /\ Blamed /\ [Next]_vars => Blamed'
  BY BlamedStep
<1>3. Blamed => DiesOfUncheckedOnly
  BY DEF Blamed, DiesOfUncheckedOnly
<1> QED
  BY <1>1, <1>2, <1>3, CatalogInvariant, PTL DEF Spec

(***************************************************************************)
(* The refinement of CatalogDirectory                                      *)
(***************************************************************************)

(* The directory that the callers see.                                     *)
Dir == [s \in SchemaNames |->
          IF catalog_get_schema(s) = NULL THEN Gone ELSE Tables(catalog_get_schema(s))]

(* Linking an entry in changes what is found under its own name only.      *)
LEMMA LinkVisible ==
    ASSUME CatalogInv, NEW set, NEW n, NEW v, NEW entry, NEW below, NEW belowEntry,
           LinkArgs(set, n, v, entry, below, belowEntry),
           link(set, n, v, entry, below, belowEntry)
    PROVE  /\ Visible(set, n)' = IF entry.deleted THEN NULL ELSE v
           /\ \A q \in Sets, m \in Names : q # set \/ m # n => Visible(q, m)' = Visible(q, m)
           /\ \A m \in Names : Visible(v, m)' = NULL
           /\ v \in Ids /\ v # NULL
<1>1. /\ \A x \in Ids : x # v /\ x # below => ent'[x] = ent[x]
      /\ ent'[v].deleted = entry.deleted /\ ent'[below].deleted = belowEntry.deleted
      /\ \A q \in Sets, m \in Names :
           data'[q][m] = IF q = set /\ m = n THEN v ELSE data[q][m]
      /\ data'[v] = EmptySet
  BY LinkEffect
<1>2. v \in Ids /\ v # NULL /\ v \in Unused /\ set \in Sets /\ n \in Names
  BY Typed DEF LinkArgs, Unused
<1>3. Visible(set, n)' = IF entry.deleted THEN NULL ELSE v
  <2>1. data'[set][n] = v
    BY <1>1, <1>2
  <2> QED
    BY <1>1, <1>2, <2>1 DEF Visible
<1>4. ASSUME NEW q \in Sets, NEW m \in Names, q # set \/ m # n
      PROVE  Visible(q, m)' = Visible(q, m)
  <2> DEFINE h == data[q][m]
  <2>1. data'[q][m] = h
    BY <1>1, <1>4
  <2>2. ASSUME h # NULL PROVE ent'[h].deleted = ent[h].deleted
    <3>1. h \in Used /\ h \in Ids /\ h # v
      BY <1>2, <2>2 DEF CatalogInv, HeadsUsed, Used
    <3>2. h = below => belowEntry = ent[below]
      BY <3>1 DEF LinkArgs, Used
    <3> QED
      BY <1>1, <3>1, <3>2
  <2> QED
    BY <2>1, <2>2 DEF Visible
<1>5. \A m \in Names : Visible(v, m)' = NULL
  BY <1>1 DEF Visible, EmptySet
<1> QED
  BY <1>2, <1>3, <1>4, <1>5

(* Two schemas have different tables.                                      *)
LEMMA SchemasDiffer ==
    ASSUME CatalogInv, NEW s1 \in SchemaNames, NEW s2 \in SchemaNames, s1 # s2,
           catalog_get_schema(s1) # NULL, catalog_get_schema(s2) # NULL
    PROVE  catalog_get_schema(s1) # catalog_get_schema(s2)
BY SchemaPlace

LEMMA DirOfSchema ==
    ASSUME NEW s \in SchemaNames
    PROVE  /\ catalog_get_schema(s) = NULL => Dir[s] = Gone
           /\ catalog_get_schema(s) # NULL =>
                Dir[s] = Tables(catalog_get_schema(s)) /\ Dir[s] # Gone
<1>1. \A i : Tables(i) \in SUBSET TableNames
  BY DEF Tables
<1>2. \A i : Tables(i) # Gone
  BY <1>1, CatalogAssumption
<1> QED
  BY <1>2 DEF Dir

LEMMA DirAfter ==
    \A s \in SchemaNames :
      Dir'[s] = IF catalog_get_schema(s)' = NULL THEN Gone ELSE Tables(catalog_get_schema(s))'
BY DEF Dir

(* A schema is created or dropped.                                         *)
LEMMA SchemaLinked ==
    ASSUME CatalogInv, NEW s \in SchemaNames, NEW v, NEW entry, NEW below, NEW belowEntry,
           LinkArgs(0, s, v, entry, below, belowEntry),
           link(0, s, v, entry, below, belowEntry)
    PROVE  Dir' = [Dir EXCEPT ![s] = IF entry.deleted THEN Gone ELSE {}]
<1>1. /\ Visible(0, s)' = IF entry.deleted THEN NULL ELSE v
      /\ \A q \in Sets, m \in Names : q # 0 \/ m # s => Visible(q, m)' = Visible(q, m)
      /\ \A m \in Names : Visible(v, m)' = NULL
      /\ v \in Ids /\ v # NULL
  BY LinkVisible
<1>2. /\ SchemaNames \subseteq Names /\ TableNames \subseteq Names
      /\ 0 \in Sets /\ Ids \subseteq Sets /\ NULL \notin Ids
  BY Typed DEF Names
<1>3. Dir'[s] = IF entry.deleted THEN Gone ELSE {}
  <2>1. catalog_get_schema(s)' = IF entry.deleted THEN NULL ELSE v
    BY <1>1 DEF catalog_get_schema
  <2>2. ~entry.deleted => Tables(catalog_get_schema(s))' = {}
    <3>1. ASSUME ~entry.deleted PROVE Tables(catalog_get_schema(s))' = {}
      <4>1. Tables(catalog_get_schema(s))' = {t \in TableNames : Visible(catalog_get_schema(s), t)' # NULL}
        BY DEF Tables
      <4>2. \A t \in TableNames : Visible(catalog_get_schema(s), t)' = Visible(v, t)'
        BY <2>1, <3>1 DEF Visible
      <4> QED
        BY <1>1, <1>2, <4>1, <4>2
    <3> QED
      BY <3>1
  <2> QED
    BY <1>1, <2>1, <2>2, DirAfter
<1>4. ASSUME NEW r \in SchemaNames, r # s PROVE Dir'[r] = Dir[r]
  <2>1. catalog_get_schema(r)' = catalog_get_schema(r)
    BY <1>1, <1>2, <1>4 DEF catalog_get_schema
  <2>2. CASE catalog_get_schema(r) = NULL
    BY <2>1, <2>2, DirAfter, DirOfSchema
  <2>3. CASE catalog_get_schema(r) # NULL
    <3> DEFINE x == catalog_get_schema(r)
    <3>1. x \in Ids /\ x \in Sets /\ x # 0
      BY <1>2, <2>3, SchemaPlace DEF NULL
    <3>2. \A t \in TableNames : Visible(catalog_get_schema(r), t)' = Visible(x, t)
      <4>1. \A t \in TableNames : Visible(catalog_get_schema(r), t)'
                = IF data'[catalog_get_schema(r)'][t] = NULL \/ ent'[data'[catalog_get_schema(r)'][t]].deleted
                  THEN NULL ELSE data'[catalog_get_schema(r)'][t]
        BY DEF Visible
      <4>2. \A t \in TableNames : Visible(x, t) = IF data'[x][t] = NULL \/ ent'[data'[x][t]].deleted
                                                  THEN NULL ELSE data'[x][t]
        <5>1. \A q \in Sets, m \in Names : q # 0 \/ m # s =>
                Visible(q, m) = IF data'[q][m] = NULL \/ ent'[data'[q][m]].deleted
                                THEN NULL ELSE data'[q][m]
          BY <1>1 DEF Visible
        <5> HIDE DEF x
        <5> QED
          BY <1>2, <3>1, <5>1
      <4> QED
        BY <2>1, <4>1, <4>2
    <3>3. Tables(catalog_get_schema(r))' = Tables(catalog_get_schema(r))
      BY <3>2 DEF Tables
    <3> QED
      BY <2>1, <2>3, <3>3, DirAfter, DirOfSchema
  <2> QED
    BY <2>2, <2>3
<1>5. Dir' = [r \in SchemaNames |-> Dir'[r]] /\ Dir = [r \in SchemaNames |-> Dir[r]]
  BY DEF Dir
<1> QED
  BY <1>3, <1>4, <1>5

(* A table is created or dropped.                                          *)
LEMMA TableLinked ==
    ASSUME CatalogInv, NEW s \in SchemaNames, NEW t \in TableNames,
           catalog_get_schema(s) # NULL, NEW v, NEW entry, NEW below, NEW belowEntry,
           LinkArgs(catalog_get_schema(s), t, v, entry, below, belowEntry),
           link(catalog_get_schema(s), t, v, entry, below, belowEntry)
    PROVE  Dir' = [Dir EXCEPT ![s] = IF entry.deleted THEN Dir[s] \ {t} ELSE Dir[s] \cup {t}]
<1> DEFINE x == catalog_get_schema(s)
<1>1. /\ Visible(x, t)' = IF entry.deleted THEN NULL ELSE v
      /\ \A q \in Sets, m \in Names : q # x \/ m # t => Visible(q, m)' = Visible(q, m)
      /\ v \in Ids /\ v # NULL
  <2>1. PICK set : set = x
    OBVIOUS
  <2>2. /\ Visible(set, t)' = IF entry.deleted THEN NULL ELSE v
        /\ \A q \in Sets, m \in Names : q # set \/ m # t => Visible(q, m)' = Visible(q, m)
        /\ v \in Ids /\ v # NULL
    BY <2>1, LinkVisible
  <2>3. x' = x
    <3>1. s \in Names /\ 0 \in Sets /\ x # 0
      BY Typed, SchemaPlace DEF Names, NULL
    <3> QED
      BY <2>1, <2>2, <3>1 DEF catalog_get_schema
  <2>4. Visible(x, t)' = Visible(set, t)'
    BY <2>1, <2>3 DEF Visible
  <2> QED
    BY <2>1, <2>2, <2>4
<1>2. /\ SchemaNames \subseteq Names /\ TableNames \subseteq Names
      /\ 0 \in Sets /\ Ids \subseteq Sets /\ NULL \notin Ids /\ x \in Ids /\ x # 0
  BY Typed, SchemaPlace DEF Names, NULL
<1>3. \A r \in SchemaNames : catalog_get_schema(r)' = catalog_get_schema(r)
  BY <1>1, <1>2 DEF catalog_get_schema
<1>4. ASSUME NEW r \in SchemaNames, catalog_get_schema(r) # NULL, NEW u \in TableNames
      PROVE  Visible(catalog_get_schema(r), u)' =
               IF r = s /\ u = t THEN IF entry.deleted THEN NULL ELSE v
               ELSE Visible(catalog_get_schema(r), u)
  <2>1. CASE r = s /\ u = t
    BY <1>1, <2>1
  <2>2. CASE r # s \/ u # t
    <3>1. PICK q \in Sets : q = catalog_get_schema(r)
      BY <1>2, <1>4, SchemaPlace
    <3>2. q # x \/ u # t
      BY <1>4, <2>2, <3>1, SchemasDiffer
    <3>3. Visible(q, u)' = Visible(q, u)
      BY <1>1, <1>2, <3>2
    <3>4. Visible(catalog_get_schema(r), u)' = Visible(q, u)'
      BY <1>3, <3>1 DEF Visible
    <3>5. Visible(catalog_get_schema(r), u) = Visible(q, u)
      BY <3>1
    <3> QED
      BY <2>2, <3>3, <3>4, <3>5
  <2> QED
    BY <2>1, <2>2
<1>5. ASSUME NEW r \in SchemaNames
      PROVE  Dir'[r] = IF r = s THEN IF entry.deleted THEN Dir[s] \ {t} ELSE Dir[s] \cup {t}
                       ELSE Dir[r]
  <2>1. CASE catalog_get_schema(r) = NULL
    BY <1>3, <2>1, DirAfter, DirOfSchema
  <2>2. CASE catalog_get_schema(r) # NULL
    <3>1. Tables(catalog_get_schema(r))' = {u \in TableNames : Visible(catalog_get_schema(r), u)' # NULL}
      BY DEF Tables
    <3>2. Tables(catalog_get_schema(r)) = {u \in TableNames : Visible(catalog_get_schema(r), u) # NULL}
      BY DEF Tables
    <3>3. Tables(catalog_get_schema(r))' =
             IF r = s THEN IF entry.deleted THEN Tables(catalog_get_schema(r)) \ {t}
                           ELSE Tables(catalog_get_schema(r)) \cup {t}
             ELSE Tables(catalog_get_schema(r))
      BY <1>1, <1>4, <2>2, <3>1, <3>2
    <3> QED
      BY <1>3, <2>2, <3>3, DirAfter, DirOfSchema
  <2> QED
    BY <2>1, <2>2
<1>6. Dir' = [r \in SchemaNames |-> Dir'[r]] /\ Dir = [r \in SchemaNames |-> Dir[r]]
  BY DEF Dir
<1> QED
  BY <1>5, <1>6

LEMMA EmptyDir == Empty => Dir = [s \in SchemaNames |-> Gone]
<1>1. ASSUME Empty, NEW s \in SchemaNames PROVE catalog_get_schema(s) = NULL
  BY <1>1 DEF Empty, EmptySet, catalog_get_schema, Visible, Names, Sets
<1> QED
  BY <1>1 DEF Dir

LEMMA EmptyDirAfter == Empty' => Dir' = [s \in SchemaNames |-> Gone]
<1>1. ASSUME Empty', NEW s \in SchemaNames PROVE catalog_get_schema(s)' = NULL
  BY <1>1 DEF Empty, EmptySet, catalog_get_schema, Visible, Names, Sets
<1> QED
  BY <1>1 DEF Dir

(* A step of the catalog is a step of the directory, or none.              *)
LEMMA DirectoryStep ==
    ASSUME CatalogInv, [Next]_vars
    PROVE  Directory!Next \/ Dir' = Dir
<1>1. CASE UNCHANGED vars
  BY <1>1 DEF vars, Dir, catalog_get_schema, Tables, Visible
<1>2. CASE Empty'
  BY <1>2, EmptyDirAfter DEF Directory!Next, Directory!Clear, Dir
<1>3. ASSUME NEW s \in SchemaNames, SchemaStep(s) PROVE Directory!Next \/ Dir' = Dir
  <2>1. CASE Created(0, "SCHEMA", s)
    <3>1. s \in Names /\ ~Entry("SCHEMA", s).deleted
      BY EntryFields DEF Names
    <3>2. Dir' = [Dir EXCEPT ![s] = {}]
      BY <2>1, <3>1, SchemaLinked DEF Created
    <3>3. Dir[s] = Gone
      BY <2>1, DirOfSchema DEF Created, catalog_get_schema
    <3>4. Directory!CreateSchema(s)
      BY <3>2, <3>3 DEF Directory!CreateSchema, Dir
    <3> QED
      BY <3>4 DEF Directory!Next
  <2>2. CASE s # DEFAULT_SCHEMA /\ Dropped(0, s)
    <3>1. s \in Names /\ \A name \in {s, NULL} : Tombstone(name).deleted
      BY EntryFields DEF Names
    <3>2. Dir' = [Dir EXCEPT ![s] = Gone]
      BY <2>2, <3>1, SchemaLinked DEF Dropped
    <3>3. CASE Dir[s] = Gone
      BY <3>2, <3>3 DEF Dir
    <3>4. CASE Dir[s] # Gone
      <4>1. Directory!DropSchema(s)
        BY <2>2, <3>2, <3>4 DEF Directory!DropSchema, Dir
      <4> QED
        BY <4>1 DEF Directory!Next
    <3> QED
      BY <3>3, <3>4
  <2> QED
    BY <1>3, <2>1, <2>2 DEF SchemaStep
<1>4. ASSUME NEW s \in SchemaNames, NEW t \in TableNames, TableStep(s, t)
      PROVE  Directory!Next \/ Dir' = Dir
  <2>1. catalog_get_schema(s) # NULL /\ Dir[s] # Gone /\ Dir[s] = Tables(catalog_get_schema(s))
    BY <1>4, DirOfSchema DEF TableStep
  <2>2. CASE Created(catalog_get_schema(s), "TABLE", t)
    <3>1. t \in Names /\ ~Entry("TABLE", t).deleted
      BY EntryFields DEF Names
    <3>2. Dir' = [Dir EXCEPT ![s] = Dir[s] \cup {t}]
      BY <2>1, <2>2, <3>1, TableLinked DEF Created
    <3>3. t \notin Dir[s]
      BY <2>1, <2>2 DEF Created, Tables
    <3>4. Directory!CreateTable(s, t)
      BY <2>1, <3>2, <3>3 DEF Directory!CreateTable, Dir
    <3> QED
      BY <3>4 DEF Directory!Next
  <2>3. CASE Dropped(catalog_get_schema(s), t)
    <3>1. t \in Names /\ \A name \in {t, NULL} : Tombstone(name).deleted
      BY EntryFields DEF Names
    <3>2. Dir' = [Dir EXCEPT ![s] = Dir[s] \ {t}]
      BY <2>1, <2>3, <3>1, TableLinked DEF Dropped
    <3>3. CASE t \notin Dir[s]
      <4>1. Dir[s] \ {t} = Dir[s]
        BY <3>3
      <4> QED
        BY <3>2, <4>1 DEF Dir
    <3>4. CASE t \in Dir[s]
      <4>1. Directory!DropTable(s, t)
        BY <2>1, <3>2, <3>4 DEF Directory!DropTable, Dir
      <4> QED
        BY <4>1 DEF Directory!Next
    <3> QED
      BY <3>3, <3>4
  <2> QED
    BY <1>4, <2>2, <2>3 DEF TableStep
<1> QED
  BY <1>1, <1>2, <1>3, <1>4, StepKinds DEF Ends

(* Through catalog_get_schema and catalog_get_table the version chains are *)
(* a plain directory: a schema that is created is empty, whatever its name *)
(* stood for before, and a call changes its own schema or table only.  A   *)
(* process that dies of an unchecked allocation empties the directory, as  *)
(* catalog_destroy does.                                                   *)
THEOREM CatalogIsDirectory == Spec => ImplementsDirectory
<1>1. Init => Directory!Init
  <2>1. Init => Empty
    BY InitEmpty
  <2> QED
    BY <2>1, EmptyDir DEF Directory!Init, Dir
<1>2. CatalogInv /\ [Next]_vars => [Directory!Next]_Dir
  BY DirectoryStep
<1>3. Spec => [][Directory!Next]_Dir
  BY <1>2, CatalogInvariant, PTL DEF Spec
<1>4. Spec => Directory!Init
  BY <1>1 DEF Spec
<1> QED
  BY <1>3, <1>4, PTL DEF ImplementsDirectory, Directory!Spec, Dir
=============================================================================
