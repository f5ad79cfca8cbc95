-------------------------------- MODULE Hmap --------------------------------
(***************************************************************************)
(* The chained hash map of libv (libv/src/hash.c), on which the catalog and *)
(* the network server rest.  A bucket is the chain of nodes that its next   *)
(* pointers spell out.  Every call runs in one step: a map belongs to one   *)
(* thread.  calloc in hmap_grow and malloc in hmap_alloc_node may fail.     *)
(*                                                                         *)
(* The hash function is any function: `hash' is picked once and for all.    *)
(* hmap_get, hmap_get_value and hmap_contains walk a chain and change       *)
(* nothing; Lookup is that walk.                                           *)
(***************************************************************************)
EXTENDS Integers, Sequences, FiniteSets, FiniteSetsExt, SequencesExt

CONSTANTS
    Keys, Values,
    Hashes,          \* the values hash_func may return
    Nodes,           \* bound: the addresses malloc may return
    InitBuckets,     \* nbuckets of hmap_init
    MaxBuckets       \* bound: beyond it calloc finds no memory

ASSUME HmapAssumption ==
    /\ Hashes \subseteq Nat /\ Nodes \subseteq Nat \ {0}
    /\ InitBuckets \in Nat \ {0} /\ MaxBuckets \in Nat

CONSTANT Absent
ASSUME AbsentAssumption == Absent \notin Values

NULL == 0

VARIABLES
    hash,            \* hash_func
    buckets, nbuckets, len,
    node,            \* what malloc has handed out: the key and value of each node
    iter,            \* hmap_iterator
    seen,            \* the keys the iterator has shown
    walk             \* "none", "on", or "over" once hmap_iter_next returned false

table == <<buckets, nbuckets, len, node>>
cursor == <<iter, seen, walk>>
vars  == <<hash, table, cursor>>

Free == [key |-> Absent, value |-> Absent]

Allocated == {n \in Nodes : node[n] # Free}

(* The places of the chain where key_compare finds the key.                *)
Hits(chain, k) == {p \in DOMAIN chain : node[chain[p]].key = k}

(* The first node of the chain that has the key, NULL if there is none.    *)
FindIn(chain, k) == IF Hits(chain, k) = {} THEN NULL ELSE chain[Min(Hits(chain, k))]

Lookup(k) ==
    IF nbuckets = 0 THEN NULL ELSE FindIn(buckets[hash[k] % nbuckets], k)

(* Iterators do not survive a change of the map.                           *)
EndWalk == iter' = [bucket_idx |-> 0, node |-> NULL] /\ seen' = <<>> /\ walk' = "none"

hmap_init ==
    /\ nbuckets = 0
    /\ nbuckets' = InitBuckets
    /\ buckets' = [i \in 0 .. InitBuckets - 1 |-> <<>>]
    /\ len' = 0
    /\ UNCHANGED <<hash, node>> /\ EndWalk

hmap_deinit ==
    /\ nbuckets > 0
    /\ node' = [n \in Nodes |->
                  IF \E i \in DOMAIN buckets : n \in ToSet(buckets[i]) THEN Free ELSE node[n]]
    /\ buckets' = [i \in {} |-> <<>>]
    /\ nbuckets' = 0 /\ len' = 0
    /\ UNCHANGED hash /\ EndWalk

(* Node x in front of the chain of bucket i.                               *)
InFront(b, i, x) == [j \in DOMAIN b |-> IF j = i THEN <<x>> \o b[j] ELSE b[j]]

(* Mutant: a node keeps the index it had among the old buckets.            *)
relink_index(b, chain, n) ==
    LET moved[j \in 0 .. Len(chain)] ==
          IF j = 0 THEN b
          ELSE InFront(moved[j - 1], hash[node[chain[j]].key] % nbuckets, chain[j])
    IN  moved[Len(chain)]

(* The inner loop of hmap_grow: the nodes of an old chain, from its head on,
   are each put in front of their new bucket.                              *)
relink(b, chain, n) ==
    LET moved[j \in 0 .. Len(chain)] ==
          IF j = 0 THEN b
          ELSE InFront(moved[j - 1], hash[node[chain[j]].key] % n, chain[j])
    IN  moved[Len(chain)]

hmap_grow(n) ==
    LET grown[i \in 0 .. nbuckets] ==
          IF i = 0 THEN [j \in 0 .. n - 1 |-> <<>>]
          ELSE relink(grown[i - 1], buckets[i - 1], n)
    IN  grown[nbuckets]

GrowDue == len >= nbuckets - (nbuckets \div 4)

(* Mutant: an existing key gets a new node in front of its old one.        *)
store_duplicate(b, i, k, v) ==
    \E n \in Nodes :
      /\ n \notin Allocated
      /\ node' = [node EXCEPT ![n] = [key |-> k, value |-> v]]
      /\ buckets' = InFront(b, i, n)
      /\ len' = len + 1

(* Mutant: an existing key gets a new node in place of its old one.        *)
store_replace(b, i, k, v) ==
    LET x == FindIn(b[i], k) IN
    \E n \in Nodes :
      /\ n \notin Allocated
      /\ node' = [m \in Nodes |-> IF m = n THEN [key |-> k, value |-> v]
                                  ELSE IF m = x THEN Free ELSE node[m]]
      /\ buckets' = [b EXCEPT ![i] =
                    <<n>> \o IF x = NULL THEN @ ELSE RemoveAt(@, Min(Hits(@, k)))]
      /\ len' = IF x = NULL THEN len + 1 ELSE len

(* The rest of hmap_insert, on bucket i of the buckets b.                  *)
store(b, i, k, v) ==
    \/ /\ FindIn(b[i], k) # NULL
       /\ node' = [node EXCEPT ![FindIn(b[i], k)].value = v]
       /\ buckets' = b
       /\ UNCHANGED len
    \/ /\ FindIn(b[i], k) = NULL
       /\ Allocated # Nodes
       /\ LET n == Min(Nodes \ Allocated)
          IN  /\ node' = [node EXCEPT ![n] = [key |-> k, value |-> v]]
              /\ buckets' = InFront(b, i, n)
       /\ len' = len + 1
    \/ /\ FindIn(b[i], k) = NULL          \* hmap_alloc_node: no memory
       /\ buckets' = b
       /\ UNCHANGED <<node, len>>

(* The map grows when it is due, for a key that it already holds too, and
   goes on as it is when calloc finds no memory.                           *)
hmap_insert(k, v) ==
    /\ nbuckets > 0
    /\ \/ /\ UNCHANGED nbuckets
          /\ store(buckets, hash[k] % nbuckets, k, v)
       \/ /\ GrowDue /\ 2 * nbuckets <= MaxBuckets
          /\ nbuckets' = 2 * nbuckets
          /\ store(hmap_grow(2 * nbuckets), hash[k] % (2 * nbuckets), k, v)
    /\ UNCHANGED hash /\ EndWalk

(* A key that is not there leaves the map as it is.                        *)
hmap_delete(k) ==
    /\ Lookup(k) # NULL
    /\ buckets' = [buckets EXCEPT ![hash[k] % nbuckets] = RemoveAt(@, Min(Hits(@, k)))]
    /\ node' = [node EXCEPT ![Lookup(k)] = Free]
    /\ len' = len - 1
    /\ UNCHANGED <<hash, nbuckets>> /\ EndWalk

(***************************************************************************)
(* Iteration: HMAP_FOREACH                                                 *)
(***************************************************************************)

hmap_iter_init ==
    /\ nbuckets > 0 /\ walk = "none"
    /\ iter' = [bucket_idx |-> 0, node |-> NULL]
    /\ seen' = <<>> /\ walk' = "on"
    /\ UNCHANGED <<hash, table>>

(* node->next: NULL at the end of the chain.                               *)
NextInChain(x) ==
    LET i == hash[node[x].key] % nbuckets
        j == SelectInSeq(buckets[i], LAMBDA m : m = x)
    IN  IF j < Len(buckets[i]) THEN buckets[i][j + 1] ELSE NULL

Show(x) == seen' = Append(seen, node[x].key) /\ UNCHANGED walk

FilledFrom(b) == {i \in b .. nbuckets - 1 : buckets[i] # <<>>}

(* Mutant: only the first node of a chain is shown.                        *)
hmap_iter_next_heads ==
    /\ walk = "on"
    /\ \/ /\ FilledFrom(iter.bucket_idx) # {}
          /\ LET i == Min(FilledFrom(iter.bucket_idx))
             IN  iter' = [bucket_idx |-> i + 1, node |-> buckets[i][1]] /\ Show(buckets[i][1])
       \/ /\ FilledFrom(iter.bucket_idx) = {}
          /\ iter' = [bucket_idx |-> nbuckets, node |-> NULL]
          /\ walk' = "over" /\ UNCHANGED seen
    /\ UNCHANGED <<hash, table>>

hmap_iter_next ==
    /\ walk = "on"
    /\ LET next == IF iter.node = NULL THEN NULL ELSE NextInChain(iter.node)
       IN  \/ /\ next # NULL
              /\ iter' = [iter EXCEPT !.node = next]
              /\ Show(next)
           \/ /\ next = NULL /\ FilledFrom(iter.bucket_idx) # {}
              /\ LET i == Min(FilledFrom(iter.bucket_idx))
                 IN  /\ iter' = [bucket_idx |-> i + 1, node |-> buckets[i][1]]
                     /\ Show(buckets[i][1])
           \/ /\ next = NULL /\ FilledFrom(iter.bucket_idx) = {}
              /\ iter' = [bucket_idx |-> nbuckets, node |-> NULL]
              /\ walk' = "over"
              /\ UNCHANGED seen
    /\ UNCHANGED <<hash, table>>

Init ==
    /\ hash \in [Keys -> Hashes]
    /\ buckets = [i \in {} |-> <<>>] /\ nbuckets = 0 /\ len = 0
    /\ node = [n \in Nodes |-> Free]
    /\ iter = [bucket_idx |-> 0, node |-> NULL] /\ seen = <<>> /\ walk = "none"

Next ==
    \/ hmap_init \/ hmap_deinit
    \/ \E k \in Keys, v \in Values : hmap_insert(k, v)
    \/ \E k \in Keys : hmap_delete(k)
    \/ hmap_iter_init \/ hmap_iter_next

Spec == Init /\ [][Next]_vars

(***************************************************************************)
(* Properties                                                              *)
(***************************************************************************)

(* The fields of hmap and hmap_iterator have their types.                  *)
TypeOK ==
    /\ hash \in [Keys -> Hashes]
    /\ nbuckets \in Nat /\ len \in Nat
    /\ buckets \in [0 .. nbuckets - 1 -> Seq(Nodes)]
    /\ node \in [Nodes -> [key : Keys, value : Values] \cup {Free}]
    /\ iter \in [bucket_idx : 0 .. nbuckets, node : Nodes \cup {NULL}]
    /\ walk \in {"none", "on", "over"}

(* Every node that malloc handed out is in the bucket its hash selects, once,
   and in no other, and len counts them: after any sequence of growths and
   deletions nothing is lost, linked twice, or leaked by hmap_deinit.      *)
NodesOwned ==
    /\ TypeOK
    /\ \A i \in DOMAIN buckets : \A p \in DOMAIN buckets[i] :
         LET x == buckets[i][p] IN
         /\ node[x] # Free /\ hash[node[x].key] % nbuckets = i
         /\ \A q \in DOMAIN buckets[i] : buckets[i][q] = x => q = p
    /\ \A x \in Allocated : \E i \in DOMAIN buckets : x \in ToSet(buckets[i])
    /\ len = Cardinality(Allocated)

(* A node that hmap_get or hmap_insert returned for a key stays its node until
   the key is deleted: growth relinks nodes and never moves them.          *)
NodesStay ==
    [][\A k \in Keys :
         Lookup(k) # NULL /\ Lookup(k)' # NULL => Lookup(k)' = Lookup(k)]_vars

(* HMAP_FOREACH over a map that does not change shows every key once.      *)
IterationComplete ==
    walk = "over" =>
      /\ \A p, q \in DOMAIN seen : seen[p] = seen[q] => p = q
      /\ ToSet(seen) = {k \in Keys : Lookup(k) # NULL}

Contents == [k \in Keys |-> IF Lookup(k) = NULL THEN Absent ELSE node[Lookup(k)].value]

Map == INSTANCE FiniteMap WITH map <- Contents

(* What hmap_get finds is a finite map: an insertion changes its own key only,
   a deletion removes its own, and growth changes nothing at all.          *)
ImplementsFiniteMap == Map!Spec
=============================================================================
