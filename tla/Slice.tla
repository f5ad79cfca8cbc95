------------------------------- MODULE Slice -------------------------------
(***************************************************************************)
(* The growing array of libv (libv/src/slice.c), which holds the extent     *)
(* manager's free list and used blocks and the table writer's offsets.      *)
(* `data' is the allocated buffer with its uninitialised places, `at' says  *)
(* where the buffer lies, so that a buffer that moves without need shows.    *)
(* malloc and realloc may fail.  A slice belongs to one thread; a call is   *)
(* one step.                                                               *)
(*                                                                         *)
(* The element that a caller passes lies outside the slice.  slice_get,     *)
(* slice_get_copy, slice_front, slice_back, slice_data and slice_find read  *)
(* the buffer and change nothing.                                          *)
(*                                                                         *)
(* Init, Next and TypeOK carry the module's name: ContainerProofs extends  *)
(* this module and Hmap.                                                   *)
(***************************************************************************)
EXTENDS Integers, Sequences

CONSTANTS
    Items,          \* the elements callers store
    Zero,            \* the element memset(0) makes
    Junk,            \* the contents of memory nobody has written
    Gone,
    SLICE_DEFAULT_CAPACITY,
    SLICE_GROWTH_FACTOR,
    Capacities,      \* arguments of slice_init and slice_reserve
    MaxCapacity      \* bound: beyond it there is no memory

ASSUME SliceAssumption ==
    /\ SLICE_DEFAULT_CAPACITY \in Nat \ {0} /\ SLICE_GROWTH_FACTOR \in Nat \ {0, 1}
    /\ Capacities \subseteq Nat /\ MaxCapacity \in Nat

ASSUME JunkAssumption ==
    /\ Junk \notin Items \cup {Zero}
    /\ Gone \notin Seq(Items \cup {Zero, Junk})

VARIABLES
    data, size, capacity,
    at,              \* which of two places the buffer lies at
    index, loop,     \* SliceIterator; "none", "on", or "over" when next returned false
    shown            \* the elements slice_iter_get returned

buffer     == <<data, size, capacity, at>>
iterator   == <<index, loop, shown>>
slice_vars == <<buffer, iterator>>

Places == 0 .. 1
Elems  == Items \cup {Zero}

NoBuffer == [i \in 0 .. -1 |-> Junk]

(* slice_init has succeeded and slice_deinit was not called.               *)
live == capacity > 0

SliceInit ==
    /\ data = NoBuffer /\ size = 0 /\ capacity = 0 /\ at = 0
    /\ index = -1 /\ loop = "none" /\ shown = <<>>

(* An iteration is followed while elements are only appended.              *)
KeepLoop == IF loop = "on" THEN UNCHANGED iterator ELSE index' = -1 /\ loop' = "none" /\ shown' = <<>>
EndLoop  == index' = -1 /\ loop' = "none" /\ shown' = <<>>

(***************************************************************************)
(* Memory                                                                  *)
(***************************************************************************)

(* slice_init, slice_create; without memory they leave no slice.           *)
slice_init(n) ==
    LET c == IF n = 0 THEN SLICE_DEFAULT_CAPACITY ELSE n
    IN  /\ ~live /\ c <= MaxCapacity
        /\ size' = 0 /\ capacity' = c
        /\ data' = [i \in 0 .. c - 1 |-> Junk]
        /\ at' \in Places
        /\ EndLoop

slice_deinit ==
    /\ live
    /\ data' = NoBuffer /\ size' = 0 /\ capacity' = 0 /\ at' = 0
    /\ EndLoop

(* The buffer as it is.                                                    *)
Same == [ret |-> 0, data |-> data, capacity |-> capacity, at |-> at]

(* The outcomes of realloc(data, n): a buffer of n places at either place
   with the old contents in front, or NULL.                                *)
Realloc(n) ==
    {[Same EXCEPT !.ret = -1]} \cup
    (IF n > MaxCapacity THEN {} ELSE
       {[ret |-> 0, capacity |-> n, at |-> a,
         data |-> [i \in 0 .. n - 1 |-> IF i < capacity THEN data[i] ELSE Junk]] : a \in Places})

NewCapacity == IF capacity > 0 THEN capacity * SLICE_GROWTH_FACTOR ELSE SLICE_DEFAULT_CAPACITY

(* Mutant: the capacity is set before realloc is known to have succeeded.  *)
slice_grow_early == {[b EXCEPT !.capacity = NewCapacity] : b \in Realloc(NewCapacity)}

slice_grow == Realloc(NewCapacity)

(* Mutant: one place is kept free.                                         *)
Room_spare == IF size + 1 >= capacity THEN slice_grow ELSE {Same}

(* A buffer with a place for one more element.                             *)
Room == IF size >= capacity THEN slice_grow ELSE {Same}

Install(b) == capacity' = b.capacity /\ at' = b.at

slice_reserve(n) ==
    /\ live
    /\ \E b \in (IF n <= capacity THEN {Same} ELSE Realloc(n)) : Install(b) /\ data' = b.data
    /\ UNCHANGED size
    /\ KeepLoop

(***************************************************************************)
(* Elements                                                                *)
(***************************************************************************)

slice_push_back(v) ==
    /\ live
    /\ \E b \in Room :
         /\ Install(b)
         /\ data' = IF b.ret = 0 THEN [b.data EXCEPT ![size] = v] ELSE b.data
         /\ size' = IF b.ret = 0 THEN size + 1 ELSE size
    /\ KeepLoop

(* Mutant: one element too few is moved.                                   *)
Shifted_short(d, i, v) ==
    [j \in DOMAIN d |-> IF j = i THEN v ELSE IF i < j /\ j < size THEN d[j - 1] ELSE d[j]]

(* memmove of the elements from i on, then memcpy of the new one.          *)
Shifted(d, i, v) ==
    [j \in DOMAIN d |-> IF j = i THEN v ELSE IF i < j /\ j <= size THEN d[j - 1] ELSE d[j]]

slice_insert(i, v) ==
    /\ live /\ i <= size
    /\ \E b \in Room :
         /\ Install(b)
         /\ data' = IF b.ret = 0 THEN Shifted(b.data, i, v) ELSE b.data
         /\ size' = IF b.ret = 0 THEN size + 1 ELSE size
    /\ EndLoop

slice_erase(i) ==
    /\ live /\ i < size
    /\ data' = [j \in DOMAIN data |-> IF i <= j /\ j < size - 1 THEN data[j + 1] ELSE data[j]]
    /\ size' = size - 1
    /\ EndLoop
    /\ UNCHANGED <<capacity, at>>

slice_pop_back ==
    /\ live /\ size > 0
    /\ size' = size - 1
    /\ EndLoop
    /\ UNCHANGED <<data, capacity, at>>

slice_set(i, v) ==
    /\ live /\ i < size
    /\ data' = [data EXCEPT ![i] = v]
    /\ EndLoop
    /\ UNCHANGED <<size, capacity, at>>

slice_clear ==
    /\ live
    /\ size' = 0
    /\ EndLoop
    /\ UNCHANGED <<data, capacity, at>>

(* slice_resize; v is Zero when the default value is NULL.                 *)
slice_resize(n, v) ==
    /\ live
    /\ \E b \in (IF n > capacity THEN Realloc(n) ELSE {Same}) :
         /\ Install(b)
         /\ data' = IF b.ret = 0 THEN [j \in DOMAIN b.data |-> IF size <= j /\ j < n THEN v ELSE b.data[j]]
                            ELSE b.data
         /\ size' = IF b.ret = 0 THEN n ELSE size
    /\ EndLoop

(***************************************************************************)
(* SLICE_FOREACH                                                           *)
(***************************************************************************)

slice_iter_init ==
    /\ live
    /\ index' = -1 /\ loop' = "on" /\ shown' = <<>>
    /\ UNCHANGED buffer

(* Mutant: the loop ends one element early.                                *)
slice_iter_next_early ==
    /\ live /\ loop = "on"
    /\ index' = index + 1
    /\ IF index' + 1 < size THEN loop' = "on" /\ shown' = Append(shown, data[index'])
                            ELSE loop' = "over" /\ UNCHANGED shown
    /\ UNCHANGED buffer

(* slice_iter_next, and slice_iter_get when it returned true.              *)
slice_iter_next ==
    /\ live /\ loop = "on"
    /\ index' = index + 1
    /\ IF index' < size THEN loop' = "on" /\ shown' = Append(shown, data[index'])
                        ELSE loop' = "over" /\ UNCHANGED shown
    /\ UNCHANGED buffer

SliceNext ==
    \/ \E n \in Capacities : slice_init(n) \/ slice_reserve(n)
    \/ slice_deinit
    \/ \E v \in Items : slice_push_back(v)
    \/ \E i \in 0 .. MaxCapacity, v \in Items : slice_insert(i, v) \/ slice_set(i, v)
    \/ \E i \in 0 .. MaxCapacity : slice_erase(i)
    \/ slice_pop_back
    \/ slice_clear
    \/ \E n \in 0 .. MaxCapacity, v \in Elems : slice_resize(n, v)
    \/ slice_iter_init
    \/ slice_iter_next

SliceSpec == SliceInit /\ [][SliceNext]_slice_vars

-----------------------------------------------------------------------------
(***************************************************************************)
(* Properties                                                              *)
(***************************************************************************)

BufferOK ==
    /\ at \in Places
    /\ capacity \in Nat /\ size \in 0 .. capacity
    /\ data \in [0 .. capacity - 1 -> Elems \cup {Junk}]

CursorOK ==
    /\ index \in Nat \cup {-1} /\ loop \in {"none", "on", "over"}
    /\ shown \in Seq(Elems \cup {Junk})

(* The buffer has as many places as `capacity' says, also after a realloc
   that failed, and the elements lie inside it: no memcpy or memmove of
   slice.c leaves the allocated memory.                                    *)
SliceTypeOK == BufferOK /\ CursorOK

(* The elements, as slice_get returns them.                                *)
List == [i \in 1 .. size |-> data[i - 1]]

(* SLICE_FOREACH shows every element once and in order, those appended by
   its body included.                                                      *)
ForeachComplete == loop = "over" => shown = List

(* An operation that changes the number of elements and finds room leaves the
   buffer where it is: what slice_reserve made room for needs no realloc.  *)
ReservedRoomStays ==
    [][live /\ live' /\ size' # size /\ size' <= capacity => UNCHANGED <<at, capacity>>]_slice_vars

Lists == INSTANCE DynamicList WITH list <- IF live THEN List ELSE Gone, MaxLen <- MaxCapacity

(* A slice is a list of values: growing, moving and failing to grow never
   lose, repeat or invent an element, and uninitialised memory is never
   among them.                                                             *)
ImplementsList == Lists!Spec
=============================================================================
