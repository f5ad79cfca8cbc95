------------------------------- MODULE Alloc -------------------------------
(***************************************************************************)
(* The counting allocator (src/utils/alloc.c) under concurrent callers.    *)
(* Every atomic operation of the code is a step of its own; what lies      *)
(* between two of them is private to the thread.  A CAS is the weak one:   *)
(* it may fail although the values agree.                                  *)
(*                                                                         *)
(* Blocks are tokens of the set Ptrs; hdr[p] is the size the AllocHdr in   *)
(* front of block p records.  Callers hand blocks to each other, so any    *)
(* thread may free or reallocate a block that no call is working on, and   *)
(* none is freed twice.  The statistics are 64-bit and do not wrap here.   *)
(* mcalloc is mmalloc of the product; its own overflow test returns before *)
(* anything shared is touched.                                             *)
(***************************************************************************)
EXTENDS Integers, FiniteSets, FiniteSetsExt

CONSTANTS
    Threads, Ptrs,
    Sizes,       \* the sizes callers ask for
    MaxSize,     \* what (usize)-1 - sizeof(AllocHdr) stands for
    Countdowns,  \* the values tests pass to set_mem_fault_countdown
    MaxCalls,    \* bound: allocator calls in a behaviour
    MaxArmings   \* bound: calls that set or clear the countdown

ASSUME AllocAssumption ==
    /\ IsFiniteSet(Ptrs)
    /\ Sizes \subseteq Nat /\ MaxSize \in Nat
    /\ Countdowns \subseteq Nat
    /\ MaxCalls \in Nat /\ MaxArmings \in Nat

CONSTANT NoPtr
ASSUME NoPtrAssumption == NoPtr \notin Ptrs

VARIABLES
    \* global_mem_stats and fault_countdown
    alloc_count, free_count, realloc_count, bytes_live, bytes_peak, countdown,
    hdr,         \* size in the header of each block, NoHdr when it is not allocated
    \* each thread: where it is and its locals
    pc, op, ptr, size, delta, live, seen,
    \* history
    calls, armings,
    max_live,    \* the largest value bytes_live ever had
    armed,       \* the value of the last set_mem_fault_countdown, -1 after clear_mem_fault
    epoch,       \* each thread: how many armings there had been when its call began
    passed,      \* calls begun since the last arming that were allowed to allocate
    strangers    \* earlier calls that used up one of its permissions

stats  == <<alloc_count, free_count, realloc_count, bytes_live, bytes_peak>>
locals == <<op, ptr, size, delta, live, seen>>
faults == <<armings, armed, epoch, passed, strangers>>
hist   == <<calls, max_live, faults>>
vars   == <<stats, countdown, hdr, pc, locals, hist>>

NoHdr == -1

Goto(t, l) == pc' = [pc EXCEPT ![t] = l]

(* Blocks that some call is working on.                                    *)
Busy == {ptr[t] : t \in {u \in Threads : pc[u] # "idle"}}

Held == {p \in Ptrs : hdr[p] # NoHdr /\ p \notin Busy}

Call(t, o, p, n) ==
    /\ pc[t] = "idle" /\ calls < MaxCalls
    /\ calls' = calls + 1
    /\ op' = [op EXCEPT ![t] = o]
    /\ ptr' = [ptr EXCEPT ![t] = p]
    /\ size' = [size EXCEPT ![t] = n]
    /\ epoch' = [epoch EXCEPT ![t] = armings]
    /\ UNCHANGED <<stats, countdown, hdr, delta, live, seen,
                   max_live, armings, armed, passed, strangers>>

mmalloc(t, n) == Call(t, "malloc", NoPtr, n) /\ Goto(t, "fault_load")

mfree(t, p) == p \in Held /\ Call(t, "free", p, 0) /\ Goto(t, "count_free")

(* mrealloc(NULL, n) is mmalloc(n), mrealloc(p, 0) is mfree(p).            *)
mrealloc(t, p, n) ==
    \/ n = 0 /\ mfree(t, p)
    \/ n # 0 /\ p \in Held /\ Call(t, "realloc", p, n) /\ Goto(t, "fault_load")

(***************************************************************************)
(* mem_should_fail                                                         *)
(***************************************************************************)

fault_load(t) ==
    /\ pc[t] = "fault_load"
    /\ seen' = [seen EXCEPT ![t] = countdown]
    /\ Goto(t, "fault_test")
    /\ UNCHANGED <<stats, countdown, hdr, op, ptr, size, delta, live, hist>>

(* History: thread t is allowed to allocate, through the countdown or not. *)
Allowed(t, counted) ==
    /\ passed' = IF epoch[t] = armings THEN passed + 1 ELSE passed
    /\ strangers' = IF epoch[t] # armings /\ counted THEN strangers + 1 ELSE strangers
    /\ Goto(t, "allocate")

(* Mutant: an atomic load and an atomic store instead of the CAS.          *)
fault_test_store(t) ==
    /\ pc[t] = "fault_test"
    /\ \/ seen[t] < 0 /\ Allowed(t, FALSE) /\ UNCHANGED countdown
       \/ seen[t] = 0 /\ Goto(t, "idle") /\ UNCHANGED <<countdown, passed, strangers>>
       \/ seen[t] > 0 /\ countdown' = seen[t] - 1 /\ Allowed(t, TRUE)
    /\ UNCHANGED <<stats, hdr, locals, calls, max_live, armings, armed, epoch>>

(* A failed CAS, spurious or not, leaves the current value in `seen'.      *)
fault_test(t) ==
    /\ pc[t] = "fault_test"
    /\ \/ /\ seen[t] < 0
          /\ Allowed(t, FALSE)
          /\ UNCHANGED <<countdown, seen>>
       \/ /\ seen[t] = 0
          /\ Goto(t, "idle")
          /\ UNCHANGED <<countdown, seen, passed, strangers>>
       \/ /\ seen[t] > 0 /\ countdown = seen[t]
          /\ countdown' = seen[t] - 1
          /\ Allowed(t, TRUE)
          /\ UNCHANGED seen
       \/ /\ seen[t] > 0
          /\ seen' = [seen EXCEPT ![t] = countdown]
          /\ UNCHANGED <<countdown, pc, passed, strangers>>
    /\ UNCHANGED <<stats, hdr, op, ptr, size, delta, live,
                   calls, max_live, armings, armed, epoch>>

(***************************************************************************)
(* The heap call in the middle of mmalloc and mrealloc, and its count      *)
(***************************************************************************)

(* The size does not fit, or the heap has nothing to give: NULL.           *)
NoMemory(t) ==
    /\ pc[t] = "allocate"
    /\ Goto(t, "idle")
    /\ UNCHANGED <<stats, countdown, hdr, locals, hist>>

Malloc(t) ==
    /\ pc[t] = "allocate" /\ op[t] = "malloc" /\ size[t] <= MaxSize
    /\ \E p \in Ptrs \ Busy :
          /\ hdr[p] = NoHdr
          /\ hdr' = [hdr EXCEPT ![p] = size[t]]
          /\ ptr' = [ptr EXCEPT ![t] = p]
    /\ alloc_count' = alloc_count + 1
    /\ delta' = [delta EXCEPT ![t] = size[t]]
    /\ Goto(t, "add_live")
    /\ UNCHANGED <<free_count, realloc_count, bytes_live, bytes_peak, countdown,
                   op, size, live, seen, hist>>

(* Mutant: the difference of the sizes is added whatever its sign.         *)
ReallocUnsigned(t) ==
    /\ pc[t] = "allocate" /\ op[t] = "realloc" /\ size[t] <= MaxSize
    /\ hdr' = [hdr EXCEPT ![ptr[t]] = size[t]]
    /\ realloc_count' = realloc_count + 1
    /\ delta' = [delta EXCEPT ![t] = size[t] - hdr[ptr[t]]]
    /\ Goto(t, "add_live")
    /\ UNCHANGED <<alloc_count, free_count, bytes_live, bytes_peak, countdown,
                   op, ptr, size, live, seen, hist>>

Realloc(t) ==
    /\ pc[t] = "allocate" /\ op[t] = "realloc" /\ size[t] <= MaxSize
    /\ hdr' = [hdr EXCEPT ![ptr[t]] = size[t]]
    /\ realloc_count' = realloc_count + 1
    /\ \/ /\ size[t] >= hdr[ptr[t]]
          /\ delta' = [delta EXCEPT ![t] = size[t] - hdr[ptr[t]]]
          /\ Goto(t, "add_live")
       \/ /\ size[t] < hdr[ptr[t]]
          /\ delta' = [delta EXCEPT ![t] = hdr[ptr[t]] - size[t]]
          /\ Goto(t, "sub_load")
    /\ UNCHANGED <<alloc_count, free_count, bytes_live, bytes_peak, countdown,
                   op, ptr, size, live, seen, hist>>

(***************************************************************************)
(* alloc_mem_stats and update_mem_peak                                     *)
(***************************************************************************)

add_live(t) ==
    /\ pc[t] = "add_live"
    /\ bytes_live' = bytes_live + delta[t]
    /\ live' = [live EXCEPT ![t] = bytes_live + delta[t]]
    /\ max_live' = IF bytes_live + delta[t] > max_live THEN bytes_live + delta[t] ELSE max_live
    /\ Goto(t, "peak_load")
    /\ UNCHANGED <<alloc_count, free_count, realloc_count, bytes_peak, countdown, hdr,
                   op, ptr, size, delta, seen, calls, faults>>

peak_load(t) ==
    /\ pc[t] = "peak_load"
    /\ seen' = [seen EXCEPT ![t] = bytes_peak]
    /\ Goto(t, "peak_test")
    /\ UNCHANGED <<stats, countdown, hdr, op, ptr, size, delta, live, hist>>

(* Mutant: the test is made on the value loaded, the store is unconditional. *)
peak_test_store(t) ==
    /\ pc[t] = "peak_test"
    /\ bytes_peak' = IF live[t] > seen[t] THEN live[t] ELSE bytes_peak
    /\ Goto(t, "idle")
    /\ UNCHANGED <<alloc_count, free_count, realloc_count, bytes_live, countdown, hdr,
                   locals, hist>>

peak_test(t) ==
    /\ pc[t] = "peak_test"
    /\ \/ /\ live[t] <= seen[t]
          /\ Goto(t, "idle")
          /\ UNCHANGED <<bytes_peak, seen>>
       \/ /\ live[t] > seen[t] /\ bytes_peak = seen[t]
          /\ bytes_peak' = live[t]
          /\ Goto(t, "idle")
          /\ UNCHANGED seen
       \/ /\ live[t] > seen[t]
          /\ seen' = [seen EXCEPT ![t] = bytes_peak]
          /\ UNCHANGED <<bytes_peak, pc>>
    /\ UNCHANGED <<alloc_count, free_count, realloc_count, bytes_live, countdown, hdr,
                   op, ptr, size, delta, live, hist>>

(***************************************************************************)
(* free_mem_stats and sub_mem_stats_live                                   *)
(***************************************************************************)

count_free(t) ==
    /\ pc[t] = "count_free"
    /\ free_count' = free_count + 1
    /\ delta' = [delta EXCEPT ![t] = hdr[ptr[t]]]
    /\ Goto(t, "sub_load")
    /\ UNCHANGED <<alloc_count, realloc_count, bytes_live, bytes_peak, countdown, hdr,
                   op, ptr, size, live, seen, hist>>

sub_load(t) ==
    /\ pc[t] = "sub_load"
    /\ seen' = [seen EXCEPT ![t] = bytes_live]
    /\ Goto(t, "sub_cas")
    /\ UNCHANGED <<stats, countdown, hdr, op, ptr, size, delta, live, hist>>

(* Mutant: a plain store of the difference, as if no other thread counted. *)
sub_cas_store(t) ==
    /\ pc[t] = "sub_cas"
    /\ bytes_live' = IF seen[t] >= delta[t] THEN seen[t] - delta[t] ELSE 0
    /\ hdr' = IF op[t] = "free" THEN [hdr EXCEPT ![ptr[t]] = NoHdr] ELSE hdr
    /\ Goto(t, "idle")
    /\ UNCHANGED <<alloc_count, free_count, realloc_count, bytes_peak, countdown,
                   locals, hist>>

(* mfree gives the block back to the heap once it is accounted for.        *)
sub_cas(t) ==
    /\ pc[t] = "sub_cas"
    /\ \/ /\ bytes_live = seen[t]
          /\ bytes_live' = IF seen[t] >= delta[t] THEN seen[t] - delta[t] ELSE 0
          /\ hdr' = IF op[t] = "free" THEN [hdr EXCEPT ![ptr[t]] = NoHdr] ELSE hdr
          /\ Goto(t, "idle")
          /\ UNCHANGED seen
       \/ /\ seen' = [seen EXCEPT ![t] = bytes_live]
          /\ UNCHANGED <<bytes_live, hdr, pc>>
    /\ UNCHANGED <<alloc_count, free_count, realloc_count, bytes_peak, countdown,
                   op, ptr, size, delta, live, hist>>

(***************************************************************************)
(* set_mem_fault_countdown and clear_mem_fault                             *)
(***************************************************************************)

Arm(n) ==
    /\ armings < MaxArmings
    /\ armings' = armings + 1
    /\ countdown' = n /\ armed' = n
    /\ passed' = 0 /\ strangers' = 0
    /\ UNCHANGED <<stats, hdr, pc, locals, calls, max_live, epoch>>

set_mem_fault_countdown == \E n \in Countdowns : Arm(n)

clear_mem_fault == countdown # -1 /\ Arm(-1)

Init ==
    /\ alloc_count = 0 /\ free_count = 0 /\ realloc_count = 0
    /\ bytes_live = 0 /\ bytes_peak = 0 /\ countdown = -1
    /\ hdr = [p \in Ptrs |-> NoHdr]
    /\ pc = [t \in Threads |-> "idle"]
    /\ op = [t \in Threads |-> "malloc"] /\ ptr = [t \in Threads |-> NoPtr]
    /\ size = [t \in Threads |-> 0] /\ delta = [t \in Threads |-> 0]
    /\ live = [t \in Threads |-> 0] /\ seen = [t \in Threads |-> 0]
    /\ calls = 0 /\ max_live = 0
    /\ armings = 0 /\ armed = -1 /\ passed = 0 /\ strangers = 0
    /\ epoch = [t \in Threads |-> 0]

Step(t) ==
    \/ fault_load(t) \/ fault_test(t)
    \/ NoMemory(t) \/ Malloc(t) \/ Realloc(t)
    \/ add_live(t) \/ peak_load(t) \/ peak_test(t)
    \/ count_free(t) \/ sub_load(t) \/ sub_cas(t)

Next ==
    \/ \E t \in Threads :
         \/ \E n \in Sizes : mmalloc(t, n)
         \/ \E p \in Ptrs : mfree(t, p)
         \/ \E p \in Ptrs, n \in Sizes : mrealloc(t, p, n)
         \/ Step(t)
    \/ set_mem_fault_countdown \/ clear_mem_fault

Spec == Init /\ [][Next]_vars

(***************************************************************************)
(* Properties                                                              *)
(***************************************************************************)

Labels == {"idle", "fault_load", "fault_test", "allocate", "add_live", "peak_load",
           "peak_test", "count_free", "sub_load", "sub_cas"}

(* Every counter, header and local has its type.                           *)
TypeOK ==
    /\ alloc_count \in Nat /\ free_count \in Nat /\ realloc_count \in Nat
    /\ bytes_live \in Nat /\ bytes_peak \in Nat /\ max_live \in Nat
    /\ countdown \in Int /\ armed \in Int
    /\ hdr \in [Ptrs -> Nat \cup {NoHdr}]
    /\ pc \in [Threads -> Labels]
    /\ op \in [Threads -> {"malloc", "free", "realloc"}]
    /\ ptr \in [Threads -> Ptrs \cup {NoPtr}]
    /\ size \in [Threads -> Nat] /\ delta \in [Threads -> Nat]
    /\ live \in [Threads -> Nat] /\ seen \in [Threads -> Int]
    /\ calls \in Nat /\ armings \in Nat /\ passed \in Nat /\ strangers \in Nat
    /\ epoch \in [Threads -> Nat]

Quiescent == \A t \in Threads : pc[t] = "idle"

(* When no call is under way, bytes_peak is the largest value bytes_live ever
   had: no racing update of the peak is lost.                              *)
PeakIsMaximum == Quiescent => bytes_peak = max_live

(* When no call is under way, bytes_live is what the blocks' headers add up
   to and the counts differ by the blocks alive: in particular the
   saturating subtraction never had to saturate.                           *)
LiveIsSumOfBlocks ==
    Quiescent =>
      /\ bytes_live = MapThenSumSet(LAMBDA p : hdr[p], Held)
      /\ alloc_count = free_count + Cardinality(Held)

(* After set_mem_fault_countdown(n) at most n of the calls that begin later
   may allocate, and none of them fails before n permissions are used.     *)
FaultBudget ==
    armed >= 0 =>
      /\ passed + strangers + countdown = armed
      /\ \A t \in Threads :
           pc[t] = "fault_test" /\ epoch[t] = armings =>
             seen[t] >= 0 /\ (seen[t] = 0 => passed + strangers = armed)
=============================================================================
