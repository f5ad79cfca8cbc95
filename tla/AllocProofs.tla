---------------------------- MODULE AllocProofs ----------------------------
(***************************************************************************)
(* Proofs about the counting allocator, for any number of threads, blocks  *)
(* and calls: the statistics are well typed, no racing update of the peak  *)
(* is lost, an armed fault countdown is an exact budget, and bytes_live is *)
(* what the blocks add up to.                                              *)
(***************************************************************************)
EXTENDS Alloc, FiniteSetTheorems, WellFoundedInduction, TLAPS

(***************************************************************************)
(* Types.  That the bytes subtracted are a number rests on the header of a *)
(* block being there as long as a call works on it.                        *)
(***************************************************************************)

(* The calls that work on a block rather than look for one.                *)
Working(t) ==
    \/ pc[t] \in {"count_free", "sub_load", "sub_cas", "add_live", "peak_load", "peak_test"}
    \/ pc[t] \in {"fault_load", "fault_test", "allocate"} /\ op[t] # "malloc"

BlockThere == \A t \in Threads : Working(t) => ptr[t] \in Ptrs /\ hdr[ptr[t]] # NoHdr

NoSharing ==
    \A t, u \in Threads :
      t # u /\ pc[t] # "idle" /\ pc[u] # "idle" => ptr[t] # ptr[u] \/ ptr[t] = NoPtr

TypeInv == TypeOK /\ BlockThere /\ NoSharing

USE DEF NoHdr, Labels

(* Entering a call: the block handed in is held and nobody works on it.    *)
LEMMA CallTypes ==
    ASSUME TypeInv, NEW t \in Threads, NEW o \in {"malloc", "free", "realloc"},
           NEW p, NEW n \in Nat, NEW l \in {"fault_load", "count_free"},
           Call(t, o, p, n), Goto(t, l),
           \/ p = NoPtr /\ o = "malloc" /\ l = "fault_load"
           \/ p \in Held
    PROVE  TypeInv'
<1>1. TypeOK'
  BY AllocAssumption DEF TypeInv, TypeOK, Call, Goto, Held, stats
<1>2. BlockThere'
  BY DEF TypeInv, TypeOK, BlockThere, Working, Call, Goto, Held
<1>3. NoSharing'
  BY DEF TypeInv, TypeOK, NoSharing, Call, Goto, Held, Busy
<1> QED
  BY <1>1, <1>2, <1>3 DEF TypeInv

LEMMA TypeInvInit == Init => TypeInv
BY NoPtrAssumption DEF Init, TypeInv, TypeOK, BlockThere, Working, NoSharing

LEMMA TypeInvStep == TypeInv /\ [Next]_vars => TypeInv'
<1> SUFFICES ASSUME TypeInv, [Next]_vars PROVE TypeInv'
  OBVIOUS
<1> USE AllocAssumption, NoPtrAssumption
<1>1. ASSUME NEW t \in Threads, NEW n \in Sizes, mmalloc(t, n) PROVE TypeInv'
  BY <1>1, CallTypes DEF mmalloc
<1>2. ASSUME NEW t \in Threads, NEW p \in Ptrs, mfree(t, p) PROVE TypeInv'
  BY <1>2, CallTypes DEF mfree
<1>3. ASSUME NEW t \in Threads, NEW p \in Ptrs, NEW n \in Sizes, mrealloc(t, p, n)
      PROVE  TypeInv'
  <2>1. CASE n = 0 /\ mfree(t, p)
    BY <2>1, <1>2
  <2>2. CASE p \in Held /\ Call(t, "realloc", p, n) /\ Goto(t, "fault_load")
    BY <2>2, CallTypes
  <2> QED
    BY <1>3, <2>1, <2>2 DEF mrealloc
<1>4. ASSUME NEW t \in Threads, fault_load(t) PROVE TypeInv'
  BY <1>4 DEF TypeInv, TypeOK, BlockThere, Working, NoSharing, fault_load, Goto, stats,
     hist, faults
<1>5. ASSUME NEW t \in Threads, fault_test(t) PROVE TypeInv'
  <2> USE DEF TypeInv, TypeOK, BlockThere, Working, NoSharing, Goto, Allowed, stats
  <2>1. CASE seen[t] < 0 /\ Allowed(t, FALSE) /\ UNCHANGED <<countdown, seen>>
    BY <1>5, <2>1 DEF fault_test
  <2>2. CASE seen[t] = 0 /\ Goto(t, "idle") /\ UNCHANGED <<countdown, seen, passed, strangers>>
    BY <1>5, <2>2 DEF fault_test
  <2>3. CASE seen[t] > 0 /\ countdown' = seen[t] - 1 /\ Allowed(t, TRUE) /\ UNCHANGED seen
    BY <1>5, <2>3 DEF fault_test
  <2>4. CASE /\ seen' = [seen EXCEPT ![t] = countdown]
             /\ UNCHANGED <<countdown, pc, passed, strangers>>
    BY <1>5, <2>4 DEF fault_test
  <2> QED
    BY <1>5, <2>1, <2>2, <2>3, <2>4 DEF fault_test
<1>6. ASSUME NEW t \in Threads, NoMemory(t) PROVE TypeInv'
  BY <1>6 DEF TypeInv, TypeOK, BlockThere, Working, NoSharing, NoMemory, Goto, stats,
     locals, hist, faults
<1>7. ASSUME NEW t \in Threads, Malloc(t) PROVE TypeInv'
  <2>1. PICK p \in Ptrs \ Busy : hdr[p] = NoHdr /\ hdr' = [hdr EXCEPT ![p] = size[t]]
                                 /\ ptr' = [ptr EXCEPT ![t] = p]
    BY <1>7 DEF Malloc
  <2>2. TypeOK'
    BY <1>7, <2>1 DEF TypeInv, TypeOK, Malloc, Goto, hist, faults
  <2>3. BlockThere'
    BY <1>7, <2>1 DEF TypeInv, TypeOK, BlockThere, Working, Malloc, Goto
  <2>4. NoSharing'
    BY <1>7, <2>1 DEF TypeInv, TypeOK, NoSharing, Busy, Malloc, Goto
  <2> QED
    BY <2>2, <2>3, <2>4 DEF TypeInv
<1>8. ASSUME NEW t \in Threads, Realloc(t) PROVE TypeInv'
  <2>0. ptr[t] \in Ptrs /\ hdr[ptr[t]] \in Nat
    BY <1>8 DEF TypeInv, TypeOK, BlockThere, Working, Realloc
  <2>1. TypeOK'
    BY <1>8, <2>0 DEF TypeInv, TypeOK, Realloc, Goto, hist, faults
  <2>2. BlockThere'
    BY <1>8, <2>0 DEF TypeInv, TypeOK, BlockThere, Working, Realloc, Goto
  <2>3. NoSharing'
    BY <1>8 DEF TypeInv, TypeOK, NoSharing, Realloc, Goto
  <2> QED
    BY <2>1, <2>2, <2>3 DEF TypeInv
<1>9. ASSUME NEW t \in Threads, add_live(t) PROVE TypeInv'
  BY <1>9 DEF TypeInv, TypeOK, BlockThere, Working, NoSharing, add_live, Goto, faults
<1>10. ASSUME NEW t \in Threads, peak_load(t) PROVE TypeInv'
  BY <1>10 DEF TypeInv, TypeOK, BlockThere, Working, NoSharing, peak_load, Goto, stats,
     hist, faults
<1>11. ASSUME NEW t \in Threads, peak_test(t) PROVE TypeInv'
  BY <1>11 DEF TypeInv, TypeOK, BlockThere, Working, NoSharing, peak_test, Goto, hist,
     faults
<1>12. ASSUME NEW t \in Threads, count_free(t) PROVE TypeInv'
  BY <1>12 DEF TypeInv, TypeOK, BlockThere, Working, NoSharing, count_free, Goto, hist,
     faults
<1>13. ASSUME NEW t \in Threads, sub_load(t) PROVE TypeInv'
  BY <1>13 DEF TypeInv, TypeOK, BlockThere, Working, NoSharing, sub_load, Goto, stats,
     hist, faults
<1>14. ASSUME NEW t \in Threads, sub_cas(t) PROVE TypeInv'
  <2>1. TypeOK'
    BY <1>14 DEF TypeInv, TypeOK, sub_cas, Goto, hist, faults
  <2>2. BlockThere'
    BY <1>14 DEF TypeInv, TypeOK, BlockThere, Working, NoSharing, sub_cas, Goto
  <2>3. NoSharing'
    BY <1>14 DEF TypeInv, TypeOK, NoSharing, sub_cas, Goto
  <2> QED
    BY <2>1, <2>2, <2>3 DEF TypeInv
<1>15. ASSUME NEW n \in Int, Arm(n) PROVE TypeInv'
  BY <1>15 DEF TypeInv, TypeOK, BlockThere, Working, NoSharing, Arm, stats, locals
<1>16. CASE UNCHANGED vars
  BY <1>16 DEF TypeInv, TypeOK, BlockThere, Working, NoSharing, vars, stats, locals,
     hist, faults
<1> QED
  BY <1>1, <1>2, <1>3, <1>4, <1>5, <1>6, <1>7, <1>8, <1>9, <1>10, <1>11, <1>12, <1>13,
     <1>14, <1>15, <1>16
  DEF Next, Step, set_mem_fault_countdown, clear_mem_fault

(* The counters of the statistics stay natural numbers and the locals of
   every call have their types (alloc.c, all calls).                       *)
THEOREM TypeCorrect == Spec => []TypeOK
<1>1. TypeInv => TypeOK
  BY DEF TypeInv
<1> QED
  BY <1>1, TypeInvInit, TypeInvStep, PTL DEF Spec

(***************************************************************************)
(* The peak.  A thread never leaves update_mem_peak before the peak is at  *)
(* least what the thread saw alive: what it loaded bounds the peak below.  *)
(***************************************************************************)

PeakBounds ==
    \A t \in Threads :
      /\ pc[t] \in {"peak_load", "peak_test"} => live[t] <= max_live
      /\ pc[t] = "peak_test" => seen[t] <= bytes_peak

(* The maximum is in bytes_peak already, or a thread between its fetch_add
   and its CAS still carries it.                                           *)
PeakCarried ==
    /\ bytes_peak <= max_live
    /\ \/ bytes_peak = max_live
       \/ \E t \in Threads : pc[t] \in {"peak_load", "peak_test"} /\ live[t] = max_live

PeakInv == PeakBounds /\ PeakCarried

(* The steps that touch neither the peak nor what update_mem_peak uses.    *)
LEMMA PeakFrame ==
    ASSUME PeakInv, UNCHANGED <<bytes_peak, max_live>>,
           \A t \in Threads :
             /\ pc[t] \in {"peak_load", "peak_test"} => pc'[t] = pc[t]
             /\ pc'[t] \in {"peak_load", "peak_test"} =>
                  pc'[t] = pc[t] /\ live'[t] = live[t] /\ seen'[t] = seen[t]
    PROVE  PeakInv'
BY DEF PeakInv, PeakBounds, PeakCarried

LEMMA PeakStep == TypeInv /\ PeakInv /\ [Next]_vars => PeakInv'
<1> SUFFICES ASSUME TypeInv, PeakInv, [Next]_vars PROVE PeakInv'
  OBVIOUS
<1> USE DEF TypeInv, TypeOK
<1>1. ASSUME NEW t \in Threads, NEW o, NEW p, NEW n, Call(t, o, p, n),
             NEW l \in {"fault_load", "count_free"}, Goto(t, l)
      PROVE  PeakInv'
  BY <1>1, PeakFrame DEF Call, Goto, stats
<1>2. ASSUME NEW t \in Threads, fault_load(t) \/ fault_test(t) \/ NoMemory(t) PROVE PeakInv'
  <2>1. CASE fault_load(t)
    BY <2>1, PeakFrame DEF fault_load, Goto, stats, hist
  <2>2. CASE fault_test(t)
    BY <2>2, PeakFrame DEF fault_test, Goto, Allowed, stats
  <2>3. CASE NoMemory(t)
    BY <2>3, PeakFrame DEF NoMemory, Goto, stats, locals, hist
  <2> QED
    BY <1>2, <2>1, <2>2, <2>3
<1>3. ASSUME NEW t \in Threads, Malloc(t) \/ Realloc(t) PROVE PeakInv'
  <2>1. CASE Malloc(t)
    BY <2>1, PeakFrame DEF Malloc, Goto, hist
  <2>2. CASE Realloc(t)
    BY <2>2, PeakFrame DEF Realloc, Goto, hist
  <2> QED
    BY <1>3, <2>1, <2>2
<1>4. ASSUME NEW t \in Threads, add_live(t) PROVE PeakInv'
  <2>1. bytes_live + delta[t] \in Nat
    OBVIOUS
  <2>2. max_live <= max_live' /\ bytes_live + delta[t] <= max_live' /\ max_live' \in Nat
    BY <1>4, <2>1 DEF add_live
  <2>3. PeakBounds'
    BY <1>4, <2>2 DEF add_live, Goto, PeakInv, PeakBounds
  <2>4. PeakCarried'
    <3>1. CASE bytes_live + delta[t] > max_live
      <4>1. pc'[t] = "peak_load" /\ live'[t] = max_live' /\ bytes_peak' <= max_live'
        BY <1>4, <2>2, <3>1 DEF add_live, Goto, PeakInv, PeakCarried
      <4> QED
        BY <4>1 DEF PeakCarried
    <3>2. CASE ~(bytes_live + delta[t] > max_live)
      BY <1>4, <3>2 DEF add_live, Goto, PeakInv, PeakCarried
    <3> QED
      BY <3>1, <3>2
  <2> QED
    BY <2>3, <2>4 DEF PeakInv
<1>5. ASSUME NEW t \in Threads, peak_load(t) PROVE PeakInv'
  BY <1>5 DEF peak_load, Goto, stats, hist, PeakInv, PeakBounds, PeakCarried
<1>6. ASSUME NEW t \in Threads, peak_test(t) PROVE PeakInv'
  <2>1. CASE live[t] <= seen[t] /\ Goto(t, "idle") /\ UNCHANGED <<bytes_peak, seen>>
    BY <1>6, <2>1 DEF peak_test, Goto, hist, PeakInv, PeakBounds, PeakCarried
  <2>2. CASE /\ live[t] > seen[t] /\ bytes_peak = seen[t]
             /\ bytes_peak' = live[t] /\ Goto(t, "idle") /\ UNCHANGED seen
    BY <1>6, <2>2 DEF peak_test, Goto, hist, PeakInv, PeakBounds, PeakCarried
  <2>3. CASE seen' = [seen EXCEPT ![t] = bytes_peak] /\ UNCHANGED <<bytes_peak, pc>>
    BY <1>6, <2>3 DEF peak_test, hist, PeakInv, PeakBounds, PeakCarried
  <2> QED
    BY <1>6, <2>1, <2>2, <2>3 DEF peak_test
<1>7. ASSUME NEW t \in Threads, count_free(t) \/ sub_load(t) \/ sub_cas(t) PROVE PeakInv'
  <2>1. CASE count_free(t)
    BY <2>1, PeakFrame DEF count_free, Goto, hist
  <2>2. CASE sub_load(t)
    BY <2>2, PeakFrame DEF sub_load, Goto, stats, hist
  <2>3. CASE sub_cas(t)
    BY <2>3, PeakFrame DEF sub_cas, Goto, hist
  <2> QED
    BY <1>7, <2>1, <2>2, <2>3
<1>8. ASSUME NEW n, Arm(n) PROVE PeakInv'
  BY <1>8, PeakFrame DEF Arm, stats, locals
<1>9. CASE UNCHANGED vars
  BY <1>9, PeakFrame DEF vars, stats, locals, hist
<1> QED
  BY <1>1, <1>2, <1>3, <1>4, <1>5, <1>6, <1>7, <1>8, <1>9
  DEF Next, Step, mmalloc, mfree, mrealloc, set_mem_fault_countdown, clear_mem_fault

(* However the threads race in update_mem_peak (alloc.c), bytes_peak is the
   largest value bytes_live ever had whenever no call is under way.        *)
THEOREM PeakNeverLost == Spec => []PeakIsMaximum
<1>1. Init => PeakInv
  BY DEF Init, PeakInv, PeakBounds, PeakCarried
<1>2. PeakInv => PeakIsMaximum
  BY DEF PeakInv, PeakCarried, PeakIsMaximum, Quiescent
<1> QED
  BY <1>1, <1>2, TypeInvInit, TypeInvStep, PeakStep, PTL DEF Spec

(***************************************************************************)
(* The fault countdown.  A thread whose call began after the last arming   *)
(* has loaded a value of this arming, and the counter only sinks.          *)
(***************************************************************************)

Sinking ==
    /\ countdown >= -1 /\ armed >= -1
    /\ armed >= 0 => countdown >= 0
    /\ \A t \in Threads :
         /\ epoch[t] <= armings
         /\ armed >= 0 /\ pc[t] = "fault_test" /\ epoch[t] = armings => seen[t] >= countdown

Budget == armed >= 0 => passed + strangers + countdown = armed

FaultInv == Sinking /\ Budget

LEMMA FaultFrame ==
    ASSUME FaultInv, UNCHANGED <<countdown, armings, armed, passed, strangers, epoch>>,
           \A t \in Threads :
             pc'[t] = "fault_test" => pc[t] = "fault_test" /\ seen'[t] = seen[t]
    PROVE  FaultInv'
BY DEF FaultInv, Sinking, Budget

LEMMA FaultStep == TypeInv /\ FaultInv /\ [Next]_vars => FaultInv'
<1> SUFFICES ASSUME TypeInv, FaultInv, [Next]_vars PROVE FaultInv'
  OBVIOUS
<1> USE DEF TypeInv, TypeOK
<1>1. ASSUME NEW t \in Threads, NEW o, NEW p, NEW n, Call(t, o, p, n),
             NEW l \in {"fault_load", "count_free"}, Goto(t, l)
      PROVE  FaultInv'
  BY <1>1 DEF Call, Goto, FaultInv, Sinking, Budget
<1>2. ASSUME NEW t \in Threads, fault_load(t) PROVE FaultInv'
  BY <1>2 DEF fault_load, Goto, hist, faults, FaultInv, Sinking, Budget
<1>3. ASSUME NEW t \in Threads, fault_test(t) PROVE FaultInv'
  <2> USE DEF FaultInv, Sinking, Budget, Goto, Allowed
  <2>1. CASE seen[t] < 0 /\ Allowed(t, FALSE) /\ UNCHANGED <<countdown, seen>>
    BY <1>3, <2>1 DEF fault_test
  <2>2. CASE seen[t] = 0 /\ Goto(t, "idle") /\ UNCHANGED <<countdown, seen, passed, strangers>>
    BY <1>3, <2>2 DEF fault_test
  <2>3. CASE /\ seen[t] > 0 /\ countdown = seen[t]
             /\ countdown' = seen[t] - 1 /\ Allowed(t, TRUE) /\ UNCHANGED seen
    BY <1>3, <2>3 DEF fault_test
  <2>4. CASE /\ seen' = [seen EXCEPT ![t] = countdown]
             /\ UNCHANGED <<countdown, pc, passed, strangers>>
    BY <1>3, <2>4 DEF fault_test
  <2> QED
    BY <1>3, <2>1, <2>2, <2>3, <2>4 DEF fault_test
<1>4. ASSUME NEW t \in Threads, NoMemory(t) \/ Malloc(t) \/ Realloc(t) PROVE FaultInv'
  <2>1. CASE NoMemory(t)
    BY <2>1, FaultFrame DEF NoMemory, Goto, locals, hist, faults
  <2>2. CASE Malloc(t)
    BY <2>2, FaultFrame DEF Malloc, Goto, hist, faults
  <2>3. CASE Realloc(t)
    BY <2>3, FaultFrame DEF Realloc, Goto, hist, faults
  <2> QED
    BY <1>4, <2>1, <2>2, <2>3
<1>5. ASSUME NEW t \in Threads, add_live(t) \/ peak_load(t) \/ peak_test(t) PROVE FaultInv'
  <2>1. CASE add_live(t)
    BY <2>1, FaultFrame DEF add_live, Goto, faults
  <2>2. CASE peak_load(t)
    BY <2>2, FaultFrame DEF peak_load, Goto, hist, faults
  <2>3. CASE peak_test(t)
    BY <2>3, FaultFrame DEF peak_test, Goto, hist, faults
  <2> QED
    BY <1>5, <2>1, <2>2, <2>3
<1>6. ASSUME NEW t \in Threads, count_free(t) \/ sub_load(t) \/ sub_cas(t) PROVE FaultInv'
  <2>1. CASE count_free(t)
    BY <2>1, FaultFrame DEF count_free, Goto, hist, faults
  <2>2. CASE sub_load(t)
    BY <2>2, FaultFrame DEF sub_load, Goto, hist, faults
  <2>3. CASE sub_cas(t)
    BY <2>3, FaultFrame DEF sub_cas, Goto, hist, faults
  <2> QED
    BY <1>6, <2>1, <2>2, <2>3
<1>7. ASSUME NEW n \in Int, n >= -1, Arm(n) PROVE FaultInv'
  BY <1>7 DEF Arm, locals, FaultInv, Sinking, Budget
<1>8. CASE UNCHANGED vars
  BY <1>8, FaultFrame DEF vars, locals, hist, faults
<1>9. \A n \in Countdowns : n \in Int /\ n >= -1
  BY AllocAssumption
<1> QED
  BY <1>1, <1>2, <1>3, <1>4, <1>5, <1>6, <1>7, <1>8, <1>9
  DEF Next, Step, mmalloc, mfree, mrealloc, set_mem_fault_countdown, clear_mem_fault

(* set_mem_fault_countdown(n) grants exactly n allocations to the calls that
   follow, however their CAS loops in mem_should_fail interleave.          *)
THEOREM FaultBudgetExact == Spec => []FaultBudget
<1>1. Init => FaultInv
  BY DEF Init, FaultInv, Sinking, Budget
<1>2. TypeInv /\ FaultInv => FaultBudget
  BY DEF TypeInv, TypeOK, FaultInv, Sinking, Budget, FaultBudget
<1> QED
  BY <1>1, <1>2, TypeInvInit, TypeInvStep, FaultStep, PTL DEF Spec

(***************************************************************************)
(* Induction                                                               *)
(***************************************************************************)

LEMMA Least ==
    ASSUME NEW T, T \subseteq Nat, T # {}
    PROVE  \E n \in T : \A m \in T : n <= m
<1> DEFINE R == OpToRel(<, Nat)
<1>1. IsWellFoundedOn(R, Nat)
  BY NatLessThanWellFounded
<1>2. \A x, y \in Nat : <<x, y>> \in R <=> x < y
  BY DEF OpToRel
<1> HIDE DEF R
<1>3. PICK n \in T : \A y \in T : ~(<<y, n>> \in R)
  BY <1>1, WFMin
<1>4. ASSUME NEW m \in T PROVE n <= m
  <2>1. m \in Nat /\ n \in Nat /\ ~(m < n)
    BY <1>2, <1>3
  <2> QED
    BY <2>1, SMT
<1> QED
  BY <1>4

(* Induction over the subsets of a finite set: what holds for a subset as
   soon as it holds for its proper subsets holds for all of them.          *)
LEMMA Subsets ==
    ASSUME NEW D, IsFiniteSet(D), NEW G,
           \A s \in SUBSET D : (\A r \in SUBSET s : r # s => r \in G) => s \in G
    PROVE  \A s \in SUBSET D : s \in G
<1> DEFINE T == {n \in Nat : \E s \in SUBSET D : s \notin G /\ Cardinality(s) = n}
<1>1. SUFFICES ASSUME NEW s \in SUBSET D, s \notin G PROVE FALSE
  OBVIOUS
<1>2. \A r \in SUBSET D : IsFiniteSet(r) /\ Cardinality(r) \in Nat
  BY FS_Subset, FS_CardinalityType
<1>3. Cardinality(s) \in T /\ T \subseteq Nat
  BY <1>1, <1>2
<1>4. PICK n \in T : \A m \in T : n <= m
  <2> HIDE DEF T
  <2> QED
    BY <1>3, Least
<1>5. PICK q \in SUBSET D : q \notin G /\ Cardinality(q) = n
  BY <1>4
<1>6. ASSUME NEW r \in SUBSET q, r # q PROVE r \in G
  <2>1. /\ Cardinality(r) <= Cardinality(q) /\ Cardinality(r) # Cardinality(q)
        /\ Cardinality(r) \in Nat /\ Cardinality(q) \in Nat
    BY <1>2, <1>5, <1>6, FS_Subset
  <2>2. ~(n <= Cardinality(r)) /\ Cardinality(r) \in Nat
    BY <1>5, <2>1, SMT
  <2>3. Cardinality(r) \notin T
    BY <1>4, <2>2, Zenon
  <2> QED
    BY <2>2, <2>3
<1> QED
  BY <1>5, <1>6

(***************************************************************************)
(* Sums over finite sets                                                   *)
(***************************************************************************)

(* What MapThenSumSet computes: a recursive function over the subsets.     *)
Total(f, S) == MapThenSumSet(LAMBDA p : f[p], S)

Pick(s) == CHOOSE x \in s : TRUE

Added(f, g, s) == IF s = {} THEN 0 ELSE f[Pick(s)] + g[s \ {Pick(s)}]

IsSum(f, D, g) == g = [s \in SUBSET D |-> Added(f, g, s)]

LEMMA PickIn == ASSUME NEW s, s # {} PROVE Pick(s) \in s
BY Zenon DEF Pick

(* The recursive definition has a solution: extend it from the sets of n - 1
   elements to those of n.                                                 *)
LEMMA SumExists ==
    ASSUME NEW f, NEW D, IsFiniteSet(D)
    PROVE  \E g : IsSum(f, D, g)
<1> DEFINE Small(n) == {s \in SUBSET D : Cardinality(s) <= n}
           Is(g, n) == g = [s \in Small(n) |-> Added(f, g, s)]
           T == {n \in Nat : ~ \E g : Is(g, n)}
<1>0. /\ \A s \in SUBSET D : IsFiniteSet(s) /\ Cardinality(s) \in Nat
      /\ \A s \in SUBSET D : Cardinality(s) <= Cardinality(D)
      /\ \A s \in SUBSET D : Cardinality(s) = 0 => s = {}
      /\ \A s \in SUBSET D : s # {} =>
            /\ s \ {Pick(s)} \in SUBSET D
            /\ Cardinality(s \ {Pick(s)}) = Cardinality(s) - 1
  BY FS_Subset, FS_CardinalityType, FS_EmptySet, FS_RemoveElement, PickIn
<1>1. T = {}
  <2>1. SUFFICES ASSUME T # {} PROVE FALSE
    OBVIOUS
  <2>2. PICK n \in T : \A m \in T : n <= m
    <3>1. T \subseteq Nat
      OBVIOUS
    <3> HIDE DEF T
    <3> QED
      BY <2>1, <3>1, Least
  <2>3. \E g : Is(g, 0)
    <3> DEFINE g == [s \in Small(0) |-> 0]
    <3>1. \A s \in Small(0) : s = {}
      BY <1>0
    <3>2. \A s \in Small(0) : Added(f, g, s) = 0
      BY <3>1, Zenon DEF Added
    <3>3. Is(g, 0)
      BY <3>2, Zenon
    <3> QED
      BY <3>3
  <2>4. n \in Nat /\ n # 0
    BY <2>3
  <2>5. n - 1 \in Nat /\ ~(n <= n - 1)
    BY <2>4, SMT
  <2>6. PICK g : Is(g, n - 1)
    <3>1. n - 1 \notin T
      BY <2>2, <2>5, Zenon
    <3> QED
      BY <2>5, <3>1, Zenon
  <2> DEFINE k == [s \in Small(n) |-> Added(f, g, s)]
  <2>7. ASSUME NEW s \in Small(n) PROVE k[s] = Added(f, k, s)
    <3>1. CASE s = {}
      BY <3>1 DEF Added
    <3>2. CASE s # {}
      <4> DEFINE r == s \ {Pick(s)}
      <4>1. r \in Small(n - 1) /\ r \in Small(n)
        <5>1. r \in SUBSET D /\ Cardinality(r) = Cardinality(s) - 1
          BY <1>0, <3>2
        <5>2. Cardinality(s) \in Nat /\ Cardinality(s) <= n
          BY <1>0
        <5> QED
          BY <5>1, <5>2, <2>4, SMT
      <4>2. k[r] = Added(f, g, r)
        BY <4>1, Zenon
      <4>3. g[r] = Added(f, g, r)
        BY <4>1, <2>6, Zenon
      <4>4. k[s] = Added(f, g, s)
        BY Zenon
      <4> QED
        BY <4>2, <4>3, <4>4, Zenon DEF Added
    <3> QED
      BY <3>1, <3>2
  <2>8. Is(k, n)
    BY <2>7, Zenon
  <2> QED
    BY <2>8, Zenon
<1>2. Cardinality(D) \in Nat
  BY FS_CardinalityType
<1>3. PICK g : Is(g, Cardinality(D))
  BY <1>1, <1>2
<1>4. Small(Cardinality(D)) = SUBSET D
  BY <1>0
<1>5. IsSum(f, D, g)
  BY <1>3, <1>4, Zenon DEF IsSum
<1> QED
  BY <1>5

LEMMA SumOfNone == ASSUME NEW f, NEW D, NEW g, IsSum(f, D, g) PROVE g[{}] = 0
<1>1. {} \in SUBSET D
  OBVIOUS
<1>2. g[{}] = Added(f, g, {})
  BY <1>1, Zenon DEF IsSum
<1> QED
  BY <1>2, Zenon DEF Added

(* The sum over a set does not depend on the set it was computed for, nor
   on values elsewhere.                                                    *)
LEMMA SumUnique ==
    ASSUME NEW f, NEW D, NEW g, IsSum(f, D, g), IsFiniteSet(D),
           NEW e, NEW E, NEW h, IsSum(e, E, h), D \subseteq E,
           \A x \in D : f[x] = e[x]
    PROVE  \A s \in SUBSET D : g[s] = h[s]
<1> DEFINE G == {s \in SUBSET D : g[s] = h[s]}
<1>a. \A s \in SUBSET D : s # {} => g[s] = f[Pick(s)] + g[s \ {Pick(s)}]
  BY Zenon DEF IsSum, Added
<1>b. \A s \in SUBSET E : s # {} => h[s] = e[Pick(s)] + h[s \ {Pick(s)}]
  BY Zenon DEF IsSum, Added
<1>1. ASSUME NEW s \in SUBSET D, \A r \in SUBSET s : r # s => r \in G
      PROVE  s \in G
  <2>1. CASE s = {}
    <3>1. g[{}] = 0
      BY SumOfNone
    <3>2. h[{}] = 0
      BY SumOfNone
    <3> QED
      BY <2>1, <3>1, <3>2
  <2>2. CASE s # {}
    <3> DEFINE r == s \ {Pick(s)}
    <3>1. Pick(s) \in s /\ r \in SUBSET s /\ r # s /\ s \in SUBSET E /\ Pick(s) \in D
      BY <2>2, PickIn
    <3>2. g[s] = f[Pick(s)] + g[r] /\ h[s] = e[Pick(s)] + h[r]
      BY <1>a, <1>b, <2>2, <3>1, Zenon
    <3>3. g[r] = h[r]
      BY <1>1, <3>1
    <3>4. f[Pick(s)] = e[Pick(s)]
      BY <3>1
    <3>5. g[s] = h[s]
      BY <3>2, <3>3, <3>4, Zenon
    <3> QED
      BY <3>5
  <2> QED
    BY <2>1, <2>2
<1>2. \A s \in SUBSET D : s \in G
  <2> HIDE DEF G
  <2> QED
    BY <1>1, Subsets
<1> QED
  BY <1>2

(* Any element may be taken out first.                                     *)
LEMMA SumTakes ==
    ASSUME NEW f, NEW D, NEW g, IsSum(f, D, g), IsFiniteSet(D),
           \A x \in D : f[x] \in Nat
    PROVE  \A s \in SUBSET D : /\ g[s] \in Nat
                               /\ \A x \in s : g[s] = f[x] + g[s \ {x}]
<1> DEFINE G == {s \in SUBSET D : g[s] \in Nat /\ \A x \in s : g[s] = f[x] + g[s \ {x}]}
<1>a. \A s \in SUBSET D : s # {} => g[s] = f[Pick(s)] + g[s \ {Pick(s)}]
  BY Zenon DEF IsSum, Added
<1>1. ASSUME NEW s \in SUBSET D, \A r \in SUBSET s : r # s => r \in G
      PROVE  s \in G
  <2>1. CASE s = {}
    <3>1. g[{}] = 0
      BY SumOfNone
    <3> QED
      BY <2>1, <3>1
  <2>2. CASE s # {}
    <3> DEFINE y == Pick(s)
    <3>1. y \in s /\ s \ {y} \in SUBSET s /\ s \ {y} # s
      BY <2>2, PickIn
    <3>2. g[s] = f[y] + g[s \ {y}]
      BY <1>a, <2>2, Zenon
    <3>3. g[s \ {y}] \in Nat /\ \A x \in s \ {y} : g[s \ {y}] = f[x] + g[(s \ {y}) \ {x}]
      BY <1>1, <3>1
    <3>4. f[y] \in Nat /\ g[s] \in Nat
      BY <3>1, <3>2, <3>3, SMT
    <3> HIDE DEF y
    <3>5. ASSUME NEW x \in s, x # y PROVE g[s] = f[x] + g[s \ {x}]
      <4> DEFINE r == (s \ {y}) \ {x}
      <4>1. /\ s \ {x} \in SUBSET s /\ s \ {x} # s /\ y \in s \ {x}
            /\ (s \ {x}) \ {y} = r /\ x \in s \ {y}
            /\ r \in SUBSET s /\ r # s
        BY <3>1, <3>5
      <4>2. g[s \ {x}] = f[y] + g[(s \ {x}) \ {y}]
        BY <1>1, <4>1
      <4>3. g[s \ {x}] = f[y] + g[r]
        BY <4>1, <4>2, Zenon
      <4>4. g[s \ {y}] = f[x] + g[r]
        BY <3>3, <4>1, Zenon
      <4>5. g[r] \in Nat /\ f[x] \in Nat
        BY <1>1, <4>1
      <4> HIDE DEF r
      <4> QED
        BY <3>2, <3>4, <4>3, <4>4, <4>5, SMT
    <3>6. \A x \in s : g[s] = f[x] + g[s \ {x}]
      BY <3>2, <3>5, Zenon
    <3> QED
      BY <3>4, <3>6
  <2> QED
    BY <2>1, <2>2
<1>2. \A s \in SUBSET D : s \in G
  <2> HIDE DEF G
  <2> QED
    BY <1>1, Subsets
<1> QED
  BY <1>2

LEMMA TotalIsSum ==
    ASSUME NEW f, NEW S, IsFiniteSet(S)
    PROVE  \E g : IsSum(f, S, g) /\ Total(f, S) = g[S]
<1> DEFINE g == CHOOSE g : IsSum(f, S, g)
<1>1. IsSum(f, S, g)
  BY SumExists, Zenon
<1>2. Total(f, S) = g[S]
  BY Zenon DEF Total, MapThenSumSet, MapThenFoldSet, IsSum, Added, Pick
<1> QED
  BY <1>1, <1>2, Zenon

(* What is used of a sum: an element's share, and that only the values of
   the elements matter.                                                    *)
LEMMA TotalTakes ==
    ASSUME NEW f, NEW S, IsFiniteSet(S), \A x \in S : f[x] \in Nat
    PROVE  /\ Total(f, S) \in Nat
           /\ S = {} => Total(f, S) = 0
           /\ \A x \in S : Total(f, S) = f[x] + Total(f, S \ {x})
<1>1. PICK g : IsSum(f, S, g) /\ Total(f, S) = g[S]
  BY TotalIsSum
<1>2. g[S] \in Nat /\ \A x \in S : g[S] = f[x] + g[S \ {x}]
  BY <1>1, SumTakes
<1>3. S = {} => g[S] = 0
  <2>1. g[{}] = 0
    BY <1>1, SumOfNone
  <2> QED
    BY <2>1, Zenon
<1>4. ASSUME NEW x \in S PROVE Total(f, S \ {x}) = g[S \ {x}]
  <2>1. IsFiniteSet(S \ {x})
    BY FS_RemoveElement
  <2>2. PICK h : IsSum(f, S \ {x}, h) /\ Total(f, S \ {x}) = h[S \ {x}]
    BY <2>1, TotalIsSum
  <2>3. S \ {x} \subseteq S /\ \A y \in S \ {x} : f[y] = f[y]
    OBVIOUS
  <2>4. \A s \in SUBSET (S \ {x}) : h[s] = g[s]
    BY <1>1, <2>1, <2>2, <2>3, SumUnique
  <2> QED
    BY <2>2, <2>4
<1> QED
  BY <1>1, <1>2, <1>3, <1>4, Zenon

LEMMA TotalSame ==
    ASSUME NEW f, NEW e, NEW S, IsFiniteSet(S), \A x \in S : f[x] = e[x]
    PROVE  Total(f, S) = Total(e, S)
<1>1. PICK g : IsSum(f, S, g) /\ Total(f, S) = g[S]
  BY TotalIsSum
<1>2. PICK h : IsSum(e, S, h) /\ Total(e, S) = h[S]
  BY TotalIsSum
<1>3. \A s \in SUBSET S : g[s] = h[s]
  BY <1>1, <1>2, SumUnique
<1> QED
  BY <1>1, <1>2, <1>3

(* Elements that count nothing may be left out.                            *)
LEMMA TotalOfSome ==
    ASSUME NEW f, NEW D, IsFiniteSet(D), \A x \in D : f[x] \in Nat,
           NEW S \in SUBSET D, \A x \in D \ S : f[x] = 0
    PROVE  Total(f, D) = Total(f, S)
<1> DEFINE G == {s \in SUBSET D : Total(f, s) = Total(f, s \cap S)}
<1>1. ASSUME NEW s \in SUBSET D, \A r \in SUBSET s : r # s => r \in G
      PROVE  s \in G
  <2>1. CASE s = {}
    <3>1. s \cap S = s
      BY <2>1
    <3> QED
      BY <3>1
  <2>2. CASE s # {}
    <3>1. PICK x : x \in s
      BY <2>2
    <3> DEFINE r == s \ {x}
    <3>2. r \in SUBSET s /\ r # s /\ x \in D
      BY <3>1
    <3>3. Total(f, r) = Total(f, r \cap S)
      BY <1>1, <3>2
    <3>4. IsFiniteSet(s) /\ IsFiniteSet(s \cap S) /\ IsFiniteSet(r \cap S)
      BY <3>2, FS_Subset
    <3>5. Total(f, s) = f[x] + Total(f, r)
      BY <3>1, <3>4, TotalTakes
    <3>6. CASE x \in S
      <4>1. (s \cap S) \ {x} = r \cap S /\ x \in s \cap S
        BY <3>1, <3>6
      <4>2. Total(f, s \cap S) = f[x] + Total(f, (s \cap S) \ {x})
        BY <3>4, <4>1, TotalTakes
      <4>3. Total(f, s) = Total(f, s \cap S)
        BY <3>3, <3>5, <4>1, <4>2, Zenon
      <4> QED
        BY <4>3
    <3>7. CASE x \notin S
      <4>1. r \cap S = s \cap S /\ f[x] = 0
        BY <3>2, <3>7
      <4>2. Total(f, r \cap S) \in Nat
        BY <3>4, TotalTakes
      <4>3. Total(f, s) = Total(f, r \cap S)
        <5>1. Total(f, s) = 0 + Total(f, r \cap S)
          BY <3>3, <3>5, <4>1, Zenon
        <5> QED
          BY <4>2, <5>1, SMT
      <4>4. Total(f, s) = Total(f, s \cap S)
        BY <4>1, <4>3, Zenon
      <4> QED
        BY <4>4
    <3> QED
      BY <3>6, <3>7
  <2> QED
    BY <2>1, <2>2
<1>2. \A s \in SUBSET D : s \in G
  <2> HIDE DEF G
  <2> QED
    BY <1>1, Subsets
<1>3. D \cap S = S
  OBVIOUS
<1>4. D \in G
  BY <1>2
<1> QED
  BY <1>3, <1>4

(* One element's value changes.                                            *)
LEMMA TotalUpdate ==
    ASSUME NEW D, IsFiniteSet(D), NEW x \in D, NEW f, NEW e,
           \A y \in D : f[y] \in Nat /\ e[y] \in Nat /\ (y # x => e[y] = f[y])
    PROVE  /\ Total(f, D) \in Nat /\ f[x] <= Total(f, D)
           /\ Total(e, D) = Total(f, D) - f[x] + e[x]
<1>1. /\ \A y \in D : f[y] \in Nat
      /\ \A y \in D : e[y] \in Nat
      /\ \A y \in D \ {x} : f[y] \in Nat
      /\ \A y \in D \ {x} : e[y] = f[y]
      /\ f[x] \in Nat /\ e[x] \in Nat
  OBVIOUS
<1>2. IsFiniteSet(D \ {x})
  BY FS_RemoveElement
<1>3. Total(f, D) \in Nat /\ Total(f, D) = f[x] + Total(f, D \ {x})
  BY <1>1, TotalTakes
<1>4. Total(f, D \ {x}) \in Nat
  BY <1>1, <1>2, TotalTakes
<1>5. Total(e, D) = e[x] + Total(e, D \ {x})
  BY <1>1, TotalTakes
<1>6. Total(e, D \ {x}) = Total(f, D \ {x})
  BY <1>1, <1>2, TotalSame
<1> QED
  BY <1>1, <1>3, <1>4, <1>5, <1>6, SMT

(***************************************************************************)
(* The bytes alive.  A call adds to bytes_live after it has written the    *)
(* header, and subtracts before it gives the block back: in between, the   *)
(* share of its block in bytes_live differs from the header by `delta'.    *)
(***************************************************************************)

Subtracting(t) == pc[t] \in {"sub_load", "sub_cas"}

Settled(p) == \A t \in Threads : ptr[t] = p => pc[t] # "add_live" /\ ~Subtracting(t)

(* acc[p] is the share of block p in bytes_live.                           *)
Accounted(acc) ==
    /\ acc \in [Ptrs -> Nat] /\ bytes_live = Total(acc, Ptrs)
    /\ \A p \in Ptrs : hdr[p] = NoHdr => acc[p] = 0
    /\ \A p \in Ptrs : hdr[p] # NoHdr /\ Settled(p) => acc[p] = hdr[p]
    /\ \A t \in Threads :
         /\ pc[t] = "add_live" => hdr[ptr[t]] = acc[ptr[t]] + delta[t]
         /\ Subtracting(t) =>
              acc[ptr[t]] = delta[t] + (IF op[t] = "free" THEN 0 ELSE hdr[ptr[t]])
         /\ pc[t] = "count_free" => op[t] = "free"

LiveInv == \E acc : Accounted(acc)

(* The steps that leave every block and every pending difference alone.    *)
LEMMA LiveFrame ==
    ASSUME LiveInv, UNCHANGED <<bytes_live, hdr>>,
           \A t \in Threads :
             /\ (pc'[t] = "add_live") <=> (pc[t] = "add_live")
             /\ pc'[t] \in {"sub_load", "sub_cas"} <=> pc[t] \in {"sub_load", "sub_cas"}
             /\ pc[t] \in {"add_live", "sub_load", "sub_cas"} =>
                  ptr'[t] = ptr[t] /\ delta'[t] = delta[t] /\ op'[t] = op[t]
             /\ pc'[t] = "count_free" => op'[t] = "free"
    PROVE  LiveInv'
<1>1. PICK acc : Accounted(acc)
  BY DEF LiveInv
<1>2. ASSUME NEW p \in Ptrs, Settled(p)' PROVE Settled(p)
  BY <1>2 DEF Settled, Subtracting
<1>3. \A p \in Ptrs : hdr'[p] # NoHdr /\ Settled(p)' => acc[p] = hdr'[p]
  BY <1>1, <1>2 DEF Accounted
<1>4. Accounted(acc)'
  BY <1>1, <1>3 DEF Accounted, Subtracting
<1> QED
  BY <1>4 DEF LiveInv

(* One block p, on which only thread t works, gets its share corrected.    *)
LEMMA LiveChange ==
    ASSUME TypeInv, NEW acc, Accounted(acc), NEW t \in Threads, NEW p \in Ptrs, NEW n \in Nat,
           bytes_live' = bytes_live - acc[p] + n,
           \A q \in Ptrs : q # p => hdr'[q] = hdr[q],
           ptr'[t] = p,
           \A u \in Threads : u # t =>
             /\ pc'[u] = pc[u] /\ ptr'[u] = ptr[u] /\ delta'[u] = delta[u] /\ op'[u] = op[u]
             /\ pc[u] \in {"add_live", "sub_load", "sub_cas"} => ptr[u] # p,
           ptr[t] # p => pc[t] \notin {"add_live", "sub_load", "sub_cas"},
           hdr'[p] = NoHdr => n = 0,
           hdr'[p] # NoHdr /\ pc'[t] \notin {"add_live", "sub_load", "sub_cas"} => n = hdr'[p],
           pc'[t] = "add_live" => hdr'[p] = n + delta'[t],
           pc'[t] \in {"sub_load", "sub_cas"} =>
             n = delta'[t] + (IF op'[t] = "free" THEN 0 ELSE hdr'[p]),
           pc'[t] # "count_free"
    PROVE  LiveInv'
<1> DEFINE new == [acc EXCEPT ![p] = n]
<1>1. new \in [Ptrs -> Nat] /\ new[p] = n /\ \A q \in Ptrs : q # p => new[q] = acc[q]
  BY DEF Accounted
<1> HIDE DEF new
<1>2. bytes_live' = Total(new, Ptrs)
  <2>1. bytes_live = Total(acc, Ptrs) /\ acc \in [Ptrs -> Nat] /\ IsFiniteSet(Ptrs)
    BY AllocAssumption DEF Accounted
  <2>2. \A q \in Ptrs : acc[q] \in Nat /\ new[q] \in Nat /\ (q # p => new[q] = acc[q])
    BY <1>1, <2>1
  <2>3. Total(new, Ptrs) = Total(acc, Ptrs) - acc[p] + new[p]
    BY ONLY <2>1, <2>2, p \in Ptrs, TotalUpdate
  <2> QED
    BY <1>1, <2>1, <2>3
<1>3. \A q \in Ptrs : hdr'[q] = NoHdr => new[q] = 0
  BY <1>1 DEF Accounted
<1>4. ASSUME NEW q \in Ptrs, hdr'[q] # NoHdr, Settled(q)' PROVE new[q] = hdr'[q]
  <2>1. CASE q = p
    BY <1>1, <1>4, <2>1 DEF Settled, Subtracting
  <2>2. CASE q # p
    <3>1. Settled(q)
      BY <1>4, <2>2 DEF Settled, Subtracting
    <3> QED
      BY <1>1, <1>4, <2>2, <3>1 DEF Accounted
  <2> QED
    BY <2>1, <2>2
<1>5. ASSUME NEW u \in Threads
      PROVE  /\ pc'[u] = "add_live" => hdr'[ptr'[u]] = new[ptr'[u]] + delta'[u]
             /\ Subtracting(u)' =>
                  new[ptr'[u]] = delta'[u] + (IF op'[u] = "free" THEN 0 ELSE hdr'[ptr'[u]])
             /\ pc'[u] = "count_free" => op'[u] = "free"
  <2>1. CASE u = t
    BY <1>1, <2>1 DEF Subtracting
  <2>2. CASE u # t
    <3>1. pc[u] \in {"add_live", "sub_load", "sub_cas"} => ptr[u] \in Ptrs
      BY DEF TypeInv, BlockThere, Working
    <3> QED
      BY <1>1, <2>2, <3>1 DEF Subtracting, Accounted
  <2> QED
    BY <2>1, <2>2
<1>6. Accounted(new)'
  BY <1>1, <1>2, <1>3, <1>4, <1>5 DEF Accounted
<1> QED
  BY <1>6 DEF LiveInv

(* What a working call may assume: its block is there and is its own.      *)
LEMMA OwnBlock ==
    ASSUME TypeInv, NEW t \in Threads, Working(t)
    PROVE  /\ ptr[t] \in Ptrs /\ hdr[ptr[t]] \in Nat /\ hdr[ptr[t]] # NoHdr
           /\ \A u \in Threads : u # t /\ pc[u] # "idle" => ptr[u] # ptr[t]
BY NoPtrAssumption DEF TypeInv, TypeOK, BlockThere, NoSharing, Working

(* A call that has no difference pending finds its block settled.          *)
LEMMA OwnShare ==
    ASSUME TypeInv, NEW acc, Accounted(acc), NEW t \in Threads, Working(t),
           pc[t] \notin {"add_live", "sub_load", "sub_cas"}
    PROVE  acc[ptr[t]] = hdr[ptr[t]]
<1>1. Settled(ptr[t])
  BY OwnBlock DEF Settled, Subtracting
<1> QED
  BY <1>1, OwnBlock DEF Accounted

LEMMA LiveStep == TypeInv /\ LiveInv /\ [Next]_vars => LiveInv'
<1> SUFFICES ASSUME TypeInv, LiveInv, [Next]_vars PROVE LiveInv'
  OBVIOUS
<1>0. PICK acc : Accounted(acc)
  BY DEF LiveInv
<1>a. acc \in [Ptrs -> Nat] /\ bytes_live \in Nat
  BY <1>0 DEF Accounted, TypeInv, TypeOK
<1>1. ASSUME NEW t \in Threads, NEW o, NEW p, NEW n, Call(t, o, p, n),
             NEW l \in {"fault_load", "count_free"}, Goto(t, l), l = "count_free" => o = "free"
      PROVE  LiveInv'
  BY <1>1, <1>0, LiveFrame DEF TypeInv, TypeOK, Call, Goto, stats, Accounted
<1>2. ASSUME NEW t \in Threads, fault_load(t) \/ fault_test(t) \/ NoMemory(t) PROVE LiveInv'
  <2> USE DEF TypeInv, TypeOK
  <2>1. CASE fault_load(t)
    BY <2>1, <1>0, LiveFrame DEF fault_load, Goto, stats, Accounted
  <2>2. CASE fault_test(t)
    BY <2>2, <1>0, LiveFrame DEF fault_test, Goto, Allowed, stats, Accounted
  <2>3. CASE NoMemory(t)
    BY <2>3, <1>0, LiveFrame DEF NoMemory, Goto, stats, locals, Accounted
  <2> QED
    BY <1>2, <2>1, <2>2, <2>3
<1>3. ASSUME NEW t \in Threads, Malloc(t) PROVE LiveInv'
  <2>1. PICK p \in Ptrs \ Busy : hdr[p] = NoHdr /\ hdr' = [hdr EXCEPT ![p] = size[t]]
                                 /\ ptr' = [ptr EXCEPT ![t] = p]
    BY <1>3 DEF Malloc
  <2>2. acc[p] = 0
    BY <1>0, <2>1 DEF Accounted
  <2>3. \A u \in Threads : pc[u] # "idle" => ptr[u] # p
    BY <2>1 DEF Busy
  <2>4. bytes_live' = bytes_live - acc[p] + 0
    BY <1>3, <1>a, <2>2 DEF Malloc
  <2>5. /\ ptr'[t] = p /\ pc'[t] = "add_live" /\ hdr'[p] = 0 + delta'[t]
        /\ hdr'[p] # NoHdr /\ pc[t] = "allocate"
        /\ \A q \in Ptrs : q # p => hdr'[q] = hdr[q]
        /\ \A u \in Threads : u # t =>
             pc'[u] = pc[u] /\ ptr'[u] = ptr[u] /\ delta'[u] = delta[u] /\ op'[u] = op[u]
    BY <1>3, <2>1 DEF Malloc, Goto, TypeInv, TypeOK
  <2> QED
    BY <1>0, <2>1, <2>3, <2>4, <2>5, LiveChange
<1>4. ASSUME NEW t \in Threads, Realloc(t) PROVE LiveInv'
  <2> DEFINE p == ptr[t]
  <2>1. Working(t) /\ pc[t] = "allocate"
    BY <1>4 DEF Realloc, Working
  <2>2. /\ p \in Ptrs /\ hdr[p] \in Nat /\ acc[p] = hdr[p]
        /\ \A u \in Threads : u # t /\ pc[u] # "idle" => ptr[u] # p
    BY <1>0, <2>1, OwnBlock, OwnShare
  <2>3. bytes_live' = bytes_live - acc[p] + acc[p]
    BY <1>4, <1>a, <2>2 DEF Realloc
  <2>4. /\ ptr'[t] = p /\ hdr'[p] # NoHdr /\ size[t] \in Nat
        /\ \A q \in Ptrs : q # p => hdr'[q] = hdr[q]
        /\ \A u \in Threads : u # t =>
             pc'[u] = pc[u] /\ ptr'[u] = ptr[u] /\ delta'[u] = delta[u] /\ op'[u] = op[u]
    BY <1>4, <2>2 DEF Realloc, Goto, TypeInv, TypeOK
  <2>5. \/ pc'[t] = "add_live" /\ hdr'[p] = acc[p] + delta'[t]
        \/ pc'[t] = "sub_load" /\ op'[t] # "free" /\ acc[p] = delta'[t] + hdr'[p]
    BY <1>4, <2>2 DEF Realloc, Goto, TypeInv, TypeOK
  <2> HIDE DEF p
  <2>6. acc[p] \in Nat
    BY <1>a, <2>2
  <2> QED
    BY <1>0, <2>1, <2>2, <2>3, <2>4, <2>5, <2>6, LiveChange
<1>5. ASSUME NEW t \in Threads, add_live(t) PROVE LiveInv'
  <2> DEFINE p == ptr[t]
  <2>1. Working(t) /\ pc[t] = "add_live"
    BY <1>5 DEF add_live, Working
  <2>2. /\ p \in Ptrs /\ hdr[p] \in Nat /\ hdr[p] # NoHdr
        /\ \A u \in Threads : u # t /\ pc[u] # "idle" => ptr[u] # p
    BY <2>1, OwnBlock
  <2>3. hdr[p] = acc[p] + delta[t] /\ acc[p] \in Nat /\ delta[t] \in Nat
    BY <1>0, <1>a, <2>1, <2>2 DEF Accounted, TypeInv, TypeOK
  <2>4. bytes_live' = bytes_live - acc[p] + hdr[p]
    BY <1>5, <1>a, <2>3 DEF add_live
  <2>5. /\ ptr'[t] = p /\ ptr[t] = p /\ pc'[t] = "peak_load"
        /\ hdr'[p] = hdr[p] /\ \A q \in Ptrs : q # p => hdr'[q] = hdr[q]
        /\ \A u \in Threads : u # t =>
             pc'[u] = pc[u] /\ ptr'[u] = ptr[u] /\ delta'[u] = delta[u] /\ op'[u] = op[u]
    BY <1>5 DEF add_live, Goto, TypeInv, TypeOK
  <2> HIDE DEF p
  <2> QED
    BY <1>0, <2>1, <2>2, <2>4, <2>5, LiveChange
<1>6. ASSUME NEW t \in Threads, peak_load(t) \/ peak_test(t) PROVE LiveInv'
  <2> USE DEF TypeInv, TypeOK
  <2>1. CASE peak_load(t)
    BY <2>1, <1>0, LiveFrame DEF peak_load, Goto, stats, Accounted
  <2>2. CASE peak_test(t)
    BY <2>2, <1>0, LiveFrame DEF peak_test, Goto, Accounted
  <2> QED
    BY <1>6, <2>1, <2>2
<1>7. ASSUME NEW t \in Threads, count_free(t) PROVE LiveInv'
  <2> DEFINE p == ptr[t]
  <2>1. Working(t) /\ pc[t] = "count_free" /\ op[t] = "free"
    BY <1>0, <1>7 DEF count_free, Working, Accounted
  <2>2. /\ p \in Ptrs /\ hdr[p] \in Nat /\ hdr[p] # NoHdr /\ acc[p] = hdr[p]
        /\ \A u \in Threads : u # t /\ pc[u] # "idle" => ptr[u] # p
    BY <1>0, <2>1, OwnBlock, OwnShare
  <2>3. bytes_live' = bytes_live - acc[p] + acc[p]
    BY <1>7, <1>a, <2>2 DEF count_free
  <2>4. /\ ptr'[t] = p /\ ptr[t] = p /\ pc'[t] = "sub_load" /\ op'[t] = "free"
        /\ hdr'[p] = hdr[p] /\ \A q \in Ptrs : q # p => hdr'[q] = hdr[q]
        /\ acc[p] = delta'[t] + (IF op'[t] = "free" THEN 0 ELSE hdr'[p])
        /\ \A u \in Threads : u # t =>
             pc'[u] = pc[u] /\ ptr'[u] = ptr[u] /\ delta'[u] = delta[u] /\ op'[u] = op[u]
    BY <1>7, <2>1, <2>2 DEF count_free, Goto, TypeInv, TypeOK
  <2> HIDE DEF p
  <2> QED
    BY <1>0, <2>1, <2>2, <2>3, <2>4, LiveChange
<1>8. ASSUME NEW t \in Threads, sub_load(t) PROVE LiveInv'
  BY <1>8, <1>0, LiveFrame DEF sub_load, Goto, stats, Accounted, TypeInv, TypeOK
<1>9. ASSUME NEW t \in Threads, sub_cas(t) PROVE LiveInv'
  <2>1. CASE seen' = [seen EXCEPT ![t] = bytes_live] /\ UNCHANGED <<bytes_live, hdr, pc>>
    BY <1>9, <2>1, <1>0, LiveFrame DEF sub_cas, Accounted
  <2>2. CASE /\ bytes_live = seen[t]
             /\ bytes_live' = IF seen[t] >= delta[t] THEN seen[t] - delta[t] ELSE 0
             /\ hdr' = IF op[t] = "free" THEN [hdr EXCEPT ![ptr[t]] = NoHdr] ELSE hdr
             /\ Goto(t, "idle")
    <3> DEFINE p == ptr[t]
               n == IF op[t] = "free" THEN 0 ELSE hdr[p]
    <3>1. Working(t) /\ pc[t] = "sub_cas" /\ Subtracting(t)
      BY <1>9 DEF sub_cas, Working, Subtracting
    <3>2. /\ p \in Ptrs /\ hdr[p] \in Nat /\ hdr[p] # NoHdr
          /\ \A u \in Threads : u # t /\ pc[u] # "idle" => ptr[u] # p
      BY <3>1, OwnBlock
    <3>3. acc[p] = delta[t] + n /\ acc[p] \in Nat /\ delta[t] \in Nat /\ n \in Nat
      BY <1>0, <1>a, <3>1, <3>2 DEF Accounted, TypeInv, TypeOK
    <3>4. acc[p] <= bytes_live
      <4>1. bytes_live = Total(acc, Ptrs) /\ IsFiniteSet(Ptrs)
        BY <1>0, AllocAssumption DEF Accounted
      <4>2. \A q \in Ptrs : acc[q] \in Nat /\ acc[q] \in Nat /\ (q # p => acc[q] = acc[q])
        BY <1>a
      <4> HIDE DEF p
      <4>3. acc[p] <= Total(acc, Ptrs)
        BY ONLY <3>2, <4>1, <4>2, TotalUpdate
      <4> QED
        BY <4>1, <4>3
    <3>5. bytes_live' = bytes_live - acc[p] + n
      <4> HIDE DEF p, n
      <4> QED
        BY <1>a, <2>2, <3>3, <3>4
    <3>6. /\ ptr'[t] = p /\ ptr[t] = p /\ pc'[t] = "idle"
          /\ \A q \in Ptrs : q # p => hdr'[q] = hdr[q]
          /\ hdr'[p] = NoHdr => n = 0
          /\ hdr'[p] # NoHdr => n = hdr'[p]
          /\ \A u \in Threads : u # t =>
               pc'[u] = pc[u] /\ ptr'[u] = ptr[u] /\ delta'[u] = delta[u] /\ op'[u] = op[u]
      BY <1>9, <2>2, <3>2 DEF sub_cas, Goto, TypeInv, TypeOK
    <3> HIDE DEF p, n
    <3> QED
      BY <1>0, <3>1, <3>2, <3>3, <3>5, <3>6, LiveChange
  <2> QED
    BY <1>9, <2>1, <2>2 DEF sub_cas
<1>10. ASSUME NEW n, Arm(n) PROVE LiveInv'
  BY <1>10, <1>0, LiveFrame DEF Arm, stats, locals, Accounted
<1>11. CASE UNCHANGED vars
  BY <1>11, <1>0, LiveFrame DEF vars, stats, locals, Accounted
<1> QED
  BY <1>1, <1>2, <1>3, <1>4, <1>5, <1>6, <1>7, <1>8, <1>9, <1>10, <1>11
  DEF Next, Step, mmalloc, mfree, mrealloc, set_mem_fault_countdown, clear_mem_fault

(***************************************************************************)
(* The blocks alive.  free_mem_stats counts a block as freed when its call *)
(* begins to subtract, before the heap gets the block back.                *)
(***************************************************************************)

Counted ==
    {p \in Ptrs : /\ hdr[p] # NoHdr
                  /\ \A t \in Threads : ptr[t] = p /\ op[t] = "free" => ~Subtracting(t)}

CountInv == alloc_count = free_count + Cardinality(Counted)

LEMMA CountedFinite == IsFiniteSet(Counted) /\ Cardinality(Counted) \in Nat
<1>1. IsFiniteSet(Counted)
  BY AllocAssumption, FS_Subset DEF Counted
<1> QED
  BY <1>1, FS_CardinalityType

(* The steps after which the same blocks count as alive.                   *)
LEMMA CountFrame ==
    ASSUME CountInv, UNCHANGED <<alloc_count, free_count>>,
           \A p \in Ptrs : hdr'[p] = NoHdr <=> hdr[p] = NoHdr,
           \A t \in Threads :
             /\ pc'[t] \in {"sub_load", "sub_cas"} <=> pc[t] \in {"sub_load", "sub_cas"}
             /\ pc[t] \in {"sub_load", "sub_cas"} => ptr'[t] = ptr[t] /\ op'[t] = op[t]
    PROVE  CountInv'
<1>1. ASSUME NEW p \in Ptrs PROVE p \in Counted' <=> p \in Counted
  BY DEF Counted, Subtracting
<1>2. Counted' = Counted
  BY <1>1 DEF Counted
<1> QED
  BY <1>2 DEF CountInv

LEMMA CountStep == TypeInv /\ LiveInv /\ CountInv /\ [Next]_vars => CountInv'
<1> SUFFICES ASSUME TypeInv, LiveInv, CountInv, [Next]_vars PROVE CountInv'
  OBVIOUS
<1>0. /\ alloc_count \in Nat /\ free_count \in Nat
      /\ IsFiniteSet(Counted) /\ Cardinality(Counted) \in Nat
  BY CountedFinite DEF TypeInv, TypeOK
<1>1. ASSUME NEW t \in Threads, NEW o, NEW p, NEW n, Call(t, o, p, n),
             NEW l \in {"fault_load", "count_free"}, Goto(t, l)
      PROVE  CountInv'
  BY <1>1, CountFrame DEF TypeInv, TypeOK, Call, Goto, stats
<1>2. ASSUME NEW t \in Threads, fault_load(t) \/ fault_test(t) \/ NoMemory(t) PROVE CountInv'
  <2> USE DEF TypeInv, TypeOK
  <2>1. CASE fault_load(t)
    BY <2>1, CountFrame DEF fault_load, Goto, stats
  <2>2. CASE fault_test(t)
    BY <2>2, CountFrame DEF fault_test, Goto, Allowed, stats
  <2>3. CASE NoMemory(t)
    BY <2>3, CountFrame DEF NoMemory, Goto, stats, locals
  <2> QED
    BY <1>2, <2>1, <2>2, <2>3
<1>3. ASSUME NEW t \in Threads, Malloc(t) PROVE CountInv'
  <2>1. PICK p \in Ptrs \ Busy : hdr[p] = NoHdr /\ hdr' = [hdr EXCEPT ![p] = size[t]]
                                 /\ ptr' = [ptr EXCEPT ![t] = p]
    BY <1>3 DEF Malloc
  <2>2. \A u \in Threads : pc[u] # "idle" => ptr[u] # p
    BY <2>1 DEF Busy
  <2>3. /\ pc[t] = "allocate" /\ pc'[t] = "add_live" /\ op' = op /\ ptr'[t] = p
        /\ hdr'[p] # NoHdr /\ \A q \in Ptrs : q # p => hdr'[q] = hdr[q]
        /\ \A u \in Threads : u # t => pc'[u] = pc[u] /\ ptr'[u] = ptr[u]
    BY <1>3, <2>1 DEF Malloc, Goto, TypeInv, TypeOK
  <2>4. p \notin Counted
    BY <2>1 DEF Counted
  <2>5. ASSUME NEW q \in Ptrs PROVE q \in Counted' <=> q \in Counted \cup {p}
    <3>1. CASE q = p
      BY <2>2, <2>3, <3>1 DEF Counted, Subtracting
    <3>2. CASE q # p
      BY <2>3, <3>2 DEF Counted, Subtracting
    <3> QED
      BY <3>1, <3>2
  <2>6. Counted' = Counted \cup {p}
    BY <2>1, <2>5 DEF Counted
  <2>7. Cardinality(Counted \cup {p}) = Cardinality(Counted) + 1
    BY <1>0, <2>4, FS_AddElement
  <2>8. alloc_count' = alloc_count + 1 /\ free_count' = free_count
    BY <1>3 DEF Malloc
  <2> QED
    BY <1>0, <2>6, <2>7, <2>8 DEF CountInv
<1>4. ASSUME NEW t \in Threads, Realloc(t) PROVE CountInv'
  <2>1. Working(t) /\ pc[t] = "allocate" /\ op[t] = "realloc"
    BY <1>4 DEF Realloc, Working
  <2>2. ptr[t] \in Ptrs /\ hdr[ptr[t]] # NoHdr
    BY <2>1, OwnBlock
  <2>3. /\ \A q \in Ptrs : hdr'[q] = NoHdr <=> hdr[q] = NoHdr
        /\ op' = op /\ ptr' = ptr /\ UNCHANGED <<alloc_count, free_count>>
        /\ \A u \in Threads : u # t => pc'[u] = pc[u]
    BY <1>4, <2>2 DEF Realloc, Goto, TypeInv, TypeOK
  <2>4. ASSUME NEW q \in Ptrs PROVE q \in Counted' <=> q \in Counted
    BY <2>1, <2>3 DEF Counted, Subtracting
  <2>5. Counted' = Counted
    BY <2>4 DEF Counted
  <2> QED
    BY <2>3, <2>5 DEF CountInv
<1>5. ASSUME NEW t \in Threads, add_live(t) \/ peak_load(t) \/ peak_test(t) \/ sub_load(t)
      PROVE  CountInv'
  <2> USE DEF TypeInv, TypeOK
  <2>1. CASE add_live(t)
    BY <2>1, CountFrame DEF add_live, Goto
  <2>2. CASE peak_load(t)
    BY <2>2, CountFrame DEF peak_load, Goto, stats
  <2>3. CASE peak_test(t)
    BY <2>3, CountFrame DEF peak_test, Goto
  <2>4. CASE sub_load(t)
    BY <2>4, CountFrame DEF sub_load, Goto, stats
  <2> QED
    BY <1>5, <2>1, <2>2, <2>3, <2>4
<1>6. ASSUME NEW t \in Threads, count_free(t) PROVE CountInv'
  <2> DEFINE p == ptr[t]
  <2>1. Working(t) /\ pc[t] = "count_free" /\ op[t] = "free"
    BY <1>6 DEF count_free, Working, LiveInv, Accounted
  <2>2. /\ p \in Ptrs /\ hdr[p] # NoHdr
        /\ \A u \in Threads : u # t /\ pc[u] # "idle" => ptr[u] # p
    BY <2>1, OwnBlock
  <2>3. /\ pc'[t] = "sub_load" /\ op' = op /\ ptr' = ptr /\ hdr' = hdr
        /\ \A u \in Threads : u # t => pc'[u] = pc[u]
        /\ alloc_count' = alloc_count /\ free_count' = free_count + 1
    BY <1>6 DEF count_free, Goto, TypeInv, TypeOK
  <2>4. p \in Counted
    BY <2>1, <2>2 DEF Counted, Subtracting
  <2>5. ASSUME NEW q \in Ptrs PROVE q \in Counted' <=> q \in Counted \ {p}
    <3>1. CASE q = p
      BY <2>1, <2>3, <3>1 DEF Counted, Subtracting
    <3>2. CASE q # p
      BY <2>1, <2>3, <3>2 DEF Counted, Subtracting
    <3> QED
      BY <3>1, <3>2
  <2>6. Counted' = Counted \ {p}
    BY <2>5 DEF Counted
  <2>7. Cardinality(Counted \ {p}) = Cardinality(Counted) - 1
    BY <1>0, <2>4, FS_RemoveElement
  <2> QED
    BY <1>0, <2>3, <2>6, <2>7 DEF CountInv
<1>7. ASSUME NEW t \in Threads, sub_cas(t) PROVE CountInv'
  <2>1. CASE UNCHANGED <<bytes_live, hdr, pc>>
    BY <1>7, <2>1, CountFrame DEF sub_cas
  <2>2. CASE /\ hdr' = IF op[t] = "free" THEN [hdr EXCEPT ![ptr[t]] = NoHdr] ELSE hdr
             /\ Goto(t, "idle")
    <3> DEFINE p == ptr[t]
    <3>1. Working(t) /\ pc[t] = "sub_cas"
      BY <1>7 DEF sub_cas, Working
    <3>2. p \in Ptrs /\ \A u \in Threads : u # t /\ pc[u] # "idle" => ptr[u] # p
      BY <3>1, OwnBlock
    <3>3. /\ pc'[t] = "idle" /\ op' = op /\ ptr' = ptr
          /\ \A q \in Ptrs : q # p => hdr'[q] = hdr[q]
          /\ hdr'[p] = IF op[t] = "free" THEN NoHdr ELSE hdr[p]
          /\ \A u \in Threads : u # t => pc'[u] = pc[u]
          /\ UNCHANGED <<alloc_count, free_count>>
      BY <1>7, <2>2, <3>2 DEF sub_cas, Goto, TypeInv, TypeOK
    <3>4. ASSUME NEW q \in Ptrs PROVE q \in Counted' <=> q \in Counted
      <4>1. CASE q = p
        BY <3>1, <3>2, <3>3, <4>1 DEF Counted, Subtracting
      <4>2. CASE q # p
        BY <3>1, <3>3, <4>2 DEF Counted, Subtracting
      <4> QED
        BY <4>1, <4>2
    <3>5. Counted' = Counted
      BY <3>4 DEF Counted
    <3> QED
      BY <3>3, <3>5 DEF CountInv
  <2> QED
    BY <1>7, <2>1, <2>2 DEF sub_cas
<1>8. ASSUME NEW n, Arm(n) PROVE CountInv'
  BY <1>8, CountFrame DEF Arm, stats, locals
<1>9. CASE UNCHANGED vars
  BY <1>9, CountFrame DEF vars, stats, locals
<1> QED
  BY <1>1, <1>2, <1>3, <1>4, <1>5, <1>6, <1>7, <1>8, <1>9
  DEF Next, Step, mmalloc, mfree, mrealloc, set_mem_fault_countdown, clear_mem_fault

LEMMA LiveInit == Init => LiveInv /\ CountInv
<1> SUFFICES ASSUME Init PROVE LiveInv /\ CountInv
  OBVIOUS
<1> DEFINE none == [p \in Ptrs |-> 0]
<1>1. IsFiniteSet(Ptrs) /\ {} \in SUBSET Ptrs
  BY AllocAssumption
<1>2. (\A x \in Ptrs : none[x] \in Nat) /\ \A x \in Ptrs \ {} : none[x] = 0
  OBVIOUS
<1>3. Total(none, Ptrs) = 0
  <2> HIDE DEF none
  <2>1. Total(none, Ptrs) = Total(none, {})
    BY <1>1, <1>2, TotalOfSome
  <2>2. Total(none, {}) = 0
    <3>1. IsFiniteSet({}) /\ \A x \in {} : none[x] \in Nat
      BY FS_EmptySet
    <3> QED
      BY <3>1, TotalTakes
  <2> QED
    BY <2>1, <2>2
<1>4. none \in [Ptrs -> Nat] /\ \A p \in Ptrs : none[p] = 0
  OBVIOUS
<1> HIDE DEF none
<1>5. Accounted(none)
  BY <1>3, <1>4 DEF Init, Accounted, Subtracting
<1>6. Counted = {}
  BY DEF Init, Counted
<1> QED
  BY <1>5, <1>6, FS_EmptySet DEF LiveInv, CountInv, Init

(* Between calls nothing is pending: the shares are the headers.           *)
LEMMA LiveAtRest == TypeInv /\ LiveInv /\ CountInv => LiveIsSumOfBlocks
<1> SUFFICES ASSUME TypeInv, LiveInv, CountInv, Quiescent
             PROVE  bytes_live = Total(hdr, Held) /\ alloc_count = free_count + Cardinality(Held)
  BY DEF LiveIsSumOfBlocks, Total
<1>1. PICK acc : Accounted(acc)
  BY DEF LiveInv
<1>2. Busy = {} /\ \A p \in Ptrs : Settled(p)
  BY DEF Quiescent, Busy, Settled, Subtracting
<1>3. Held = Counted
  BY <1>2 DEF Held, Counted, Quiescent, Subtracting
<1>4. /\ acc \in [Ptrs -> Nat] /\ bytes_live = Total(acc, Ptrs) /\ Held \in SUBSET Ptrs
      /\ \A p \in Ptrs \ Held : acc[p] = 0
      /\ \A p \in Held : acc[p] = hdr[p]
  BY <1>1, <1>2 DEF Accounted, Held
<1>5. IsFiniteSet(Ptrs) /\ IsFiniteSet(Held) /\ \A p \in Ptrs : acc[p] \in Nat
  BY <1>4, AllocAssumption, FS_Subset
<1>6. Total(acc, Ptrs) = Total(acc, Held)
  BY <1>4, <1>5, TotalOfSome
<1>7. Total(acc, Held) = Total(hdr, Held)
  BY <1>4, <1>5, TotalSame
<1> QED
  BY <1>3, <1>4, <1>6, <1>7 DEF CountInv

(* However mmalloc, mrealloc and mfree of any number of threads interleave,
   once they have returned bytes_live is the sum of the sizes in the headers
   and the counts differ by the blocks alive: sub_mem_stats_live never
   saturates and no fetch_add is lost (alloc.c).                           *)
THEOREM LiveBytesExact == Spec => []LiveIsSumOfBlocks
<1>1. Init => TypeInv /\ LiveInv /\ CountInv
  BY TypeInvInit, LiveInit
<1>2. /\ TypeInv /\ LiveInv /\ CountInv /\ [Next]_vars
      => (TypeInv /\ LiveInv /\ CountInv)'
  BY TypeInvStep, LiveStep, CountStep
<1> QED
  BY <1>1, <1>2, LiveAtRest, PTL DEF Spec
=============================================================================
