------------------------- MODULE NetLifecycleProofs -------------------------
(***************************************************************************)
(* Theorems about NetLifecycle, for every number of workers and every set  *)
(* of threads that stop the server.                                        *)
(***************************************************************************)
EXTENDS NetLifecycle, TLAPS

Quiet == {"none", "exited"}

(* Which threads exist: those counted in started_threads; those before i   *)
(* have ended while they are joined, and all have once `joined' is set.    *)
ThreadsCounted ==
    /\ mpc \in {"none", "listen", "arrays", "running", "destroy"} => i = 0
    /\ mpc \in {"init", "create"} => i < NThreads
    /\ mpc \in {"none", "listen", "arrays", "init"} => started_threads = 0
    /\ mpc = "create" => started_threads = i
    /\ mpc \in {"wait", "destroy_wait"} => i <= started_threads
    /\ \A w \in Workers : w >= started_threads => wpc[w] = "none"
    /\ mpc \in {"wait", "destroy_wait"} => \A w \in Workers : w < i => wpc[w] = "exited"
    /\ joined => \A w \in Workers : wpc[w] \in Quiet
    /\ joined => mpc \in {"running", "destroy", "free", "destroyed"}
    /\ mpc = "free" => joined

(* What the start has allocated by the time it creates threads.            *)
MemoryReady ==
    /\ mpc \in {"listen", "arrays", "init", "create", "running", "wait", "destroy",
                "destroy_wait", "free"} => server \in heap
    /\ mpc \in {"init", "create"} => ctxs \in heap /\ threads \in heap
    /\ mpc = "init" => \A w \in Workers : w < i => Que(w) \in heap
    /\ mpc = "create" => \A w \in Workers : Que(w) \in heap

(* A call of stop past its exchange has set the flag; the owner's own call *)
(* returns before the server is freed.                                     *)
StopCalls ==
    /\ \A t \in Callers : call[t] # "none" => stopping
    /\ call[Main] = "wake" => mpc \in {"running", "destroy"}

IInv == TypeOK /\ ThreadsCounted /\ MemoryReady /\ StopCalls /\ WorkersUseLiveMemory /\ OneStopper

(* NextTurn stays among the workers.                                       *)
LEMMA TurnInRange ==
    ASSUME NEW k \in Workers
    PROVE  NextTurn(k) \in Workers /\ (k + 1 # NThreads => NextTurn(k) = k + 1)
           /\ (k + 1 = NThreads => NextTurn(k) = 0)
  BY LifecycleAssumption DEF NextTurn, Workers

(* The invariant holds initially.                                          *)
LEMMA InitInv == Init => IInv
<1> SUFFICES ASSUME Init PROVE IInv
  OBVIOUS
<1>1. TypeOK
  <2>1. 0 \in Workers
    BY LifecycleAssumption DEF Workers
  <2>2. stopping \in BOOLEAN /\ joined \in BOOLEAN
    BY Zenon DEF Init
  <2>3. i \in 0 .. NThreads /\ started_threads \in 0 .. NThreads
    BY LifecycleAssumption DEF Init
  <2>4. at \in [Callers -> Workers] /\ wake_fd \in [Workers -> {-1, 0, 1}]
    BY <2>1 DEF Init
  <2>5. /\ call \in [Callers -> {"none", "wake", "returned", "undefined"}]
        /\ wpc \in [Workers -> {"none", "start", "check", "wait", "exited"}]
    BY DEF Init
  <2> QED
    BY <2>2, <2>3, <2>4, <2>5 DEF Init, TypeOK
<1>2. ThreadsCounted /\ MemoryReady
  BY LifecycleAssumption DEF Init, ThreadsCounted, MemoryReady, Workers, Quiet
<1>3. StopCalls /\ WorkersUseLiveMemory /\ OneStopper
  BY DEF Init, StopCalls, WorkersUseLiveMemory, OneStopper, Callers
<1> QED
  BY <1>1, <1>2, <1>3 DEF IInv

(* Every step keeps the types.                                             *)
LEMMA TypeStep == IInv /\ [Next]_vars => TypeOK'
<1> SUFFICES ASSUME IInv, [Next]_vars PROVE TypeOK'
  OBVIOUS
<1> USE LifecycleAssumption DEF IInv
<1>1. CASE Start
  <2>1. CASE init_tscontext
    <3>1. i \in Workers /\ i' \in Workers
      BY <2>1, TurnInRange DEF init_tscontext, TypeOK, ThreadsCounted, Workers
    <3>2. i' \in 0 .. NThreads
      BY <3>1 DEF Workers
    <3>3. stopping' \in BOOLEAN /\ joined' \in BOOLEAN
      BY <2>1, Zenon DEF init_tscontext, TypeOK, fields
    <3> QED
      BY <2>1, <3>1, <3>2, <3>3 DEF init_tscontext, TypeOK, stop, fields
  <2>2. CASE create_worker_thread
    <3>1. i \in Workers /\ NextTurn(i) \in Workers /\ started_threads = i
      BY <2>2, TurnInRange DEF create_worker_thread, TypeOK, ThreadsCounted, Workers
    <3>2. i' \in 0 .. NThreads /\ started_threads' \in 0 .. NThreads
      BY <2>2, <3>1 DEF Workers, create_worker_thread
    <3>3. stopping' \in BOOLEAN /\ joined' \in BOOLEAN
      BY <2>2, Zenon DEF create_worker_thread, TypeOK
    <3> QED
      BY <2>2, <3>1, <3>2, <3>3 DEF create_worker_thread, TypeOK, stop
  <2> QED
    BY <1>1, <2>1, <2>2
       DEF Start, start_calloc, listen_tcp, alloc_arrays, create_worker_fails, TypeOK,
           ThreadsCounted, Workers, stop, fields, context
<1>2. CASE Destroy
  <2>1. stopping' \in BOOLEAN /\ joined' \in BOOLEAN
    BY <1>2, Zenon DEF Destroy, destroy_stopped, join, free_server, TypeOK, fields
  <2>2. CASE join
    BY <2>1, <2>2 DEF join, TypeOK, ThreadsCounted, stop, context
  <2>3. CASE destroy_stopped \/ free_server
    BY <2>1, <2>3 DEF destroy_stopped, free_server, TypeOK, stop, fields, context
  <2> QED
    BY <1>2, <2>2, <2>3 DEF Destroy
<1>3. CASE net_server_wait \/ net_server_destroy
  BY <1>3 DEF net_server_wait, net_server_destroy, TypeOK, Callers, stop, fields, context
<1>4. ASSUME NEW t \in Callers, net_server_stop(t) \/ StopCall(t) PROVE TypeOK'
  <2>1. NextTurn(at[t]) \in Workers
    BY TurnInRange DEF TypeOK
  <2> QED
    BY <1>4, <2>1 DEF net_server_stop, StopCall, stop_wake, stop_use_after_free, TypeOK, mainv,
       context, fields
<1>5. ASSUME NEW w \in Workers, Worker(w) \/ worker_event(w) PROVE TypeOK'
  BY <1>5 DEF Worker, worker_start, worker_check, worker_woken, worker_event, TypeOK, mainv, stop,
     fields, context
<1>6. CASE UNCHANGED vars
  BY <1>6 DEF vars, mainv, stop, fields, context, TypeOK
<1> QED
  BY <1>1, <1>2, <1>3, <1>4, <1>5, <1>6 DEF Next

(* Every step keeps the count of the threads.                              *)
LEMMA ThreadsStep == IInv /\ [Next]_vars => ThreadsCounted'
<1> SUFFICES ASSUME IInv, [Next]_vars PROVE ThreadsCounted'
  OBVIOUS
<1> USE LifecycleAssumption DEF IInv, Workers
<1>1. CASE Start
  <2>1. CASE init_tscontext
    BY <2>1, TurnInRange DEF init_tscontext, TypeOK, ThreadsCounted, fields
  <2>2. CASE create_worker_thread
    BY <2>2, TurnInRange DEF create_worker_thread, TypeOK, ThreadsCounted
  <2> QED
    BY <1>1, <2>1, <2>2
       DEF Start, start_calloc, listen_tcp, alloc_arrays, create_worker_fails, TypeOK,
           ThreadsCounted, fields
<1>2. CASE Destroy
  <2>1. CASE join
    BY <2>1 DEF join, TypeOK, ThreadsCounted, Quiet
  <2>2. CASE destroy_stopped \/ free_server
    BY <2>2 DEF destroy_stopped, free_server, TypeOK, ThreadsCounted, fields
  <2> QED
    BY <1>2, <2>1, <2>2 DEF Destroy
<1>3. CASE net_server_wait \/ net_server_destroy
  BY <1>3 DEF net_server_wait, net_server_destroy, TypeOK, ThreadsCounted, fields
<1>4. ASSUME NEW t \in Callers, net_server_stop(t) \/ StopCall(t) PROVE ThreadsCounted'
  BY <1>4 DEF net_server_stop, StopCall, stop_wake, stop_use_after_free, ThreadsCounted, mainv,
     fields
<1>5. ASSUME NEW w \in Workers, Worker(w) \/ worker_event(w) PROVE ThreadsCounted'
  BY <1>5 DEF Worker, worker_start, worker_check, worker_woken, worker_event, TypeOK,
     ThreadsCounted, mainv, fields, Quiet
<1>6. CASE UNCHANGED vars
  BY <1>6 DEF vars, mainv, fields, ThreadsCounted
<1> QED
  BY <1>1, <1>2, <1>3, <1>4, <1>5, <1>6 DEF Next

(* Every step keeps the memory that running workers use.                   *)
LEMMA MemoryStep == IInv /\ [Next]_vars => MemoryReady' /\ WorkersUseLiveMemory'
<1> SUFFICES ASSUME IInv, [Next]_vars PROVE MemoryReady' /\ WorkersUseLiveMemory'
  OBVIOUS
<1> USE LifecycleAssumption DEF IInv, Workers
<1>1. CASE Start
  <2>1. CASE init_tscontext
    <3>1. i \in Workers
      BY <2>1 DEF init_tscontext, TypeOK, ThreadsCounted
    <3>2. WorkersUseLiveMemory'
      BY <2>1 DEF init_tscontext, WorkersUseLiveMemory
    <3>3. MemoryReady'
      BY <2>1, <3>1, TurnInRange DEF init_tscontext, MemoryReady
    <3> QED
      BY <3>2, <3>3
  <2>2. CASE create_worker_thread
    BY <2>2, TurnInRange DEF create_worker_thread, TypeOK, ThreadsCounted, MemoryReady,
       WorkersUseLiveMemory
  <2>3. CASE start_calloc \/ listen_tcp \/ create_worker_fails
    BY <2>3 DEF start_calloc, listen_tcp, create_worker_fails, TypeOK, ThreadsCounted,
       MemoryReady, WorkersUseLiveMemory
  <2>4. CASE alloc_arrays
    BY <2>4 DEF alloc_arrays, TypeOK, ThreadsCounted, MemoryReady, WorkersUseLiveMemory
  <2> QED
    BY <1>1, <2>1, <2>2, <2>3, <2>4 DEF Start
<1>2. CASE Destroy
  <2>1. CASE free_server
    BY <2>1 DEF free_server, ThreadsCounted, MemoryReady, WorkersUseLiveMemory, Quiet
  <2>2. CASE destroy_stopped \/ join
    BY <2>2 DEF destroy_stopped, join, MemoryReady, WorkersUseLiveMemory, memory
  <2> QED
    BY <1>2, <2>1, <2>2 DEF Destroy
<1>3. CASE net_server_wait \/ net_server_destroy
  BY <1>3 DEF net_server_wait, net_server_destroy, MemoryReady, WorkersUseLiveMemory, memory
<1>4. ASSUME NEW t \in Callers, net_server_stop(t) \/ StopCall(t)
      PROVE  MemoryReady' /\ WorkersUseLiveMemory'
  BY <1>4 DEF net_server_stop, StopCall, stop_wake, stop_use_after_free, MemoryReady,
     WorkersUseLiveMemory, mainv, memory
<1>5. ASSUME NEW w \in Workers, Worker(w) \/ worker_event(w)
      PROVE  MemoryReady' /\ WorkersUseLiveMemory'
  BY <1>5 DEF Worker, worker_start, worker_check, worker_woken, worker_event, TypeOK,
     MemoryReady, WorkersUseLiveMemory, mainv, memory
<1>6. CASE UNCHANGED vars
  BY <1>6 DEF vars, mainv, memory, MemoryReady, WorkersUseLiveMemory
<1> QED
  BY <1>1, <1>2, <1>3, <1>4, <1>5, <1>6 DEF Next

(* Every step keeps the calls of stop apart.                               *)
LEMMA StopStep == IInv /\ [Next]_vars => StopCalls' /\ OneStopper'
<1> SUFFICES ASSUME IInv, [Next]_vars PROVE StopCalls' /\ OneStopper'
  OBVIOUS
<1> USE LifecycleAssumption DEF IInv
<1>1. CASE Start
  BY <1>1 DEF Start, start_calloc, listen_tcp, alloc_arrays, init_tscontext, create_worker_thread,
     create_worker_fails, StopCalls, OneStopper, stop, fields
<1>2. CASE Destroy
  <2>1. CASE join
    BY <2>1 DEF join, StopCalls, OneStopper, stop
  <2> QED
    BY <1>2, <2>1 DEF Destroy, destroy_stopped, free_server, StopCalls, OneStopper, stop, fields
<1>3. CASE net_server_wait
  BY <1>3 DEF net_server_wait, StopCalls, OneStopper, stop, fields
<1>4. CASE net_server_destroy
  BY <1>4 DEF net_server_destroy, TypeOK, StopCalls, OneStopper, fields, Callers
<1>5. ASSUME NEW t \in Callers, net_server_stop(t) PROVE StopCalls' /\ OneStopper'
  BY <1>5 DEF net_server_stop, MayStop, TypeOK, StopCalls, OneStopper, mainv, Callers
<1>6. ASSUME NEW t \in Callers, stop_wake(t) PROVE StopCalls' /\ OneStopper'
  BY <1>6 DEF stop_wake, TypeOK, StopCalls, OneStopper, mainv, fields, Callers
<1>7. ASSUME NEW t \in Callers, stop_use_after_free(t) PROVE StopCalls' /\ OneStopper'
  <2>1. t # Main
    BY <1>7 DEF stop_use_after_free, StopCalls, MemoryReady
  <2> QED
    BY <1>7, <2>1 DEF stop_use_after_free, TypeOK, StopCalls, OneStopper, mainv, fields, Callers
<1>8. ASSUME NEW w \in Workers, Worker(w) \/ worker_event(w) PROVE StopCalls' /\ OneStopper'
  BY <1>8 DEF Worker, worker_start, worker_check, worker_woken, worker_event, StopCalls,
     OneStopper, mainv, stop, fields
<1>9. CASE UNCHANGED vars
  BY <1>9 DEF vars, mainv, stop, fields, StopCalls, OneStopper
<1> QED
  BY <1>1, <1>2, <1>3, <1>4, <1>5, <1>6, <1>7, <1>8, <1>9 DEF Next, StopCall

(* The inductive invariant holds throughout.                               *)
LEMMA Invariance == Init /\ [][Next]_vars => []IInv
<1>1. IInv /\ [Next]_vars => IInv'
  BY TypeStep, ThreadsStep, MemoryStep, StopStep DEF IInv
<1> QED
  BY <1>1, InitInv, PTL

(* Types, for any number of workers and stopping threads.                  *)
THEOREM TypeCorrect == Spec => []TypeOK
<1>1. IInv => TypeOK
  BY DEF IInv
<1> QED
  BY <1>1, Invariance, PTL DEF Spec

(* No worker outlives the server, its context or its queues: net_server_wait
   and net_server_destroy join every thread that net_server_start counted
   before anything is freed, whichever call of the start failed.           *)
THEOREM WorkersSafe == Spec => []WorkersUseLiveMemory
<1>1. IInv => WorkersUseLiveMemory
  BY DEF IInv
<1> QED
  BY <1>1, Invariance, PTL DEF Spec

(* The compare-and-exchange of net_server_stop admits one thread to its
   loop, and the owner's own call ends before the server is freed.         *)
THEOREM StopIsExclusive == Spec => []OneStopper
<1>1. IInv => OneStopper
  BY DEF IInv
<1> QED
  BY <1>1, Invariance, PTL DEF Spec

(***************************************************************************)
(* What is freed                                                           *)
(***************************************************************************)

(* Everything allocated is reachable from the pointers that destroy follows;
   unless a context was initialised by half, those pointers lead to live
   memory only.                                                            *)
HeapReachable ==
    /\ mpc # "destroyed" =>
         /\ heap \subseteq {server, ctxs, threads} \cup {Que(w) : w \in que}
                           \cup {Events(w) : w \in events}
         /\ ctxs \notin heap => que = {} /\ events = {}
         /\ ~half => /\ \A w \in que : Que(w) \in heap
                     /\ \A w \in events : Events(w) \in heap
    /\ mpc = "none" => heap = {}
    /\ mpc \in {"free", "destroyed"} => joined
    /\ FreedOnce
    /\ mpc = "destroyed" => heap = {} /\ listen \notin fds

(* It holds initially.                                                     *)
LEMMA FreeInit == Init => HeapReachable
  BY DEF Init, HeapReachable, FreedOnce

(* The start loop counts over the workers only.                            *)
LEMMA NextThread ==
    IInv /\ (init_tscontext \/ create_worker_thread \/ create_worker_fails) => i \in Workers
  BY LifecycleAssumption DEF IInv, TypeOK, ThreadsCounted, init_tscontext, create_worker_thread,
     create_worker_fails, Workers

(* Every step keeps the heap reachable and frees nothing twice.            *)
LEMMA HeapStep == IInv /\ HeapReachable /\ [Next]_vars => HeapReachable'
<1> SUFFICES ASSUME IInv, HeapReachable, [Next]_vars PROVE HeapReachable'
  OBVIOUS
<1> USE DEF IInv
<1>1. CASE Start
  <2>1. CASE init_tscontext
    <3>1. i \in Workers /\ ctxs \in heap
      BY <2>1, NextThread DEF init_tscontext, MemoryReady
    <3>2. /\ mpc # "destroyed" /\ mpc' \notin {"none", "free", "destroyed"}
          /\ heap \subseteq heap' /\ heap' \subseteq heap \cup {Que(i)}
          /\ que' = que \/ que' = que \cup {i}
          /\ Que(i) \in heap' \/ que' = que \/ half'
          /\ heap' = heap \/ i \in que'
          /\ half => half'
          /\ UNCHANGED <<events, twice>>
      BY <2>1 DEF init_tscontext
    <3>3. heap' \subseteq {server, ctxs, threads} \cup {Que(w) : w \in que'}
                           \cup {Events(w) : w \in events'}
      BY <3>1, <3>2 DEF HeapReachable
    <3>4. ~half' => /\ \A w \in que' : Que(w) \in heap'
                    /\ \A w \in events' : Events(w) \in heap'
      BY <3>1, <3>2 DEF HeapReachable
    <3> QED
      BY <3>1, <3>2, <3>3, <3>4 DEF HeapReachable, FreedOnce
  <2>2. CASE start_calloc
    BY <2>2 DEF start_calloc, HeapReachable, FreedOnce, context, fields, hist
  <2>3. CASE listen_tcp \/ create_worker_thread \/ create_worker_fails
    BY <2>3 DEF listen_tcp, create_worker_thread, create_worker_fails, HeapReachable, FreedOnce,
       context, fields, hist
  <2>4. CASE alloc_arrays
    BY <2>4 DEF alloc_arrays, HeapReachable, FreedOnce, context, fields, hist
  <2> QED
    BY <1>1, <2>1, <2>2, <2>3, <2>4 DEF Start
<1>2. CASE free_server
  <2> DEFINE freed == IF ctxs \in heap THEN UNION {Freed(w) : w \in Workers} ELSE {}
  <2>1. /\ mpc = "free" /\ mpc' = "destroyed" /\ fds' = fds \ {listen}
        /\ heap' = heap \ (freed \cup {server, ctxs, threads})
        /\ twice' = (twice \/ ~(freed \subseteq heap))
        /\ UNCHANGED <<joined, que, events, half>>
    BY <1>2 DEF free_server, fields, context
  <2>2. \A w \in que : w \in Workers /\ Que(w) \in Freed(w)
    BY DEF TypeOK, Freed
  <2>3. \A w \in events : w \in Workers /\ Events(w) \in Freed(w)
    BY DEF TypeOK, Freed
  <2>4. heap' = {}
    BY <2>1, <2>2, <2>3 DEF HeapReachable
  <2>5. ~half => freed \subseteq heap
    BY <2>1 DEF HeapReachable, Freed
  <2> QED
    BY <2>1, <2>4, <2>5 DEF HeapReachable, FreedOnce
<1>3. CASE destroy_stopped \/ join
  BY <1>3 DEF destroy_stopped, join, HeapReachable, FreedOnce, memory, fields, context, hist
<1>4. CASE net_server_wait \/ net_server_destroy
  BY <1>4 DEF net_server_wait, net_server_destroy, HeapReachable, FreedOnce, memory, fields, context, hist
<1>5. ASSUME NEW t \in Callers, net_server_stop(t) \/ StopCall(t) PROVE HeapReachable'
  BY <1>5 DEF net_server_stop, StopCall, stop_wake, stop_use_after_free, HeapReachable, FreedOnce,
     mainv, memory, fields, context, hist
<1>6. ASSUME NEW w \in Workers, worker_start(w) PROVE HeapReachable'
  <2>1. ctxs \in heap /\ mpc # "destroyed"
    BY <1>6 DEF worker_start, WorkersUseLiveMemory, HeapReachable
  <2> QED
    BY <1>6, <2>1 DEF worker_start, HeapReachable, FreedOnce, mainv, fields, hist
<1>7. ASSUME NEW w \in Workers, worker_check(w) \/ worker_woken(w) \/ worker_event(w)
      PROVE  HeapReachable'
  BY <1>7 DEF worker_check, worker_woken, worker_event, HeapReachable, FreedOnce, mainv, memory,
     fields, context, hist
<1>8. CASE UNCHANGED vars
  BY <1>8 DEF vars, mainv, memory, fields, context, hist, HeapReachable, FreedOnce
<1> QED
  BY <1>1, <1>2, <1>3, <1>4, <1>5, <1>6, <1>7, <1>8 DEF Next, Destroy, Worker

(* net_server_destroy, called by the owner or by the `fail' path of a start,
   frees all there is, each thing once unless init_tscontext left half a
   context behind, closes the socket and leaves no thread.                 *)
THEOREM DestroyFreesAll == Spec => []NothingLeft
<1>1. IInv /\ HeapReachable /\ [Next]_vars => HeapReachable'
  BY HeapStep
<1>2. IInv /\ HeapReachable => NothingLeft
  BY DEF IInv, HeapReachable, NothingLeft, ThreadsCounted, Quiet
<1>3. Init => HeapReachable
  BY FreeInit
<1> QED
  BY <1>1, <1>2, <1>3, Invariance, PTL DEF Spec
=============================================================================
