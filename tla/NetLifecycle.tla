---------------------------- MODULE NetLifecycle ----------------------------
(***************************************************************************)
(* The life of a NetServer (libv/src/net/net.c): net_server_start with     *)
(* every call in it that can fail, net_server_stop from any thread,        *)
(* net_server_wait, net_server_destroy, and the workers as far as they use *)
(* the server's memory.  What the workers serve is in NetServer.           *)
(*                                                                         *)
(* The eight arrays of a context count as one allocation: they are         *)
(* allocated and freed together.  Descriptors are named, not numbered,     *)
(* but for the descriptor 0 of a context that is still all zeros.          *)
(***************************************************************************)
EXTENDS Integers

CONSTANTS
    NThreads,     \* opt->nthreads
    Stoppers,     \* the threads that may call net_server_stop
    Main          \* the thread that starts and destroys the server

ASSUME LifecycleAssumption == NThreads \in Nat \ {0} /\ Main \notin Stoppers

Workers == 0 .. NThreads - 1
Callers == Stoppers \cup {Main}

(* The counter of a loop over the contexts; the next loop starts at 0.     *)
NextTurn(k) == IF k + 1 = NThreads THEN 0 ELSE k + 1

server  == <<"server", 0>>
ctxs    == <<"ctxs", 0>>
threads == <<"threads", 0>>
listen  == <<"listen", 0>>
Que(w)    == <<"que", w>>
Events(w) == <<"events", w>>
Epoll(w)  == <<"epoll", w>>
Wake(w)   == <<"wake", w>>

VARIABLES
    mpc,          \* where the main thread is
    i,            \* its loop counter
    call,         \* each caller of net_server_stop: "none", "wake", "returned", "undefined"
    at,           \* the worker it wakes next
    wpc,          \* the workers
    heap, fds,    \* allocations alive, descriptors open
    \* NetServer
    stopping, joined, started_threads,
    \* struct tscontext
    que,          \* the contexts whose array pointers are not NULL
    events,       \* the contexts whose events pointer is not NULL
    wake_fd,      \* 0, -1, or 1 for the context's own eventfd
    waked,        \* the workers whose eventfd is readable
    \* history
    half,         \* init_tscontext found memory for some of the arrays only
    twice         \* something was freed twice

mainv   == <<mpc, i>>
stop    == <<call, at>>
memory  == <<heap, fds>>
fields  == <<stopping, joined, started_threads>>
context == <<que, events, wake_fd>>
hist    == <<half, twice>>
vars    == <<mainv, stop, wpc, memory, fields, context, waked, hist>>

(***************************************************************************)
(* net_server_start                                                        *)
(***************************************************************************)

start_calloc ==
    /\ mpc = "none"
    /\ \/ heap' = {server} /\ mpc' = "listen"
       \/ mpc' = "failed" /\ UNCHANGED heap
    /\ UNCHANGED <<i, stop, wpc, fds, fields, context, waked, hist>>

(* listen_tcp: no port, or a call that fails and aborts the process.       *)
listen_tcp ==
    /\ mpc = "listen"
    /\ \/ fds' = fds \cup {listen} /\ mpc' = "arrays"
       \/ mpc' \in {"destroy", "aborted"} /\ UNCHANGED fds
    /\ UNCHANGED <<i, stop, wpc, heap, fields, context, waked, hist>>

(* Both calloc calls are made; either may fail.                            *)
alloc_arrays ==
    /\ mpc = "arrays"
    /\ \E got \in SUBSET {ctxs, threads} :
         /\ heap' = heap \cup got
         /\ mpc' = IF got = {ctxs, threads} THEN "init" ELSE "destroy"
    /\ UNCHANGED <<i, stop, wpc, fds, fields, context, waked, hist>>

(* All the arrays, none of them, or some, which free_tscontext frees again
   and leaves the pointers to.                                             *)
init_tscontext ==
    /\ mpc = "init"
    /\ wake_fd' = [wake_fd EXCEPT ![i] = -1]
    /\ \/ /\ heap' = heap \cup {Que(i)} /\ que' = que \cup {i}
          /\ i' = NextTurn(i)
          /\ mpc' = IF i + 1 = NThreads THEN "create" ELSE "init"
          /\ UNCHANGED half
       \/ /\ mpc' = "destroy" /\ i' = 0
          /\ UNCHANGED <<heap, que, half>>
       \/ /\ mpc' = "destroy" /\ i' = 0
          /\ que' = que \cup {i} /\ half' = TRUE
          /\ UNCHANGED heap
    /\ UNCHANGED <<stop, wpc, fds, fields, events, waked, twice>>

(* Mutant: the loop over the workers runs once too often.                  *)
create_worker_thread_more ==
    /\ mpc = "create"
    /\ fds' = fds \cup {Epoll(i), Wake(i)}
    /\ wake_fd' = [wake_fd EXCEPT ![i] = 1]
    /\ wpc' = [wpc EXCEPT ![i] = "start"]
    /\ started_threads' = started_threads + 1
    /\ i' = NextTurn(i)
    /\ mpc' = IF started_threads = NThreads THEN "running" ELSE "create"
    /\ UNCHANGED <<stop, heap, stopping, joined, que, events, waked, hist>>

(* A worker with its two descriptors and its thread.                       *)
create_worker_thread ==
    /\ mpc = "create"
    /\ fds' = fds \cup {Epoll(i), Wake(i)}
    /\ wake_fd' = [wake_fd EXCEPT ![i] = 1]
    /\ wpc' = [wpc EXCEPT ![i] = "start"]
    /\ started_threads' = started_threads + 1
    /\ i' = NextTurn(i)
    /\ mpc' = IF i + 1 = NThreads THEN "running" ELSE "create"
    /\ UNCHANGED <<stop, heap, stopping, joined, que, events, waked, hist>>

(* epoll_create1, eventfd, epoll_ctl or pthread_create fails: start returns
   -1 without the `fail' path and without the server.                      *)
create_worker_fails ==
    /\ mpc = "create"
    /\ \/ UNCHANGED <<fds, wake_fd>>
       \/ fds' = fds \cup {Epoll(i)} /\ UNCHANGED wake_fd
       \/ /\ \/ fds' = fds \cup {Epoll(i), Wake(i)}
             \/ fds' = fds \cup {Wake(i)}
          /\ wake_fd' = [wake_fd EXCEPT ![i] = 1]
    /\ mpc' = "abandoned"
    /\ UNCHANGED <<i, stop, wpc, heap, fields, que, events, waked, hist>>

(***************************************************************************)
(* net_server_stop                                                         *)
(***************************************************************************)

(* The handle is out between the return of start and the call of destroy.  *)
MayStop(t) ==
    IF t = Main THEN mpc \in {"running", "destroy"} ELSE mpc \in {"running", "wait"}

(* Mutant: the flag is set without looking at what it was.                 *)
net_server_stop_store(t) ==
    /\ call[t] = "none" /\ MayStop(t)
    /\ stopping' = TRUE
    /\ call' = [call EXCEPT ![t] = "wake"]
    /\ UNCHANGED <<mainv, at, wpc, memory, joined, started_threads, context, waked, hist>>

(* The compare-and-exchange: only the first caller goes on to the loop.    *)
net_server_stop(t) ==
    /\ call[t] = "none" /\ MayStop(t)
    /\ stopping' = TRUE
    /\ call' = [call EXCEPT ![t] = IF stopping THEN "returned" ELSE "wake"]
    /\ UNCHANGED <<mainv, at, wpc, memory, joined, started_threads, context, waked, hist>>


(* One turn of the loop over all contexts, initialised or not.  The wake-up
   of a context that is still all zeros goes to the process's descriptor 0,
   which is not in the model.                                              *)
stop_wake(t) ==
    /\ call[t] = "wake" /\ server \in heap
    /\ waked' = IF ctxs \in heap /\ wake_fd[at[t]] = 1 THEN waked \cup {at[t]} ELSE waked
    /\ at' = [at EXCEPT ![t] = NextTurn(at[t])]
    /\ call' = [call EXCEPT ![t] = IF at[t] + 1 = NThreads THEN "returned" ELSE "wake"]
    /\ UNCHANGED <<mainv, wpc, memory, fields, context, hist>>

(* The server was destroyed under a call that had not returned.            *)
stop_use_after_free(t) ==
    /\ call[t] = "wake" /\ server \notin heap
    /\ call' = [call EXCEPT ![t] = "undefined"]
    /\ UNCHANGED <<mainv, at, wpc, memory, fields, context, waked, hist>>

StopCall(t) == stop_wake(t) \/ stop_use_after_free(t)

(***************************************************************************)
(* net_server_wait and net_server_destroy                                  *)
(***************************************************************************)

(* The owner waits, as net_listen does, or destroys the server.            *)
net_server_wait ==
    /\ mpc = "running" /\ call[Main] \in {"none", "returned"}
    /\ mpc' = IF joined THEN "running" ELSE "wait"
    /\ UNCHANGED <<i, stop, wpc, memory, fields, context, waked, hist>>

net_server_destroy ==
    /\ mpc = "running" /\ call[Main] \in {"none", "returned"}
    /\ mpc' = "destroy"
    /\ call' = [call EXCEPT ![Main] = "none"]
    /\ UNCHANGED <<i, at, wpc, memory, fields, context, waked, hist>>

destroy_stopped ==
    /\ mpc = "destroy" /\ call[Main] = "returned"
    /\ mpc' = IF joined THEN "free" ELSE "destroy_wait"
    /\ UNCHANGED <<i, stop, wpc, memory, fields, context, waked, hist>>

(* Mutant: the last thread started is not joined.                          *)
join_short ==
    /\ mpc \in {"wait", "destroy_wait"}
    /\ \/ /\ i + 1 < started_threads /\ wpc[i] = "exited"
          /\ i' = i + 1
          /\ UNCHANGED <<mpc, joined>>
       \/ /\ i + 1 >= started_threads
          /\ i' = 0 /\ joined' = TRUE
          /\ mpc' = IF mpc = "wait" THEN "running" ELSE "free"
    /\ UNCHANGED <<stop, wpc, memory, stopping, started_threads, context, waked, hist>>

(* pthread_join of one thread after the other.                             *)
join ==
    /\ mpc \in {"wait", "destroy_wait"}
    /\ \/ /\ i < started_threads /\ wpc[i] = "exited"
          /\ i' = i + 1
          /\ UNCHANGED <<mpc, joined>>
       \/ /\ i = started_threads
          /\ i' = 0 /\ joined' = TRUE
          /\ mpc' = IF mpc = "wait" THEN "running" ELSE "free"
    /\ UNCHANGED <<stop, wpc, memory, stopping, started_threads, context, waked, hist>>

(* Mutant: the contexts are not zeroed first: any pointer is taken for set. *)
Freed_garbage(w) == {Que(w)} \cup (IF w \in events THEN {Events(w)} ELSE {})

(* free_tscontext frees what the pointers of context w lead to.            *)
Freed(w) == (IF w \in que THEN {Que(w)} ELSE {}) \cup (IF w \in events THEN {Events(w)} ELSE {})

free_server ==
    /\ mpc = "free"
    /\ LET freed == IF ctxs \in heap THEN UNION {Freed(w) : w \in Workers} ELSE {}
       IN  /\ heap' = heap \ (freed \cup {server, ctxs, threads})
           /\ twice' = (twice \/ ~(freed \subseteq heap))
    /\ fds' = fds \ {listen}
    /\ mpc' = "destroyed"
    /\ UNCHANGED <<i, stop, wpc, fields, context, waked, half>>

(***************************************************************************)
(* ts_worker_loop                                                          *)
(***************************************************************************)

(* The events array; without it the thread ends.                           *)
worker_start(w) ==
    /\ wpc[w] = "start"
    /\ \/ /\ heap' = heap \cup {Events(w)} /\ events' = events \cup {w}
          /\ wpc' = [wpc EXCEPT ![w] = "check"]
       \/ /\ wpc' = [wpc EXCEPT ![w] = "exited"]
          /\ UNCHANGED <<heap, events>>
    /\ UNCHANGED <<mainv, stop, fds, fields, que, wake_fd, waked, hist>>

worker_check(w) ==
    /\ wpc[w] = "check"
    /\ wpc' = [wpc EXCEPT ![w] = IF stopping THEN "exited" ELSE "wait"]
    /\ UNCHANGED <<mainv, stop, memory, fields, context, waked, hist>>

(* epoll_wait returns with the eventfd, which ts_accept reads empty.       *)
worker_woken(w) ==
    /\ wpc[w] = "wait" /\ w \in waked
    /\ waked' = waked \ {w}
    /\ wpc' = [wpc EXCEPT ![w] = "check"]
    /\ UNCHANGED <<mainv, stop, memory, fields, context, hist>>

(* It returns with a client's event, or with an error.                     *)
worker_event(w) ==
    /\ wpc[w] = "wait"
    /\ wpc' = [wpc EXCEPT ![w] = "check"]
    /\ UNCHANGED <<mainv, stop, memory, fields, context, waked, hist>>

Init ==
    /\ mpc = "none" /\ i = 0
    /\ call = [t \in Callers |-> "none"] /\ at = [t \in Callers |-> 0]
    /\ wpc = [w \in Workers |-> "none"]
    /\ heap = {} /\ fds = {}
    /\ stopping = FALSE /\ joined = FALSE /\ started_threads = 0
    /\ que = {} /\ events = {} /\ wake_fd = [w \in Workers |-> 0] /\ waked = {}
    /\ half = FALSE /\ twice = FALSE

Start ==
    \/ start_calloc \/ listen_tcp \/ alloc_arrays \/ init_tscontext
    \/ create_worker_thread \/ create_worker_fails

Destroy == destroy_stopped \/ join \/ free_server

Worker(w) == worker_start(w) \/ worker_check(w) \/ worker_woken(w)

Next ==
    \/ Start \/ Destroy \/ net_server_wait \/ net_server_destroy
    \/ \E t \in Callers : net_server_stop(t) \/ StopCall(t)
    \/ \E w \in Workers : Worker(w) \/ worker_event(w)

(* Threads are scheduled; nobody has to call stop, and no client has to
   send anything.                                                          *)
Spec ==
    /\ Init /\ [][Next]_vars
    /\ WF_vars(Destroy)
    /\ WF_vars(mpc = "destroy" /\ net_server_stop(Main))
    /\ \A t \in Callers : WF_vars(StopCall(t))
    /\ \A w \in Workers : WF_vars(Worker(w))

(***************************************************************************)
(* Properties                                                              *)
(***************************************************************************)

(* Every variable has its type.                                            *)
TypeOK ==
    /\ mpc \in {"none", "listen", "arrays", "init", "create", "running", "wait", "destroy",
                "destroy_wait", "free", "destroyed", "failed", "abandoned", "aborted"}
    /\ i \in 0 .. NThreads /\ started_threads \in 0 .. NThreads
    /\ call \in [Callers -> {"none", "wake", "returned", "undefined"}]
    /\ at \in [Callers -> Workers]
    /\ wpc \in [Workers -> {"none", "start", "check", "wait", "exited"}]
    /\ que \subseteq Workers /\ events \subseteq Workers /\ waked \subseteq Workers
    /\ wake_fd \in [Workers -> {-1, 0, 1}]
    /\ stopping \in BOOLEAN /\ joined \in BOOLEAN

(* A worker that has not returned finds the server, its context and its
   queues in memory, whichever thread stops the server and whatever failed
   while it was started.                                                   *)
WorkersUseLiveMemory ==
    \A w \in Workers :
      wpc[w] \notin {"none", "exited"} => {server, ctxs, threads, Que(w)} \subseteq heap

(* A failed start frees nothing twice, unless a context found memory for a
   part of its arrays: that part init_tscontext and net_server_destroy both
   free.                                                                   *)
FreedOnce == twice => half

(* net_server_destroy, and the `fail' path of start, leave nothing allocated
   or freed twice, the socket closed and no thread behind.                 *)
NothingLeft ==
    mpc = "destroyed" =>
      FreedOnce /\ heap = {} /\ listen \notin fds /\ \A w \in Workers : wpc[w] \in {"none", "exited"}

(* Of all calls of net_server_stop one at most runs the loop that reads the
   server after the flag is set, so one at most can find it freed; the thread
   that frees it never does.                                               *)
OneStopper ==
    /\ \A t, u \in Callers :
         call[t] \in {"wake", "undefined"} /\ call[u] \in {"wake", "undefined"} => t = u
    /\ call[Main] # "undefined"

=============================================================================
