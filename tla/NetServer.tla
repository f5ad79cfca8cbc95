----------------------------- MODULE NetServer -----------------------------
(***************************************************************************)
(* The TCP server of libv (libv/src/net/net.c): net_server_start creates   *)
(* NThreads workers, each with an epoll instance of its own that also      *)
(* watches the shared listening socket.  A worker that accepts deals the   *)
(* connection to the next worker in turn by adding it to that worker's     *)
(* epoll instance.  A worker handles what epoll_wait returned in phases:   *)
(* sort the events into queues, read, process, write, close.               *)
(*                                                                         *)
(* A net_conn is named by its client, which connects once; a file          *)
(* descriptor is a number and is reused as soon as it is closed.           *)
(* conn->bgctx is NULL throughout: nothing in the repository sets it.      *)
(***************************************************************************)
EXTENDS Integers, Sequences, FiniteSets, FiniteSetsExt

CONSTANTS
    NThreads, QueueSize,   \* opt->nthreads, opt->queuesize
    MaxFd,                 \* the process may open the descriptors Fds
    Clients,
    MaxOut,                \* the length of a response
    MaxRequests,           \* bound: requests of one client
    MaxHangups             \* bound: clients that close their end

ASSUME NetAssumption ==
    /\ NThreads \in Nat \ {0} /\ QueueSize \in Nat \ {0}
    /\ MaxFd \in Nat \ {0} /\ MaxOut \in Nat \ {0} /\ MaxRequests \in Nat
    /\ MaxHangups \in Nat

CONSTANT None
ASSUME NoneAssumption == None \notin Clients

Workers == 0 .. NThreads - 1
LISTEN  == -1
WAKE    == -2
Fds     == 1 .. MaxFd
Events  == Fds \cup {LISTEN, WAKE}

VARIABLES
    \* the thread that starts and stops the server
    mpc, started, stopping,
    to_wake,    \* net_server_stop: the next worker to wake
    epfd,       \* the workers whose epoll instance is in place
    \* the kernel
    owner,      \* the client a descriptor is connected to, None when it is not open
    reg, wint,  \* each epoll instance: descriptors watched, and those watched for writing
    waked,      \* the workers whose wake_fd is readable
    backlog,    \* connections not yet accepted
    next,       \* next_ctx_index modulo NThreads
    \* the workers
    wpc, events, pread_que, ins_que, outs_que, closes_que,
    hmap,       \* each worker: the connection of a descriptor, or None
    conn,       \* the net_conn of each client
    \* the clients
    cst,        \* "none", "pending", "accepted", "dropped", "closed"
    req,        \* requests that wait in the socket
    fin,        \* the client has closed its end
    reads,      \* the client reads what the server sends
    asked,      \* requests sent
    owed,       \* a request is not answered in full
    late        \* the client connected after net_server_start had returned

main    == <<mpc, started, stopping, to_wake, epfd>>
kernel  == <<owner, reg, wint, waked, backlog, next>>
queues  == <<events, pread_que, ins_que, outs_que, closes_que>>
worker  == <<wpc, queues, hmap, conn>>
client  == <<cst, req, fin, reads, asked, owed, late>>
vars    == <<main, kernel, worker, client>>

NewConn(fd) == [fd |-> fd, left |-> 0, closed |-> FALSE, state |-> "open"]
NoConn      == [fd |-> 0, left |-> 0, closed |-> FALSE, state |-> "none"]

Goto(w, l) == wpc' = [wpc EXCEPT ![w] = l]

Push(que, w, c) == [que EXCEPT ![w] = Append(que[w], c)]
Pop(que, w)     == [que EXCEPT ![w] = Tail(que[w])]

(***************************************************************************)
(* net_server_start, net_server_stop, net_server_wait, net_server_destroy  *)
(***************************************************************************)

(* create_worker_thread up to pthread_create.                              *)
create_epoll ==
    /\ mpc = "create" /\ started \notin epfd
    /\ epfd' = epfd \cup {started}
    /\ UNCHANGED <<mpc, started, stopping, to_wake, kernel, worker, client>>

(* Mutant: the loop over the workers ends one too early.                   *)
start_thread_short ==
    /\ mpc = "create" /\ started \in epfd
    /\ Goto(started, "check")
    /\ started' = started + 1
    /\ mpc' = IF started + 2 >= NThreads THEN "running" ELSE "create"
    /\ UNCHANGED <<stopping, to_wake, epfd, kernel, queues, hmap, conn, client>>

start_thread ==
    /\ mpc = "create" /\ started \in epfd
    /\ Goto(started, "check")
    /\ started' = started + 1
    /\ mpc' = IF started + 1 = NThreads THEN "running" ELSE "create"
    /\ UNCHANGED <<stopping, to_wake, epfd, kernel, queues, hmap, conn, client>>

(* epoll_create1, eventfd, epoll_ctl or pthread_create fails: start returns
   -1 without the `fail' path.                                             *)
start_fails ==
    /\ mpc = "create"
    /\ mpc' = "failed"
    /\ UNCHANGED <<started, stopping, to_wake, epfd, kernel, worker, client>>

net_server_stop ==
    /\ mpc = "running"
    /\ stopping' = TRUE
    /\ mpc' = "wake"
    /\ UNCHANGED <<started, to_wake, epfd, kernel, worker, client>>

(* Mutant: the first worker is not woken.                                  *)
stop_wake_others ==
    /\ mpc = "wake"
    /\ waked' = waked \cup ({to_wake} \ {0})
    /\ to_wake' = to_wake + 1
    /\ mpc' = IF to_wake + 1 = NThreads THEN "join" ELSE "wake"
    /\ UNCHANGED <<started, stopping, epfd, owner, reg, wint, backlog, next, worker, client>>

stop_wake ==
    /\ mpc = "wake"
    /\ waked' = waked \cup {to_wake}
    /\ to_wake' = to_wake + 1
    /\ mpc' = IF to_wake + 1 = NThreads THEN "join" ELSE "wake"
    /\ UNCHANGED <<started, stopping, epfd, owner, reg, wint, backlog, next, worker, client>>

(* net_server_wait joins; then the contexts and the server are freed and the
   listening socket is closed.                                             *)
net_server_destroy ==
    /\ mpc = "join"
    /\ \A w \in Workers : w < started => wpc[w] = "exited"
    /\ mpc' = "destroyed"
    /\ backlog' = <<>>
    /\ UNCHANGED <<started, stopping, to_wake, epfd, owner, reg, wint, waked, next,
                   worker, client>>

(***************************************************************************)
(* ts_worker_loop                                                          *)
(***************************************************************************)

check_stopping(w) ==
    /\ wpc[w] = "check"
    /\ Goto(w, IF stopping THEN "exited" ELSE "wait")
    /\ UNCHANGED <<main, kernel, queues, hmap, conn, client>>

(* Level-triggered readiness.                                              *)
Ready(w) ==
    {fd \in reg[w] : \/ req[owner[fd]] > 0 \/ fin[owner[fd]]
                     \/ fd \in wint[w] /\ reads[owner[fd]]}
    \cup (IF backlog # <<>> THEN {LISTEN} ELSE {})
    \cup (IF w \in waked THEN {WAKE} ELSE {})

(* epoll_wait returns all that is ready, or as much of it as fits.         *)
epoll_wait(w, batch) ==
    /\ wpc[w] = "wait"
    /\ batch # {} /\ batch \subseteq Ready(w)
    /\ IF Cardinality(Ready(w)) <= QueueSize THEN batch = Ready(w)
                                              ELSE Cardinality(batch) = QueueSize
    /\ events' = [events EXCEPT ![w] = batch]
    /\ Goto(w, "accept")
    /\ UNCHANGED <<main, kernel, pread_que, ins_que, outs_que, closes_que, hmap, conn, client>>

(* The first phase that has something to do; then the loop starts over.    *)
PhaseDue(w) ==
    IF events[w] # {} THEN "accept"
    ELSE IF pread_que[w] # <<>> THEN "read"
    ELSE IF ins_que[w] # <<>> THEN "process"
    ELSE IF outs_que[w] # <<>> THEN "write"
    ELSE IF closes_que[w] # <<>> THEN "close" ELSE "check"

NextPhase(w) ==
    /\ wpc[w] \in {"accept", "read", "process", "write", "close"}
    /\ wpc[w] # PhaseDue(w)
    /\ Goto(w, PhaseDue(w))
    /\ UNCHANGED <<main, kernel, queues, hmap, conn, client>>

Handled(w, e) ==
    /\ wpc[w] = "accept" /\ e \in events[w]
    /\ events' = [events EXCEPT ![w] = @ \ {e}]
    /\ UNCHANGED <<main, wpc, ins_que, req, fin, reads, asked, late>>

accept_wake(w) ==
    /\ Handled(w, WAKE)
    /\ waked' = waked \ {w}
    /\ UNCHANGED <<owner, reg, wint, backlog, next, pread_que, outs_que, closes_que,
                   hmap, conn, cst, owed>>

next_ctx_index(n) == (n + 1) % NThreads

(* Another worker was faster, or there is no descriptor left; or a client is
   accepted and dealt out.  The new descriptor is the lowest one free.     *)
accept_listen(w) ==
    /\ Handled(w, LISTEN)
    /\ LET free == {fd \in Fds : owner[fd] = None} IN
       \/ /\ backlog = <<>> \/ free = {}
          /\ UNCHANGED <<owner, reg, backlog, next, cst>>
       \/ /\ backlog # <<>> /\ free # {}
          /\ LET c == Head(backlog)  fd == Min(free)
             IN  \/ /\ next \in epfd
                    /\ owner' = [owner EXCEPT ![fd] = c]
                    /\ reg' = [reg EXCEPT ![next] = @ \cup {fd}]
                    /\ cst' = [cst EXCEPT ![c] = "accepted"]
                 \/ /\ next \notin epfd
                    /\ cst' = [cst EXCEPT ![c] = "dropped"]
                    /\ UNCHANGED <<owner, reg>>
          /\ backlog' = Tail(backlog)
          /\ next' = next_ctx_index(next)
    /\ UNCHANGED <<wint, waked, pread_que, outs_que, closes_que, hmap, conn, owed>>

(* Mutant: a connection is read whether or not a response is pending.      *)
accept_conn_read(w, fd) ==
    /\ Handled(w, fd)
    /\ LET c == IF hmap[w][fd] = None THEN owner[fd] ELSE hmap[w][fd]
           k == IF hmap[w][fd] = None THEN NewConn(fd) ELSE conn[c]
       IN  /\ hmap' = [hmap EXCEPT ![w][fd] = c]
           /\ conn' = [conn EXCEPT ![c] = k]
           /\ IF k.closed
              THEN closes_que' = Push(closes_que, w, c) /\ UNCHANGED pread_que
              ELSE pread_que' = Push(pread_que, w, c) /\ UNCHANGED closes_que
    /\ UNCHANGED <<outs_que, owner, reg, wint, waked, backlog, next, cst, owed>>

(* An event of a connection; the first one makes its net_conn.  hmap_insert
   is taken to find the memory for its node: its result is not looked at.  *)
accept_conn(w, fd) ==
    /\ Handled(w, fd)
    /\ LET new == hmap[w][fd] = None
           c   == IF new THEN owner[fd] ELSE hmap[w][fd]
           k   == IF new THEN NewConn(fd) ELSE conn[c]
       IN  /\ hmap' = [hmap EXCEPT ![w][fd] = c]
           /\ conn' = [conn EXCEPT ![c] = k]
           /\ \/ /\ k.left > 0
                 /\ outs_que' = Push(outs_que, w, c)
                 /\ UNCHANGED <<pread_que, closes_que>>
              \/ /\ k.left = 0 /\ k.closed
                 /\ closes_que' = Push(closes_que, w, c)
                 /\ UNCHANGED <<pread_que, outs_que>>
              \/ /\ k.left = 0 /\ ~k.closed
                 /\ pread_que' = Push(pread_que, w, c)
                 /\ UNCHANGED <<outs_que, closes_que>>
    /\ UNCHANGED <<owner, reg, wint, waked, backlog, next, cst, owed>>

(* conn_new finds no memory: the descriptor is closed at once.             *)
accept_no_memory(w, fd) ==
    /\ Handled(w, fd)
    /\ hmap[w][fd] = None
    /\ owner' = [owner EXCEPT ![fd] = None]
    /\ reg' = [reg EXCEPT ![w] = @ \ {fd}]
    /\ cst' = [cst EXCEPT ![owner[fd]] = "closed"]
    /\ UNCHANGED <<wint, waked, backlog, next, pread_que, outs_que, closes_que,
                   hmap, conn, owed>>

ts_accept(w) ==
    \/ accept_wake(w) \/ accept_listen(w)
    \/ \E fd \in Fds : accept_conn(w, fd) \/ accept_no_memory(w, fd)

(* Mutant: a closed stream is handed to the callback as well.              *)
ts_read_on(w) ==
    /\ wpc[w] = "read" /\ pread_que[w] # <<>>
    /\ LET c    == Head(pread_que[w])
           peer == owner[conn[c].fd]
       IN  /\ req' = [req EXCEPT ![peer] = 0]
           /\ closes_que' = IF req[peer] = 0 /\ fin[peer] THEN Push(closes_que, w, c)
                                                        ELSE closes_que
           /\ ins_que' = IF req[peer] > 0 \/ fin[peer] THEN Push(ins_que, w, c) ELSE ins_que
    /\ pread_que' = Pop(pread_que, w)
    /\ UNCHANGED <<main, kernel, wpc, events, outs_que, hmap, conn,
                   cst, fin, reads, asked, owed, late>>

(* read: what has arrived, the end of the stream, or EAGAIN.               *)
ts_read(w) ==
    /\ wpc[w] = "read" /\ pread_que[w] # <<>>
    /\ LET c    == Head(pread_que[w])
           peer == owner[conn[c].fd]
       IN  \/ /\ req[peer] > 0
              /\ req' = [req EXCEPT ![peer] = 0]
              /\ ins_que' = Push(ins_que, w, c)
              /\ UNCHANGED closes_que
           \/ /\ req[peer] = 0 /\ fin[peer]
              /\ closes_que' = Push(closes_que, w, c)
              /\ UNCHANGED <<req, ins_que>>
           \/ /\ req[peer] = 0 /\ ~fin[peer]
              /\ UNCHANGED <<req, ins_que, closes_que>>
    /\ pread_que' = Pop(pread_que, w)
    /\ UNCHANGED <<main, kernel, wpc, events, outs_que, hmap, conn,
                   cst, fin, reads, asked, owed, late>>

(* ev_process: the connection with an answer, or with no memory for it.    *)
ev_process(k) == {[k EXCEPT !.left = MaxOut], [k EXCEPT !.closed = TRUE]}

ts_process(w) ==
    /\ wpc[w] = "process" /\ ins_que[w] # <<>>
    /\ LET c == Head(ins_que[w])
       IN  \E k \in ev_process(conn[c]) :
             /\ conn' = [conn EXCEPT ![c] = k]
             /\ IF k.left > 0
                THEN outs_que' = Push(outs_que, w, c) /\ UNCHANGED closes_que
                ELSE closes_que' = Push(closes_que, w, c) /\ UNCHANGED outs_que
    /\ ins_que' = Pop(ins_que, w)
    /\ UNCHANGED <<main, kernel, wpc, events, pread_que, hmap, client>>

(* Mutant: epoll is not told that a response is left over.                 *)
ts_write_once(w) ==
    /\ wpc[w] = "write" /\ outs_que[w] # <<>>
    /\ LET c    == Head(outs_que[w])
           peer == owner[conn[c].fd]
       IN  \/ \E left \in 0 .. conn[c].left :
                /\ IF reads[peer] THEN left < conn[c].left ELSE left > 0
                /\ conn' = [conn EXCEPT ![c].left = left]
                /\ owed' = [owed EXCEPT ![peer] = @ /\ (left > 0 \/ req[peer] > 0)]
                /\ UNCHANGED closes_que
           \/ /\ fin[peer]
              /\ conn' = [conn EXCEPT ![c].closed = TRUE]
              /\ closes_que' = Push(closes_que, w, c)
              /\ UNCHANGED owed
    /\ outs_que' = Pop(outs_que, w)
    /\ UNCHANGED <<main, kernel, wpc, events, pread_que, ins_que, hmap,
                   cst, req, fin, reads, asked, late>>

(* flush_conn writes until all is out, the socket is full or it fails; then
   epoll is told to watch for writing exactly while something is left.     *)
ts_write(w) ==
    /\ wpc[w] = "write" /\ outs_que[w] # <<>>
    /\ LET c    == Head(outs_que[w])
           fd   == conn[c].fd
           peer == owner[fd]
       IN  \/ \E left \in 0 .. conn[c].left :
                /\ IF reads[peer] THEN left < conn[c].left ELSE left > 0
                /\ conn' = [conn EXCEPT ![c].left = left]
                /\ wint' = [wint EXCEPT ![w] = IF left > 0 THEN @ \cup {fd} ELSE @ \ {fd}]
                /\ owed' = [owed EXCEPT ![peer] = @ /\ (left > 0 \/ req[peer] > 0)]
                /\ UNCHANGED closes_que
           \/ /\ fin[peer]
              /\ conn' = [conn EXCEPT ![c].closed = TRUE]
              /\ closes_que' = Push(closes_que, w, c)
              /\ UNCHANGED <<wint, owed>>
    /\ outs_que' = Pop(outs_que, w)
    /\ UNCHANGED <<main, owner, reg, waked, backlog, next, wpc, events, pread_que,
                   ins_que, hmap, cst, req, fin, reads, asked, late>>

(* The closed callback and close(): the descriptor may be reused from here. *)
ts_close(w) ==
    /\ wpc[w] = "close" /\ closes_que[w] # <<>>
    /\ LET fd == conn[Head(closes_que[w])].fd
       IN  /\ owner' = [owner EXCEPT ![fd] = None]
           /\ reg' = [v \in Workers |-> reg[v] \ {fd}]
           /\ wint' = [v \in Workers |-> wint[v] \ {fd}]
           /\ cst' = [cst EXCEPT ![owner[fd]] = "closed"]
    /\ Goto(w, "unmap")
    /\ UNCHANGED <<main, waked, backlog, next, queues, hmap, conn,
                   req, fin, reads, asked, owed, late>>

(* Mutant: the connection is freed and stays in the map.                   *)
ts_unmap_keep(w) ==
    /\ wpc[w] = "unmap"
    /\ conn' = [conn EXCEPT ![Head(closes_que[w])].state = "freed"]
    /\ closes_que' = Pop(closes_que, w)
    /\ Goto(w, "close")
    /\ UNCHANGED <<main, kernel, events, pread_que, ins_que, outs_que, hmap, client>>

(* hmap_delete and conn_free.                                              *)
ts_unmap(w) ==
    /\ wpc[w] = "unmap"
    /\ LET c == Head(closes_que[w])
       IN  /\ hmap' = [hmap EXCEPT ![w][conn[c].fd] = None]
           /\ conn' = [conn EXCEPT ![c].state = "freed"]
    /\ closes_que' = Pop(closes_que, w)
    /\ Goto(w, "close")
    /\ UNCHANGED <<main, kernel, events, pread_que, ins_que, outs_que, client>>

(***************************************************************************)
(* Clients                                                                 *)
(***************************************************************************)

(* The socket listens before the first worker exists.                      *)
Connect(c) ==
    /\ cst[c] = "none" /\ mpc # "destroyed"
    /\ backlog' = Append(backlog, c)
    /\ cst' = [cst EXCEPT ![c] = "pending"]
    /\ late' = [late EXCEPT ![c] = (mpc = "running")]
    /\ \E b \in BOOLEAN : reads' = [reads EXCEPT ![c] = b]
    /\ UNCHANGED <<main, owner, reg, wint, waked, next, worker, req, fin, asked, owed>>

Ask(c) ==
    /\ cst[c] \in {"pending", "accepted"} /\ ~fin[c] /\ asked[c] < MaxRequests
    /\ asked' = [asked EXCEPT ![c] = @ + 1]
    /\ req' = [req EXCEPT ![c] = @ + 1]
    /\ owed' = [owed EXCEPT ![c] = TRUE]
    /\ UNCHANGED <<main, kernel, worker, cst, fin, reads, late>>

Hangup(c) ==
    /\ cst[c] \in {"pending", "accepted"} /\ ~fin[c]
    /\ Cardinality({d \in Clients : fin[d]}) < MaxHangups
    /\ fin' = [fin EXCEPT ![c] = TRUE]
    /\ UNCHANGED <<main, kernel, worker, cst, req, reads, asked, owed, late>>

Init ==
    /\ mpc = "create" /\ started = 0 /\ stopping = FALSE /\ to_wake = 0 /\ epfd = {}
    /\ owner = [fd \in Fds |-> None]
    /\ reg = [w \in Workers |-> {}] /\ wint = [w \in Workers |-> {}]
    /\ waked = {} /\ backlog = <<>> /\ next = 0
    /\ wpc = [w \in Workers |-> "none"] /\ events = [w \in Workers |-> {}]
    /\ pread_que = [w \in Workers |-> <<>>] /\ ins_que = [w \in Workers |-> <<>>]
    /\ outs_que = [w \in Workers |-> <<>>] /\ closes_que = [w \in Workers |-> <<>>]
    /\ hmap = [w \in Workers |-> [fd \in Fds |-> None]]
    /\ conn = [c \in Clients |-> NoConn]
    /\ cst = [c \in Clients |-> "none"] /\ req = [c \in Clients |-> 0]
    /\ fin = [c \in Clients |-> FALSE] /\ reads = [c \in Clients |-> TRUE]
    /\ asked = [c \in Clients |-> 0] /\ owed = [c \in Clients |-> FALSE]
    /\ late = [c \in Clients |-> FALSE]

Main ==
    \/ create_epoll \/ start_thread \/ start_fails
    \/ stop_wake \/ net_server_destroy

Handle(w) ==
    \/ check_stopping(w) \/ NextPhase(w)
    \/ ts_accept(w) \/ ts_read(w) \/ ts_process(w) \/ ts_write(w)
    \/ ts_close(w) \/ ts_unmap(w)

Wait(w) == \E batch \in SUBSET Events : epoll_wait(w, batch)

Next ==
    \/ Main \/ net_server_stop
    \/ \E w \in Workers : Handle(w) \/ Wait(w)
    \/ \E c \in Clients : Connect(c) \/ Ask(c) \/ Hangup(c)

Spec == Init /\ [][Next]_vars

(* Threads are scheduled, callbacks return, and the kernel's ready list
   rotates: a descriptor that keeps being ready is returned some time.     *)
FairSpec ==
    /\ Spec
    /\ WF_vars(Main)
    /\ \A w \in Workers :
         /\ WF_vars(Handle(w)) /\ WF_vars(Wait(w))
         /\ \A e \in Events :
              SF_vars(\E batch \in SUBSET Events : e \in batch /\ epoll_wait(w, batch))

(***************************************************************************)
(* Properties                                                              *)
(***************************************************************************)

(* Descriptors, queues, connections and clients have their types.          *)
TypeOK ==
    /\ mpc \in {"create", "running", "failed", "wake", "join", "destroyed"}
    /\ started \in 0 .. NThreads /\ to_wake \in 0 .. NThreads
    /\ epfd \subseteq Workers /\ waked \subseteq Workers /\ next \in Workers
    /\ owner \in [Fds -> Clients \cup {None}]
    /\ reg \in [Workers -> SUBSET Fds] /\ wint \in [Workers -> SUBSET Fds]
    /\ wpc \in [Workers -> {"none", "check", "wait", "accept", "read", "process",
                            "write", "close", "unmap", "exited"}]
    /\ hmap \in [Workers -> [Fds -> Clients \cup {None}]]
    /\ conn \in [Clients -> [fd : Fds \cup {0}, left : 0 .. MaxOut, closed : BOOLEAN,
                             state : {"none", "open", "freed"}]]
    /\ cst \in [Clients -> {"none", "pending", "accepted", "dropped", "closed"}]

Queued(w) == pread_que[w] \o ins_que[w] \o outs_que[w] \o closes_que[w]

(* A connection is in at most one place of one worker's queues, and no queue
   outgrows its array: in particular it is closed and freed once.          *)
HandledOnce ==
    /\ TypeOK
    /\ \A w \in Workers :
         /\ \A i, j \in DOMAIN Queued(w) : Queued(w)[i] = Queued(w)[j] => i = j
         /\ \A v \in Workers \ {w} : \A i \in DOMAIN Queued(w), j \in DOMAIN Queued(v) :
              Queued(w)[i] # Queued(v)[j]
         /\ Len(Queued(w)) + Cardinality(events[w]) <= QueueSize

(* Whoever is in a queue or a map is not freed, and its descriptor is its
   own: a descriptor that was closed and given to a new client never leads
   to the old one's net_conn.                                              *)
NoStaleConnection ==
    \A w \in Workers :
      /\ \A fd \in Fds :
           hmap[w][fd] # None /\ wpc[w] # "unmap" =>
             owner[fd] = hmap[w][fd] /\ fd \in reg[w] /\ conn[hmap[w][fd]].state = "open"
      /\ \A i \in DOMAIN Queued(w) :
           LET k == conn[Queued(w)[i]] IN
           k.state = "open" /\ hmap[w][k.fd] = Queued(w)[i]

(* The process callback, which replaces conn->out, only runs for a
   connection whose previous response is out.                              *)
NoResponseOverwritten ==
    \A w \in Workers : \A i \in DOMAIN ins_que[w] : conn[ins_que[w][i]].left = 0

(* A client that connects once net_server_start has returned is not hung up
   on by the worker that accepts it.                                       *)
LateClientsKept == \A c \in Clients : late[c] => cst[c] # "dropped"

(* Every request is answered in full, unless the server closes or drops the
   connection, is told to stop, or the client hangs up or never reads;
   however small the queues are.                                           *)
RequestsAnswered ==
    \A c \in Clients :
      owed[c] ~> \/ ~owed[c] \/ cst[c] \in {"closed", "dropped"} \/ fin[c] \/ ~reads[c]
                 \/ stopping \/ mpc = "failed"

(* net_server_stop and net_server_destroy return, also when clients do not
   read what they are sent.                                                *)
StopReturns == stopping ~> mpc = "destroyed"
=============================================================================
