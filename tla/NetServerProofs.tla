-------------------------- MODULE NetServerProofs --------------------------
(***************************************************************************)
(* Theorems about NetServer, for every number of workers, clients and      *)
(* descriptors and every queue size.                                       *)
(***************************************************************************)
EXTENDS NetServer, SequenceTheorems, FiniteSetTheorems, TLAPS

(* No element is in the queue twice.                                       *)
Once(q) == \A i, j \in 1 .. Len(q) : q[i] = q[j] => i = j

(* No element is twice in four queues.                                     *)
Apart(p, q, r, s) ==
    /\ Once(p) /\ Once(q) /\ Once(r) /\ Once(s)
    /\ Range(p) \cap Range(q) = {} /\ Range(p) \cap Range(r) = {}
    /\ Range(p) \cap Range(s) = {} /\ Range(q) \cap Range(r) = {}
    /\ Range(q) \cap Range(s) = {} /\ Range(r) \cap Range(s) = {}

(* The connections in the queues of a worker.                              *)
Held(w) == Range(pread_que[w]) \cup Range(ins_que[w])
              \cup Range(outs_que[w]) \cup Range(closes_que[w])

Total(p, q, r, s) == Len(p) + Len(q) + Len(r) + Len(s)

Load(w) == Total(pread_que[w], ins_que[w], outs_que[w], closes_que[w])

QueueTypes ==
    /\ events \in [Workers -> SUBSET Events]
    /\ pread_que \in [Workers -> Seq(Clients)] /\ ins_que \in [Workers -> Seq(Clients)]
    /\ outs_que \in [Workers -> Seq(Clients)] /\ closes_que \in [Workers -> Seq(Clients)]
    /\ backlog \in Seq(Clients)
    /\ late \in [Clients -> BOOLEAN]

(* How far net_server_start and net_server_stop are.                       *)
Startup ==
    /\ mpc = "create" => started < NThreads
    /\ mpc \in {"running", "wake", "join", "destroyed"} => started = NThreads
    /\ mpc \in {"create", "running", "failed"} => to_wake = 0
    /\ mpc = "wake" => to_wake < NThreads
    /\ \A w \in Workers : w < started => w \in epfd
    /\ \A w \in Workers : w >= started => wpc[w] = "none"

LateSeen == \A c \in Clients : late[c] => epfd = Workers

(* Who owns a descriptor is accepted, owns no other, and is watched by one *)
(* worker at most; the backlog holds each waiting client once.             *)
Kernel ==
    /\ \A fd \in Fds : owner[fd] # None => cst[owner[fd]] = "accepted"
    /\ \A fd, g \in Fds : owner[fd] = owner[g] /\ owner[fd] # None => fd = g
    /\ \A w \in Workers : \A fd \in reg[w] : owner[fd] # None
    /\ \A w, v \in Workers : \A fd \in Fds : fd \in reg[w] /\ fd \in reg[v] => w = v
    /\ Once(backlog)
    /\ \A c \in Range(backlog) : cst[c] = "pending"

(* A mapped connection is open, on its own descriptor, in one map; except  *)
(* for the one that has been closed and is about to be unmapped.           *)
Unmapping(w, c) == wpc[w] = "unmap" /\ c = Head(closes_que[w])

Maps ==
    /\ \A w \in Workers : \A fd \in Fds :
         hmap[w][fd] # None =>
           /\ conn[hmap[w][fd]].fd = fd
           /\ conn[hmap[w][fd]].state = "open"
           /\ \/ owner[fd] = hmap[w][fd] /\ fd \in reg[w]
              \/ Unmapping(w, hmap[w][fd])
    /\ \A w, v \in Workers : \A fd, g \in Fds :
         hmap[w][fd] = hmap[v][g] /\ hmap[w][fd] # None => w = v /\ fd = g

(* The events of a worker are those of descriptors it watches and has no   *)
(* queued connection for; a queued connection is in the worker's map.      *)
Queues ==
    \A w \in Workers :
      /\ Apart(pread_que[w], ins_que[w], outs_que[w], closes_que[w])
      /\ \A fd \in Fds : fd \in events[w] => fd \in reg[w]
      /\ \A c \in Held(w) :
           /\ conn[c].state = "open" /\ conn[c].fd \in Fds
           /\ hmap[w][conn[c].fd] = c /\ conn[c].fd \notin events[w]

(* What is still to be read or processed has no response left over.        *)
Unanswered ==
    \A w \in Workers : \A c \in Range(pread_que[w]) \cup Range(ins_que[w]) : conn[c].left = 0

(* A worker starts a round with nothing left of the one before, and a round
   fits its arrays; what is about to be unmapped has been closed.          *)
Rounds ==
    \A w \in Workers :
      /\ wpc[w] \in {"none", "check", "wait", "exited"} =>
           /\ events[w] = {} /\ pread_que[w] = <<>> /\ ins_que[w] = <<>>
           /\ outs_que[w] = <<>> /\ closes_que[w] = <<>>
      /\ wpc[w] = "unmap" => closes_que[w] # <<>> /\ cst[Head(closes_que[w])] = "closed"
      /\ Load(w) + Cardinality(events[w]) <= QueueSize

NetInv ==
    /\ TypeOK /\ QueueTypes /\ Startup /\ LateSeen /\ LateClientsKept
    /\ Kernel /\ Maps /\ Queues /\ Unanswered /\ Rounds

----------------------------------------------------------------------------
(* Queues.                                                                 *)

(* The empty queue.                                                        *)
LEMMA EmptyQueue == Range(<<>>) = {} /\ Once(<<>>) /\ Len(<<>>) = 0
<1>1. Len(<<>>) = 0 /\ DOMAIN <<>> = 1 .. 0
  OBVIOUS
<1> QED
  BY <1>1 DEF Range, Once

(* What Append does to a queue.                                            *)
LEMMA AppendFacts ==
    ASSUME NEW S, NEW q \in Seq(S), NEW x \in S
    PROVE  /\ Append(q, x) \in Seq(S)
           /\ Range(Append(q, x)) = Range(q) \cup {x}
           /\ Len(Append(q, x)) = Len(q) + 1
           /\ Once(q) /\ x \notin Range(q) => Once(Append(q, x))
           /\ q # <<>> => Head(Append(q, x)) = Head(q)
           /\ Append(q, x) # <<>>
<1> DEFINE r == Append(q, x)
<1>1. r \in Seq(S) /\ Len(r) = Len(q) + 1 /\ Len(q) \in Nat
  OBVIOUS
<1>2. \A i \in 1 .. Len(q) : r[i] = q[i]
  OBVIOUS
<1>3. r[Len(q) + 1] = x
  OBVIOUS
<1>4. Range(r) = {r[i] : i \in 1 .. Len(r)} /\ Range(q) = {q[i] : i \in 1 .. Len(q)}
  BY <1>1, RangeEquality
<1>5. q # <<>> => Len(q) > 0
  BY <1>1, EmptySeq
<1> HIDE DEF r
<1>6. Range(r) = Range(q) \cup {x}
  BY <1>1, <1>2, <1>3, <1>4
<1>7. Once(q) /\ x \notin Range(q) => Once(r)
  BY <1>1, <1>2, <1>3, <1>4 DEF Once
<1>8. q # <<>> => Head(r) = Head(q)
  BY <1>1, <1>2, <1>5
<1>9. r # <<>>
  BY <1>1
<1> QED
  BY <1>1, <1>6, <1>7, <1>8, <1>9 DEF r

(* What taking the head off a queue does.                                  *)
LEMMA TailFacts ==
    ASSUME NEW S, NEW q \in Seq(S), q # <<>>
    PROVE  /\ Tail(q) \in Seq(S) /\ Head(q) \in S
           /\ Range(q) = Range(Tail(q)) \cup {Head(q)}
           /\ Len(Tail(q)) = Len(q) - 1
           /\ Once(q) => Once(Tail(q)) /\ Head(q) \notin Range(Tail(q))
<1> DEFINE r == Tail(q)
<1>1. r \in Seq(S) /\ Len(r) = Len(q) - 1 /\ Len(q) \in Nat \ {0} /\ Len(r) \in Nat
      /\ Head(q) \in S /\ Head(q) = q[1]
  OBVIOUS
<1>2. \A i \in 1 .. Len(r) : r[i] = q[i + 1]
  OBVIOUS
<1>4. Range(r) = {r[i] : i \in 1 .. Len(r)} /\ Range(q) = {q[i] : i \in 1 .. Len(q)}
  BY <1>1, RangeEquality
<1> HIDE DEF r
<1>5. ASSUME NEW i \in 1 .. Len(q), i # 1 PROVE i - 1 \in 1 .. Len(r) /\ r[i - 1] = q[i]
  BY <1>1, <1>2, <1>5
<1>6. Range(q) = Range(r) \cup {q[1]}
  BY <1>1, <1>2, <1>4, <1>5
<1>7. Once(q) => Once(r) /\ q[1] \notin Range(r)
  BY <1>1, <1>2, <1>4 DEF Once
<1> QED
  BY <1>1, <1>6, <1>7 DEF r

(* A queue is empty exactly when it holds nothing; its head is in it.      *)
LEMMA HeadHeld ==
    ASSUME NEW S, NEW q \in Seq(S), q # <<>>
    PROVE  Head(q) \in Range(q)
  BY TailFacts

(* The order of the four queues does not matter.                           *)
LEMMA ApartSwap ==
    ASSUME NEW p, NEW q, NEW r, NEW s, Apart(p, q, r, s)
    PROVE  Apart(q, p, r, s) /\ Apart(r, q, p, s) /\ Apart(s, q, r, p)
  BY DEF Apart

(* Appending what is in none of the queues.                                *)
LEMMA ApartAppend ==
    ASSUME NEW S, NEW p \in Seq(S), NEW q, NEW r, NEW s, Apart(p, q, r, s),
           NEW x \in S, x \notin Range(p) \cup Range(q) \cup Range(r) \cup Range(s)
    PROVE  Apart(Append(p, x), q, r, s)
<1>1. Range(Append(p, x)) = Range(p) \cup {x} /\ Once(Append(p, x))
  BY AppendFacts DEF Apart
<1> QED
  BY <1>1 DEF Apart

(* Taking the head off one of the queues.                                  *)
LEMMA ApartTail ==
    ASSUME NEW S, NEW p \in Seq(S), NEW q, NEW r, NEW s, Apart(p, q, r, s), p # <<>>
    PROVE  /\ Apart(Tail(p), q, r, s)
           /\ Head(p) \notin Range(Tail(p)) \cup Range(q) \cup Range(r) \cup Range(s)
<1>1. Range(p) = Range(Tail(p)) \cup {Head(p)} /\ Once(Tail(p))
      /\ Head(p) \notin Range(Tail(p))
  BY TailFacts DEF Apart
<1> QED
  BY <1>1 DEF Apart

(* Counting four queues.                                                   *)
LEMMA TotalFacts ==
    ASSUME NEW S, NEW p \in Seq(S), NEW q \in Seq(S), NEW r \in Seq(S), NEW s \in Seq(S)
    PROVE  /\ Total(p, q, r, s) \in Nat
           /\ Total(q, p, r, s) = Total(p, q, r, s) /\ Total(r, q, p, s) = Total(p, q, r, s)
           /\ Total(s, q, r, p) = Total(p, q, r, s)
<1>1. Len(p) \in Nat /\ Len(q) \in Nat /\ Len(r) \in Nat /\ Len(s) \in Nat
  BY LenProperties
<1>2. PICK i, j, k, l \in Nat : i = Len(p) /\ j = Len(q) /\ k = Len(r) /\ l = Len(s)
  BY <1>1, Zenon
<1>3. /\ Total(p, q, r, s) = i + j + k + l /\ Total(q, p, r, s) = j + i + k + l
      /\ Total(r, q, p, s) = k + j + i + l /\ Total(s, q, r, p) = l + j + k + i
  BY <1>2, Zenon DEF Total
<1> QED
  BY <1>3

(* An element is appended to one of the queues.                            *)
LEMMA TotalAppend ==
    ASSUME NEW S, NEW p \in Seq(S), NEW q \in Seq(S), NEW r \in Seq(S), NEW s \in Seq(S),
           NEW x \in S
    PROVE  /\ Total(Append(p, x), q, r, s) = Total(p, q, r, s) + 1
           /\ Total(p, q, Append(r, x), s) = Total(p, q, r, s) + 1
           /\ Total(p, q, r, Append(s, x)) = Total(p, q, r, s) + 1
<1>1. Len(p) \in Nat /\ Len(q) \in Nat /\ Len(r) \in Nat /\ Len(s) \in Nat
  BY LenProperties
<1>2. /\ Len(Append(p, x)) = Len(p) + 1
      /\ Len(Append(r, x)) = Len(r) + 1 /\ Len(Append(s, x)) = Len(s) + 1
  BY AppendFacts
<1>3. PICK i, j, k, l \in Nat : i = Len(p) /\ j = Len(q) /\ k = Len(r) /\ l = Len(s)
  BY <1>1, Zenon
<1>4. /\ Total(Append(p, x), q, r, s) = (i + 1) + j + k + l
      /\ Total(p, q, Append(r, x), s) = i + j + (k + 1) + l
      /\ Total(p, q, r, Append(s, x)) = i + j + k + (l + 1)
      /\ Total(p, q, r, s) = i + j + k + l
  BY <1>2, <1>3, Zenon DEF Total
<1> QED
  BY <1>4

(* An element leaves the first queue, perhaps for another one.             *)
LEMMA TotalMove ==
    ASSUME NEW S, NEW p \in Seq(S), NEW q \in Seq(S), NEW r \in Seq(S), NEW s \in Seq(S),
           p # <<>>, NEW x \in S
    PROVE  /\ Total(Tail(p), q, r, s) = Total(p, q, r, s) - 1
           /\ Total(Tail(p), Append(q, x), r, s) = Total(p, q, r, s)
           /\ Total(Tail(p), q, Append(r, x), s) = Total(p, q, r, s)
           /\ Total(Tail(p), q, r, Append(s, x)) = Total(p, q, r, s)
<1>1. Len(p) \in Nat /\ Len(q) \in Nat /\ Len(r) \in Nat /\ Len(s) \in Nat
  BY LenProperties
<1>2. /\ Len(Tail(p)) = Len(p) - 1 /\ Len(Append(q, x)) = Len(q) + 1
      /\ Len(Append(r, x)) = Len(r) + 1 /\ Len(Append(s, x)) = Len(s) + 1
  BY AppendFacts, TailFacts
<1>3. PICK i, j, k, l \in Nat : i = Len(p) /\ j = Len(q) /\ k = Len(r) /\ l = Len(s)
  BY <1>1, Zenon
<1>4. /\ Total(Tail(p), q, r, s) = (i - 1) + j + k + l
      /\ Total(Tail(p), Append(q, x), r, s) = (i - 1) + (j + 1) + k + l
      /\ Total(Tail(p), q, Append(r, x), s) = (i - 1) + j + (k + 1) + l
      /\ Total(Tail(p), q, r, Append(s, x)) = (i - 1) + j + k + (l + 1)
      /\ Total(p, q, r, s) = i + j + k + l
  BY <1>2, <1>3, Zenon DEF Total
<1> QED
  BY <1>4

(* The lowest of some descriptors is one of them.                          *)
LEMMA MinFree ==
    ASSUME NEW S \in SUBSET Fds, S # {}
    PROVE  Min(S) \in S
<1> DEFINE R == OpToRel(<, Nat)
<1>1. IsWellFoundedOn(R, Nat)
  BY NatLessThanWellFounded
<1>2. S \subseteq Nat
  BY NetAssumption DEF Fds
<1>3. \A x, y \in Nat : <<y, x>> \notin R => x <= y
  BY DEF OpToRel
<1> HIDE DEF R
<1>4. PICK x \in S : \A y \in S : ~(<<y, x>> \in R)
  BY <1>1, <1>2, WFMin
<1>5. \A y \in S : x <= y
  BY <1>2, <1>3, <1>4
<1> QED
  BY <1>5 DEF Min

(* Four queues without repetitions make one sequence without repetitions.  *)
LEMMA ConcatFacts ==
    ASSUME NEW S, NEW p \in Seq(S), NEW q \in Seq(S), Once(p), Once(q),
           Range(p) \cap Range(q) = {}
    PROVE  /\ p \o q \in Seq(S) /\ Once(p \o q)
           /\ Range(p \o q) = Range(p) \cup Range(q)
           /\ Len(p \o q) = Len(p) + Len(q)
<1> DEFINE r == p \o q
<1>1. r \in Seq(S) /\ Len(r) = Len(p) + Len(q) /\ Len(p) \in Nat /\ Len(q) \in Nat
  OBVIOUS
<1>2. \A i \in 1 .. Len(p) : r[i] = p[i]
  OBVIOUS
<1>3. \A i \in 1 .. Len(r) : i > Len(p) => r[i] = q[i - Len(p)]
  OBVIOUS
<1>4. /\ Range(r) = {r[i] : i \in 1 .. Len(r)} /\ Range(q) = {q[i] : i \in 1 .. Len(q)}
      /\ Range(p) = {p[i] : i \in 1 .. Len(p)}
  BY <1>1, RangeEquality
<1>5. Range(r) = Range(p) \cup Range(q)
  BY RangeConcatenation
<1> HIDE DEF r
<1>6. ASSUME NEW i \in 1 .. Len(r), i > Len(p)
      PROVE  i - Len(p) \in 1 .. Len(q) /\ r[i] = q[i - Len(p)] /\ r[i] \in Range(q)
  BY <1>1, <1>3, <1>4, <1>6
<1>7. ASSUME NEW i \in 1 .. Len(r), ~(i > Len(p))
      PROVE  i \in 1 .. Len(p) /\ r[i] = p[i] /\ r[i] \in Range(p)
  BY <1>1, <1>2, <1>4, <1>7
<1>8. ASSUME NEW i \in 1 .. Len(r), NEW j \in 1 .. Len(r), r[i] = r[j] PROVE i = j
  <2>1. CASE i > Len(p) /\ j > Len(p)
    <3>1. i - Len(p) = j - Len(p)
      BY <1>6, <1>8, <2>1 DEF Once
    <3> QED
      BY <3>1, <1>1
  <2>2. CASE ~(i > Len(p)) /\ ~(j > Len(p))
    BY <1>7, <1>8, <2>2 DEF Once
  <2>3. CASE ~(i > Len(p) <=> j > Len(p))
    BY <1>6, <1>7, <1>8, <2>3
  <2> QED
    BY <2>1, <2>2, <2>3
<1> QED
  BY <1>1, <1>5, <1>8 DEF r, Once

----------------------------------------------------------------------------
(* What a step leaves alone stays sound.                                   *)

(* Threads that are not started yet do not run.                            *)
LEMMA StartupFrame ==
    ASSUME NetInv, UNCHANGED <<mpc, started, to_wake, epfd>>,
           \A w \in Workers : wpc[w] = "none" => wpc'[w] = "none"
    PROVE  Startup'
  BY DEF NetInv, TypeOK, Startup, Workers

(* A step that drops nobody keeps the late clients.                        *)
LEMMA LateFrame ==
    ASSUME NetInv, UNCHANGED <<late, epfd>>,
           \A c \in Clients : cst'[c] = "dropped" => cst[c] = "dropped"
    PROVE  LateSeen' /\ LateClientsKept'
<1>1. LateSeen'
  BY DEF NetInv, LateSeen
<1>2. LateClientsKept'
  BY DEF NetInv, LateClientsKept
<1> QED
  BY <1>1, <1>2

(* A step of the server's own threads and the clients' requests.           *)
LEMMA KernelFrame ==
    ASSUME NetInv, UNCHANGED <<owner, reg, backlog, cst>>
    PROVE  Kernel'
  BY DEF NetInv, Kernel

(* A step that leaves the maps, and the descriptors and states of the
   connections, and does not disturb a worker that unmaps.                 *)
LEMMA MapsFrame ==
    ASSUME NetInv, UNCHANGED <<hmap, owner, reg>>,
           \A c \in Clients : conn'[c].fd = conn[c].fd /\ conn'[c].state = conn[c].state,
           \A w \in Workers : wpc[w] = "unmap" =>
                wpc'[w] = "unmap" /\ Head(closes_que'[w]) = Head(closes_que[w])
    PROVE  Maps'
<1> USE DEF Unmapping
<1>1. ASSUME NEW w \in Workers, NEW fd \in Fds, hmap[w][fd] # None
      PROVE  hmap[w][fd] \in Clients
  BY <1>1 DEF NetInv, TypeOK
<1> QED
  BY <1>1 DEF NetInv, Maps

(* A step that leaves the queues and the connections.                      *)
LEMMA QueuesFrame ==
    ASSUME NetInv, UNCHANGED <<hmap, conn, pread_que, ins_que, outs_que, closes_que>>,
           \A w \in Workers : events'[w] \subseteq events[w] /\ reg[w] \subseteq reg'[w]
    PROVE  Queues' /\ Unanswered'
<1>1. \A w \in Workers : Held(w)' = Held(w)
  BY DEF Held
<1>2. Queues'
  BY <1>1 DEF NetInv, Queues
<1>3. Unanswered'
  BY DEF NetInv, Unanswered
<1> QED
  BY <1>2, <1>3

(* A step that leaves the queues and where the workers are.                *)
LEMMA RoundsFrame ==
    ASSUME NetInv, UNCHANGED <<wpc, queues>>,
           \A c \in Clients : cst[c] = "closed" => cst'[c] = "closed"
    PROVE  Rounds'
<1>1. ASSUME NEW w \in Workers, wpc[w] = "unmap" PROVE Head(closes_que[w]) \in Clients
  <2>1. closes_que[w] \in Seq(Clients) /\ closes_que[w] # <<>>
    BY <1>1 DEF NetInv, QueueTypes, Rounds
  <2> QED
    BY <2>1, TailFacts
<1>2. \A w \in Workers : Load(w)' = Load(w)
  BY DEF Load, queues
<1> QED
  BY <1>1, <1>2 DEF NetInv, Rounds, queues

(* The invariant holds before the server is started.                       *)
LEMMA InitNet == Init => NetInv
<1> SUFFICES ASSUME Init PROVE NetInv
  OBVIOUS
<1>0. 0 \in Workers
  BY NetAssumption DEF Workers
<1>1. TypeOK
  <2>1. NoConn \in [fd : Fds \cup {0}, left : 0 .. MaxOut, closed : BOOLEAN,
                    state : {"none", "open", "freed"}]
    BY NetAssumption DEF NoConn
  <2>2. started \in 0 .. NThreads /\ to_wake \in 0 .. NThreads
    BY NetAssumption DEF Init
  <2> QED
    BY <1>0, <2>1, <2>2 DEF Init, TypeOK
<1>2. QueueTypes
  <2>1. late \in [Clients -> BOOLEAN]
    BY DEF Init
  <2> QED
    BY <2>1 DEF Init, QueueTypes
<1>3. Startup
  BY NetAssumption DEF Init, Startup, Workers
<1>4. LateSeen /\ LateClientsKept
  BY DEF Init, LateSeen, LateClientsKept
<1>5. Kernel
  BY EmptyQueue DEF Init, Kernel
<1>6. Maps
  BY DEF Init, Maps
<1>7. Queues
  BY EmptyQueue DEF Init, Queues, Apart, Held
<1>8. Unanswered
  BY EmptyQueue DEF Init, Unanswered
<1>9. Rounds
  <2>1. Cardinality({}) = 0
    BY FS_EmptySet
  <2> QED
    BY <2>1, EmptyQueue, NetAssumption DEF Init, Rounds, Load, Total
<1> QED
  BY <1>1, <1>2, <1>3, <1>4, <1>5, <1>6, <1>7, <1>8, <1>9 DEF NetInv

(* The thread that starts and stops the server.                            *)
LEMMA MainStep ==
    ASSUME NetInv, Main \/ net_server_stop
    PROVE  NetInv'
<1>0. /\ \A w \in Workers : w \in Int /\ 0 <= w /\ w < NThreads
      /\ \A w \in Int : 0 <= w /\ w < NThreads => w \in Workers
  BY NetAssumption DEF Workers
<1>1. /\ UNCHANGED <<queues, hmap, conn, client, owner, reg, wint, next>>
      /\ backlog' = backlog \/ backlog' = <<>>
      /\ epfd \subseteq epfd'
  BY DEF Main, create_epoll, start_thread, start_fails, net_server_stop, stop_wake,
         net_server_destroy, worker, kernel, queues
<1>2. /\ mpc' \in {"create", "running", "failed", "wake", "join", "destroyed"}
      /\ started' \in 0 .. NThreads /\ to_wake' \in 0 .. NThreads
      /\ epfd' \subseteq Workers /\ waked' \subseteq Workers
      /\ wpc' \in [Workers -> {"none", "check", "wait", "accept", "read", "process",
                              "write", "close", "unmap", "exited"}]
      /\ \A w \in Workers : \/ wpc'[w] = wpc[w]
                            \/ wpc[w] = "none" /\ wpc'[w] = "check"
      /\ Startup'
  <2>0. /\ mpc \in {"create", "running", "failed", "wake", "join", "destroyed"}
        /\ started \in 0 .. NThreads /\ to_wake \in 0 .. NThreads
        /\ epfd \subseteq Workers /\ waked \subseteq Workers
        /\ wpc \in [Workers -> {"none", "check", "wait", "accept", "read", "process",
                              "write", "close", "unmap", "exited"}]
        /\ Startup
    BY DEF NetInv, TypeOK
  <2> USE <1>0, <2>0, NetAssumption DEF Startup, kernel, worker, Goto
  <2>1. CASE create_epoll
    BY <2>1 DEF create_epoll
  <2>2. CASE start_thread
    BY <2>2 DEF start_thread
  <2>3. CASE start_fails
    BY <2>3 DEF start_fails
  <2>4. CASE net_server_stop
    BY <2>4 DEF net_server_stop
  <2>5. CASE stop_wake
    BY <2>5 DEF stop_wake
  <2>6. CASE net_server_destroy
    BY <2>6 DEF net_server_destroy
  <2> HIDE <1>0, <2>0, NetAssumption DEF Startup, kernel, worker, Goto
  <2> QED
    BY <2>1, <2>2, <2>3, <2>4, <2>5, <2>6 DEF Main
<1>3. TypeOK' /\ QueueTypes'
  <2>1. backlog' \in Seq(Clients)
    BY <1>1, EmptySeq DEF NetInv, QueueTypes
  <2>2. TypeOK'
    BY <1>1, <1>2 DEF NetInv, TypeOK, client
  <2>3. QueueTypes'
    BY <1>1, <2>1 DEF NetInv, QueueTypes, client, queues
  <2> QED
    BY <2>2, <2>3
<1>4. LateSeen' /\ LateClientsKept'
  <2>1. epfd' \subseteq Workers
    BY <1>2
  <2> QED
    BY <1>1, <2>1 DEF NetInv, LateSeen, LateClientsKept, client
<1>5. Kernel'
  BY <1>1, EmptyQueue DEF NetInv, Kernel, client
<1>6. Maps'
  BY <1>1, <1>2, MapsFrame DEF queues
<1>7. Queues' /\ Unanswered'
  BY <1>1, QueuesFrame DEF queues
<1>8. Rounds'
  <2>1. \A w \in Workers : Load(w)' = Load(w)
    BY <1>1 DEF Load, queues
  <2> QED
    BY <2>1, <1>1, <1>2 DEF NetInv, Rounds, queues, client
<1> QED
  BY <1>2, <1>3, <1>4, <1>5, <1>6, <1>7, <1>8 DEF NetInv

(* The clients.                                                            *)
LEMMA ClientStep ==
    ASSUME NetInv, NEW c \in Clients, Connect(c) \/ Ask(c) \/ Hangup(c)
    PROVE  NetInv'
<1>1. CASE Connect(c)
  <2>0. UNCHANGED <<main, owner, reg, wint, waked, next, worker>>
    BY <1>1 DEF Connect
  <2>1. backlog' = Append(backlog, c) /\ cst' = [cst EXCEPT ![c] = "pending"] /\ cst[c] = "none"
    BY <1>1 DEF Connect
  <2>2. TypeOK'
    BY <2>0, <2>1 DEF NetInv, TypeOK, main, worker
  <2>3. backlog \in Seq(Clients)
    BY DEF NetInv, QueueTypes
  <2>4. QueueTypes'
    <3>1. backlog' \in Seq(Clients)
      BY <2>1, <2>3
    <3>2. late' \in [Clients -> BOOLEAN]
      BY <1>1, Zenon DEF Connect, NetInv, QueueTypes
    <3> QED
      BY <2>0, <3>1, <3>2 DEF NetInv, QueueTypes, worker, queues
  <2>5. Startup'
    BY <2>0, StartupFrame DEF main, worker
  <2>6. LateSeen'
    <3> SUFFICES ASSUME NEW d \in Clients, late'[d] PROVE epfd' = Workers
      BY DEF LateSeen
    <3>1. CASE d = c
      <4>1. mpc = "running"
        BY <1>1, <3>1, Zenon DEF Connect, NetInv, QueueTypes
      <4>2. \A w \in Workers : w \in epfd
        BY <4>1, NetAssumption DEF NetInv, Startup, Workers
      <4>3. epfd \subseteq Workers
        BY DEF NetInv, TypeOK
      <4> QED
        BY <2>0, <4>2, <4>3 DEF main
    <3>2. CASE d # c
      <4>1. late[d]
        BY <1>1, <3>2, Zenon DEF Connect, NetInv, QueueTypes
      <4> QED
        BY <2>0, <4>1 DEF NetInv, LateSeen, main
    <3> QED
      BY <3>1, <3>2
  <2>7. LateClientsKept'
    <3> SUFFICES ASSUME NEW d \in Clients, late'[d] PROVE cst'[d] # "dropped"
      BY DEF LateClientsKept
    <3>1. CASE d = c
      BY <2>1, <3>1 DEF NetInv, TypeOK
    <3>2. CASE d # c
      <4>1. late[d]
        BY <1>1, <3>2, Zenon DEF Connect, NetInv, QueueTypes
      <4> QED
        BY <2>1, <3>2, <4>1 DEF NetInv, TypeOK, LateClientsKept
    <3> QED
      BY <3>1, <3>2
  <2>8. Kernel'
    <3>1. c \notin Range(backlog) /\ Once(backlog)
      BY <2>1 DEF NetInv, Kernel
    <3>2. Once(backlog') /\ Range(backlog') = Range(backlog) \cup {c}
      BY <2>1, <2>3, <3>1, AppendFacts
    <3>3. Range(backlog) \subseteq Clients
      BY <2>3, RangeOfSeq
    <3> QED
      BY <2>0, <2>1, <3>2, <3>3 DEF NetInv, Kernel, TypeOK
  <2>9. Maps'
    BY <2>0, MapsFrame DEF worker, queues
  <2>10. Queues' /\ Unanswered'
    BY <2>0, QueuesFrame DEF worker, queues
  <2>11. Rounds'
    <3>1. \A d \in Clients : cst[d] = "closed" => cst'[d] = "closed"
      BY <2>1 DEF NetInv, TypeOK
    <3> QED
      BY <2>0, <3>1, RoundsFrame DEF worker
  <2> QED
    BY <2>2, <2>4, <2>5, <2>6, <2>7, <2>8, <2>9, <2>10, <2>11 DEF NetInv
<1>2. CASE Ask(c) \/ Hangup(c)
  <2>0. UNCHANGED <<main, kernel, worker, cst, late>>
    BY <1>2 DEF Ask, Hangup
  <2>1. TypeOK' /\ QueueTypes'
    BY <2>0 DEF NetInv, TypeOK, QueueTypes, main, kernel, worker, queues
  <2>2. Startup'
    BY <2>0, StartupFrame DEF main, worker
  <2>3. LateSeen' /\ LateClientsKept'
    BY <2>0, LateFrame DEF main
  <2>4. Kernel' /\ Maps'
    BY <2>0, KernelFrame, MapsFrame DEF kernel, worker, queues
  <2>5. Queues' /\ Unanswered' /\ Rounds'
    BY <2>0, QueuesFrame, RoundsFrame DEF kernel, worker, queues
  <2> QED
    BY <2>1, <2>2, <2>3, <2>4, <2>5 DEF NetInv
<1> QED
  BY <1>1, <1>2

----------------------------------------------------------------------------
(* A worker's rounds.                                                      *)

(* The events of a worker are finitely many.                               *)
LEMMA EventsFinite ==
    ASSUME NEW S \in SUBSET Events
    PROVE  IsFiniteSet(S) /\ Cardinality(S) \in Nat
<1>1. IsFiniteSet(Fds)
  BY NetAssumption, FS_Interval DEF Fds
<1>2. IsFiniteSet((Fds \cup {LISTEN}) \cup {WAKE})
  BY <1>1, FS_AddElement
<1>3. Events = (Fds \cup {LISTEN}) \cup {WAKE}
  BY DEF Events
<1>4. IsFiniteSet(S)
  BY <1>2, <1>3, FS_Subset
<1> QED
  BY <1>4, FS_CardinalityType

(* A worker goes from one phase to another.                                *)
LEMMA GotoStep ==
    ASSUME NetInv, NEW w \in Workers, check_stopping(w) \/ NextPhase(w)
    PROVE  NetInv'
<1> DEFINE l == wpc'[w]
<1>1. UNCHANGED <<main, kernel, queues, hmap, conn, client>>
  BY DEF check_stopping, NextPhase
<1>2. /\ wpc' \in [Workers -> {"none", "check", "wait", "accept", "read", "process",
                              "write", "close", "unmap", "exited"}]
      /\ \A v \in Workers : v # w => wpc'[v] = wpc[v]
      /\ wpc[w] \notin {"none", "unmap"} /\ wpc'[w] # "unmap"
      /\ wpc'[w] \in {"none", "check", "wait", "exited"} =>
           \/ wpc[w] = "check"
           \/ /\ events[w] = {} /\ pread_que[w] = <<>> /\ ins_que[w] = <<>>
              /\ outs_que[w] = <<>> /\ closes_que[w] = <<>>
  <2>1. wpc \in [Workers -> {"none", "check", "wait", "accept", "read", "process",
                              "write", "close", "unmap", "exited"}]
    BY DEF NetInv, TypeOK
  <2>2. CASE check_stopping(w)
    BY <2>1, <2>2 DEF check_stopping, Goto
  <2>3. CASE NextPhase(w)
    BY <2>1, <2>3 DEF NextPhase, Goto, PhaseDue
  <2> QED
    BY <2>2, <2>3
<1>3. TypeOK' /\ QueueTypes'
  BY <1>1, <1>2 DEF NetInv, TypeOK, QueueTypes, main, kernel, queues, client
<1>4. Startup'
  BY <1>1, <1>2, StartupFrame DEF main
<1>5. LateSeen' /\ LateClientsKept'
  BY <1>1, LateFrame DEF main, client
<1>6. Kernel' /\ Maps'
  <2>1. Kernel'
    BY <1>1, KernelFrame DEF kernel, client
  <2>2. Maps'
    BY <1>1, <1>2, MapsFrame DEF kernel, queues
  <2> QED
    BY <2>1, <2>2
<1>7. Queues' /\ Unanswered'
  BY <1>1, QueuesFrame DEF kernel, queues
<1>8. Rounds'
  <2>1. \A v \in Workers : Load(v)' = Load(v)
    BY <1>1 DEF Load, queues
  <2>2. \A v \in Workers : Load(v) + Cardinality(events[v]) <= QueueSize
    BY DEF NetInv, Rounds
  <2> QED
    BY <1>1, <1>2, <2>1, <2>2 DEF NetInv, Rounds, queues, client
<1> QED
  BY <1>3, <1>4, <1>5, <1>6, <1>7, <1>8 DEF NetInv

(* epoll_wait starts a round.                                              *)
LEMMA WaitStep ==
    ASSUME NetInv, NEW w \in Workers, NEW batch \in SUBSET Events, epoll_wait(w, batch)
    PROVE  NetInv'
<1>1. UNCHANGED <<main, kernel, pread_que, ins_que, outs_que, closes_que, hmap, conn, client>>
  BY DEF epoll_wait
<1>2. /\ wpc' = [wpc EXCEPT ![w] = "accept"] /\ events' = [events EXCEPT ![w] = batch]
      /\ wpc[w] = "wait"
  BY DEF epoll_wait, Goto
<1>3. /\ wpc \in [Workers -> {"none", "check", "wait", "accept", "read", "process",
                             "write", "close", "unmap", "exited"}]
      /\ events \in [Workers -> SUBSET Events]
  BY DEF NetInv, TypeOK, QueueTypes
<1>4. TypeOK' /\ QueueTypes'
  <2>1. events' \in [Workers -> SUBSET Events]
    BY <1>2, <1>3
  <2> QED
    BY <1>1, <1>2, <2>1 DEF NetInv, TypeOK, QueueTypes, main, kernel, client
<1>5. Startup'
  BY <1>1, <1>2, <1>3, StartupFrame DEF main
<1>6. LateSeen' /\ LateClientsKept'
  BY <1>1, LateFrame DEF main, client
<1>7. Kernel' /\ Maps'
  <2>1. Kernel'
    BY <1>1, KernelFrame DEF kernel, client
  <2>2. Maps'
    BY <1>1, <1>2, <1>3, MapsFrame DEF kernel
  <2> QED
    BY <2>1, <2>2
<1>8. /\ pread_que[w] = <<>> /\ ins_que[w] = <<>> /\ outs_que[w] = <<>> /\ closes_que[w] = <<>>
  BY <1>2 DEF NetInv, Rounds
<1>9. Queues' /\ Unanswered'
  <2>1. \A v \in Workers : Held(v)' = Held(v)
    BY <1>1 DEF Held
  <2>2. Held(w) = {}
    BY <1>8, EmptyQueue DEF Held
  <2>3. \A fd \in Fds : fd \in batch => fd \in reg[w]
    <3>1. batch \subseteq Ready(w)
      BY DEF epoll_wait
    <3>2. LISTEN \notin Fds /\ WAKE \notin Fds
      BY NetAssumption DEF Fds, LISTEN, WAKE
    <3> QED
      BY <3>1, <3>2 DEF Ready
  <2>4. Queues'
    BY <1>1, <1>2, <1>3, <2>1, <2>2, <2>3 DEF NetInv, Queues, kernel
  <2>5. Unanswered'
    BY <1>1 DEF NetInv, Unanswered
  <2> QED
    BY <2>4, <2>5
<1>10. Rounds'
  <2>1. \A v \in Workers : Load(v)' = Load(v)
    BY <1>1 DEF Load
  <2>2. Load(w) = 0
    BY <1>8, EmptyQueue DEF Load, Total
  <2>3. Cardinality(batch) <= QueueSize
    BY NetAssumption DEF epoll_wait
  <2>4. Load(w) + Cardinality(batch) <= QueueSize
    <3>1. Cardinality(batch) \in Nat
      BY EventsFinite
    <3> QED
      BY <3>1, <2>2, <2>3
  <2>5. \A v \in Workers : Load(v) + Cardinality(events[v]) <= QueueSize
    BY DEF NetInv, Rounds
  <2>6. \A v \in Workers : (Load(v) + Cardinality(events[v]))' <= QueueSize
    BY <1>2, <1>3, <2>1, <2>4, <2>5
  <2> QED
    BY <1>1, <1>2, <1>3, <2>6 DEF NetInv, Rounds, client
<1> QED
  BY <1>4, <1>5, <1>6, <1>7, <1>9, <1>10 DEF NetInv

(* What taking an event out of the batch does.                             *)
LEMMA HandledFacts ==
    ASSUME NetInv, NEW w \in Workers, NEW e, Handled(w, e)
    PROVE  /\ UNCHANGED <<main, wpc, ins_que, late>> /\ wpc[w] = "accept"
           /\ events' \in [Workers -> SUBSET Events]
           /\ e \in events[w] /\ events'[w] = events[w] \ {e}
           /\ \A v \in Workers : v # w => events'[v] = events[v]
           /\ Cardinality(events'[w]) = Cardinality(events[w]) - 1
           /\ Cardinality(events[w]) \in Nat
           /\ Startup'
<1>1. events \in [Workers -> SUBSET Events]
  BY DEF NetInv, QueueTypes
<1>2. UNCHANGED <<main, wpc, ins_que, late>> /\ wpc[w] = "accept" /\ e \in events[w]
  BY DEF Handled
<1>3. /\ events' \in [Workers -> SUBSET Events]
      /\ events'[w] = events[w] \ {e}
      /\ \A v \in Workers : v # w => events'[v] = events[v]
  BY <1>1 DEF Handled
<1>4. IsFiniteSet(events[w]) /\ Cardinality(events[w]) \in Nat
  BY <1>1, EventsFinite
<1>5. Cardinality(events'[w]) = Cardinality(events[w]) - 1
  BY <1>2, <1>3, <1>4, FS_RemoveElement
<1>6. Startup'
  BY <1>2, StartupFrame DEF main
<1> QED
  BY <1>2, <1>3, <1>4, <1>5, <1>6

(* The connections of a round are counted.                                 *)
LEMMA LoadNat ==
    ASSUME QueueTypes, NEW w \in Workers
    PROVE  Load(w) \in Nat
<1>1. /\ pread_que[w] \in Seq(Clients) /\ ins_que[w] \in Seq(Clients)
      /\ outs_que[w] \in Seq(Clients) /\ closes_que[w] \in Seq(Clients)
  BY DEF QueueTypes
<1> QED
  BY <1>1, TotalFacts, Zenon DEF Load

(* An event that leads to no connection.                                   *)
LEMMA DroppedEvent ==
    ASSUME NetInv, NEW w \in Workers, NEW e, Handled(w, e),
           UNCHANGED <<pread_que, outs_que, closes_que>>,
           \A c \in Clients : cst[c] = "closed" => cst'[c] = "closed"
    PROVE  Rounds'
<1>1. /\ UNCHANGED <<wpc, ins_que>> /\ wpc[w] = "accept"
      /\ \A v \in Workers : v # w => events'[v] = events[v]
      /\ Cardinality(events'[w]) = Cardinality(events[w]) - 1
      /\ Cardinality(events[w]) \in Nat
  BY HandledFacts
<1>2. \A v \in Workers : Load(v)' = Load(v)
  BY <1>1 DEF Load
<1>3. \A v \in Workers : Load(v) \in Nat
  BY LoadNat DEF NetInv
<1>4. \A v \in Workers : Load(v) + Cardinality(events[v]) <= QueueSize
  BY DEF NetInv, Rounds
<1>5. \A v \in Workers : (Load(v) + Cardinality(events[v]))' <= QueueSize
  BY <1>1, <1>2, <1>3, <1>4, NetAssumption
<1>6. ASSUME NEW v \in Workers, wpc[v] = "unmap" PROVE Head(closes_que[v]) \in Clients
  <2>1. closes_que[v] \in Seq(Clients) /\ closes_que[v] # <<>>
    BY <1>6 DEF NetInv, QueueTypes, Rounds
  <2> QED
    BY <2>1, TailFacts
<1> QED
  BY <1>1, <1>5, <1>6 DEF NetInv, Rounds

(* ts_accept: the wake-up descriptor.                                      *)
LEMMA AcceptWakeStep ==
    ASSUME NetInv, NEW w \in Workers, accept_wake(w)
    PROVE  NetInv'
<1>1. /\ Handled(w, WAKE) /\ waked' = waked \ {w}
      /\ UNCHANGED <<owner, reg, wint, backlog, next, pread_que, outs_que, closes_que,
                     hmap, conn, cst>>
  BY DEF accept_wake
<1>2. /\ UNCHANGED <<main, wpc, ins_que, late>>
      /\ events' \in [Workers -> SUBSET Events]
      /\ \A v \in Workers : events'[v] \subseteq events[v]
      /\ Startup'
  BY <1>1, HandledFacts
<1>3. TypeOK' /\ QueueTypes'
  BY <1>1, <1>2 DEF NetInv, TypeOK, QueueTypes, main
<1>4. LateSeen' /\ LateClientsKept'
  BY <1>1, <1>2, LateFrame DEF main
<1>5. Kernel' /\ Maps'
  BY <1>1, <1>2, KernelFrame, MapsFrame
<1>6. Queues' /\ Unanswered'
  BY <1>1, <1>2, QueuesFrame
<1>7. Rounds'
  BY <1>1, DroppedEvent
<1> QED
  BY <1>2, <1>3, <1>4, <1>5, <1>6, <1>7 DEF NetInv

(* ts_accept: the listening socket.                                        *)
LEMMA AcceptListenStep ==
    ASSUME NetInv, NEW w \in Workers, accept_listen(w)
    PROVE  NetInv'
<1> DEFINE free == {fd \in Fds : owner[fd] = None}
           c    == Head(backlog)
           fd   == Min(free)
<1>1. /\ Handled(w, LISTEN)
      /\ UNCHANGED <<wint, waked, pread_que, outs_que, closes_que, hmap, conn>>
  BY DEF accept_listen
<1>2. /\ UNCHANGED <<main, wpc, ins_que, late>>
      /\ events' \in [Workers -> SUBSET Events]
      /\ \A v \in Workers : events'[v] \subseteq events[v]
      /\ Startup'
  BY <1>1, HandledFacts
<1>3. /\ backlog \in Seq(Clients) /\ owner \in [Fds -> Clients \cup {None}]
      /\ reg \in [Workers -> SUBSET Fds] /\ next \in Workers
      /\ cst \in [Clients -> {"none", "pending", "accepted", "dropped", "closed"}]
  BY DEF NetInv, TypeOK, QueueTypes
<1>4. CASE backlog' = backlog /\ UNCHANGED <<owner, reg, next, cst>>
  <2>1. TypeOK' /\ QueueTypes'
    BY <1>1, <1>2, <1>4 DEF NetInv, TypeOK, QueueTypes, main
  <2>2. LateSeen' /\ LateClientsKept'
    BY <1>1, <1>2, <1>4, LateFrame DEF main
  <2>3. Kernel' /\ Maps'
    BY <1>1, <1>2, <1>4, KernelFrame, MapsFrame
  <2>4. Queues' /\ Unanswered'
    BY <1>1, <1>2, <1>4, QueuesFrame
  <2>5. Rounds'
    BY <1>1, <1>4, DroppedEvent
  <2> QED
    BY <1>2, <2>1, <2>2, <2>3, <2>4, <2>5 DEF NetInv
<1>5. CASE /\ backlog # <<>> /\ free # {}
           /\ \/ /\ next \in epfd
                 /\ owner' = [owner EXCEPT ![fd] = c]
                 /\ reg' = [reg EXCEPT ![next] = @ \cup {fd}]
                 /\ cst' = [cst EXCEPT ![c] = "accepted"]
              \/ /\ next \notin epfd
                 /\ cst' = [cst EXCEPT ![c] = "dropped"]
                 /\ UNCHANGED <<owner, reg>>
           /\ backlog' = Tail(backlog)
           /\ next' = next_ctx_index(next)
  <2>1. fd \in Fds /\ owner[fd] = None
    <3>1. free \in SUBSET Fds
      OBVIOUS
    <3>2. fd \in free
      BY <1>5, <3>1, MinFree
    <3> QED
      BY <3>2
  <2>2. /\ backlog' \in Seq(Clients) /\ c \in Clients
        /\ Range(backlog) = Range(backlog') \cup {c}
        /\ Once(backlog') /\ c \notin Range(backlog')
    <3>1. Once(backlog)
      BY DEF NetInv, Kernel
    <3> QED
      BY <1>3, <1>5, <3>1, TailFacts
  <2>3. cst[c] = "pending"
    BY <2>2 DEF NetInv, Kernel
  <2>4. next' \in Workers
    BY <1>3, <1>5, NetAssumption DEF next_ctx_index, Workers
  <2>5. c # None
    BY <2>2, NoneAssumption
  <2> HIDE DEF c, fd, free
  <2>6. /\ owner' \in [Fds -> Clients \cup {None}] /\ reg' \in [Workers -> SUBSET Fds]
        /\ cst' \in [Clients -> {"none", "pending", "accepted", "dropped", "closed"}]
    BY <1>3, <1>5, <2>1, <2>2
  <2>7. TypeOK' /\ QueueTypes'
    BY <1>1, <1>2, <2>2, <2>4, <2>6 DEF NetInv, TypeOK, QueueTypes, main
  <2>8. LateSeen' /\ LateClientsKept'
    <3>1. LateSeen'
      BY <1>2 DEF NetInv, LateSeen, main
    <3>2. LateClientsKept'
      <4> SUFFICES ASSUME NEW d \in Clients, late[d] PROVE cst'[d] # "dropped"
        BY <1>2 DEF LateClientsKept
      <4>1. next \in epfd
        BY <1>3 DEF NetInv, LateSeen
      <4> QED
        BY <1>3, <1>5, <2>2, <4>1 DEF NetInv, LateClientsKept
    <3> QED
      BY <3>1, <3>2
  <2>9. Kernel'
    <3> USE <1>3, <1>5, <2>1, <2>2, <2>3, <2>5 DEF NetInv, Kernel
    <3>1. \A g \in Fds : owner'[g] # None => cst'[owner'[g]] = "accepted"
      OBVIOUS
    <3>2. \A f, g \in Fds : owner'[f] = owner'[g] /\ owner'[f] # None => f = g
      OBVIOUS
    <3>0. /\ \A g \in Fds : owner[g] # None => owner'[g] = owner[g]
          /\ \A v \in Workers : \A g \in reg'[v] : g \in reg[v] \/ owner'[g] = c
      OBVIOUS
    <3>3. \A v \in Workers : \A g \in reg'[v] : owner'[g] # None
      BY <3>0
    <3>4. \A u, v \in Workers : \A g \in Fds : g \in reg'[u] /\ g \in reg'[v] => u = v
      OBVIOUS
    <3>5. \A d \in Range(backlog') : cst'[d] = "pending"
      <4>1. Range(backlog') \subseteq Clients /\ Range(backlog') \subseteq Range(backlog)
        BY RangeOfSeq
      <4>2. \A d \in Clients : d # c => cst'[d] = cst[d]
        OBVIOUS
      <4> QED
        BY <4>1, <4>2
    <3> HIDE <1>3, <1>5, <2>1, <2>3, <2>5 DEF NetInv
    <3> QED
      BY <3>1, <3>2, <3>3, <3>4, <3>5 DEF Kernel
  <2>10. Maps'
    <3>1. \A v \in Workers : \A g \in Fds :
            owner[g] # None => owner'[g] = owner[g] /\ (g \in reg[v] => g \in reg'[v])
      BY <1>3, <1>5, <2>1
    <3> QED
      BY <1>1, <1>2, <3>1 DEF NetInv, Maps, Unmapping
  <2>11. Queues' /\ Unanswered'
    <3>1. \A v \in Workers : reg[v] \subseteq reg'[v]
      BY <1>3, <1>5
    <3> QED
      BY <1>1, <1>2, <3>1, QueuesFrame
  <2>12. Rounds'
    <3>1. \A d \in Clients : cst[d] = "closed" => cst'[d] = "closed"
      BY <1>3, <1>5, <2>2, <2>3
    <3> QED
      BY <1>1, <3>1, DroppedEvent
  <2> QED
    BY <1>2, <2>7, <2>8, <2>9, <2>10, <2>11, <2>12 DEF NetInv
<1> QED
  BY <1>4, <1>5 DEF accept_listen

(* The descriptor of an event is watched and owned.                        *)
LEMMA EventOwned ==
    ASSUME NetInv, NEW w \in Workers, NEW fd \in Fds, fd \in events[w]
    PROVE  /\ fd \in reg[w] /\ owner[fd] \in Clients /\ owner[fd] # None
           /\ cst[owner[fd]] = "accepted"
<1>1. fd \in reg[w]
  BY DEF NetInv, Queues
<1>2. owner[fd] # None
  BY <1>1 DEF NetInv, Kernel
<1>3. owner[fd] \in Clients
  BY <1>2 DEF NetInv, TypeOK
<1> QED
  BY <1>1, <1>2, <1>3 DEF NetInv, Kernel

(* ts_accept: no memory for the connection of a descriptor.                *)
LEMMA AcceptNoMemoryStep ==
    ASSUME NetInv, NEW w \in Workers, NEW fd \in Fds, accept_no_memory(w, fd)
    PROVE  NetInv'
<1> DEFINE d == owner[fd]
<1>1. /\ Handled(w, fd) /\ hmap[w][fd] = None
      /\ owner' = [owner EXCEPT ![fd] = None]
      /\ reg' = [reg EXCEPT ![w] = @ \ {fd}]
      /\ cst' = [cst EXCEPT ![d] = "closed"]
      /\ UNCHANGED <<wint, waked, backlog, next, pread_que, outs_que, closes_que, hmap, conn>>
  BY DEF accept_no_memory
<1>2. /\ UNCHANGED <<main, wpc, ins_que, late>>
      /\ events' \in [Workers -> SUBSET Events]
      /\ fd \in events[w] /\ events'[w] = events[w] \ {fd}
      /\ \A v \in Workers : v # w => events'[v] = events[v]
      /\ Startup'
  BY <1>1, HandledFacts
<1>3. /\ owner \in [Fds -> Clients \cup {None}] /\ reg \in [Workers -> SUBSET Fds]
      /\ cst \in [Clients -> {"none", "pending", "accepted", "dropped", "closed"}]
  BY DEF NetInv, TypeOK
<1>4. fd \in reg[w] /\ d \in Clients /\ d # None /\ cst[d] = "accepted"
  BY <1>2, EventOwned
<1>5. TypeOK' /\ QueueTypes'
  <2>1. /\ owner' \in [Fds -> Clients \cup {None}] /\ reg' \in [Workers -> SUBSET Fds]
        /\ cst' \in [Clients -> {"none", "pending", "accepted", "dropped", "closed"}]
    BY <1>1, <1>3
  <2> QED
    BY <1>1, <1>2, <2>1 DEF NetInv, TypeOK, QueueTypes, main
<1>6. LateSeen' /\ LateClientsKept'
  <2>1. \A e \in Clients : cst'[e] = "dropped" => cst[e] = "dropped"
    BY <1>1, <1>3
  <2> QED
    BY <1>2, <2>1, LateFrame DEF main
<1>7. Kernel'
  <2>1. \A g \in Fds : g # fd => owner'[g] = owner[g] /\ owner[g] # d
    BY <1>1, <1>3, <1>4 DEF NetInv, Kernel
  <2>2. owner'[fd] = None
    BY <1>1, <1>3
  <2>3. \A v \in Workers : reg'[v] = reg[v] \ {fd}
    BY <1>1, <1>3, <1>4 DEF NetInv, Kernel
  <2>4. \A e \in Clients : e # d => cst'[e] = cst[e]
    BY <1>1, <1>3
  <2>5. d \notin Range(backlog) /\ Range(backlog) \subseteq Clients
    BY <1>4, RangeOfSeq DEF NetInv, Kernel, QueueTypes
  <2>6. \A e \in Range(backlog') : cst'[e] = "pending"
    BY <1>1, <2>4, <2>5 DEF NetInv, Kernel
  <2>7. \A g \in Fds : owner'[g] # None => cst'[owner'[g]] = "accepted"
    BY <1>3, <2>1, <2>2, <2>4 DEF NetInv, Kernel
  <2>8. \A f, g \in Fds : owner'[f] = owner'[g] /\ owner'[f] # None => f = g
    BY <2>1, <2>2 DEF NetInv, Kernel
  <2>9. /\ \A v \in Workers : \A g \in reg'[v] : owner'[g] # None
        /\ \A u, v \in Workers : \A g \in Fds : g \in reg'[u] /\ g \in reg'[v] => u = v
    BY <1>3, <2>1, <2>3 DEF NetInv, Kernel
  <2> QED
    BY <1>1, <2>6, <2>7, <2>8, <2>9 DEF NetInv, Kernel
<1>8. Maps'
  <2>1. ASSUME NEW v \in Workers, NEW g \in Fds, hmap[v][g] # None,
               owner[g] = hmap[v][g], g \in reg[v]
        PROVE  owner'[g] = owner[g] /\ g \in reg'[v]
    <3>1. g # fd
      BY <1>1, <1>4, <2>1 DEF NetInv, Kernel
    <3> QED
      BY <1>1, <1>3, <2>1, <3>1
  <2> QED
    BY <1>1, <1>2, <2>1 DEF NetInv, Maps, Unmapping
<1>9. Queues' /\ Unanswered'
  <2>1. \A v \in Workers : Held(v)' = Held(v)
    BY <1>1, <1>2 DEF Held
  <2>2. \A v \in Workers : \A g \in Fds : g \in events'[v] => g \in reg'[v]
    BY <1>1, <1>2, <1>3 DEF NetInv, Queues
  <2>3. Queues'
    BY <1>1, <1>2, <2>1, <2>2 DEF NetInv, Queues
  <2>4. Unanswered'
    BY <1>1, <1>2 DEF NetInv, Unanswered
  <2> QED
    BY <2>3, <2>4
<1>10. Rounds'
  <2>1. \A e \in Clients : cst[e] = "closed" => cst'[e] = "closed"
    BY <1>1, <1>3
  <2> QED
    BY <1>1, <2>1, DroppedEvent
<1> QED
  BY <1>2, <1>5, <1>6, <1>7, <1>8, <1>9, <1>10 DEF NetInv

----------------------------------------------------------------------------
(* Connections that go from queue to queue.                                *)

(* The queues of worker w change, with at most c new in them.              *)
Moved(w, c) ==
    /\ pread_que' \in [Workers -> Seq(Clients)] /\ ins_que' \in [Workers -> Seq(Clients)]
    /\ outs_que' \in [Workers -> Seq(Clients)] /\ closes_que' \in [Workers -> Seq(Clients)]
    /\ \A v \in Workers : v # w =>
         /\ pread_que'[v] = pread_que[v] /\ ins_que'[v] = ins_que[v]
         /\ outs_que'[v] = outs_que[v] /\ closes_que'[v] = closes_que[v]
    /\ Apart(pread_que'[w], ins_que'[w], outs_que'[w], closes_que'[w])
    /\ \A d \in Held(w)' : d = c \/ d \in Held(w)

(* The queue of worker w becomes q, those of the others stay.              *)
Replaced(que, w, q, res) ==
    /\ res \in [Workers -> Seq(Clients)] /\ res[w] = q
    /\ \A v \in Workers : v # w => res[v] = que[v]

(* Push changes the queue of one worker.                                   *)
LEMMA PushFacts ==
    ASSUME NEW que \in [Workers -> Seq(Clients)], NEW w \in Workers, NEW c \in Clients,
           NEW res, res = Push(que, w, c)
    PROVE  Replaced(que, w, Append(que[w], c), res)
<1>1. Append(que[w], c) \in Seq(Clients)
  BY AppendFacts
<1> QED
  BY <1>1 DEF Push, Replaced

(* Pop changes the queue of one worker.                                    *)
LEMMA PopFacts ==
    ASSUME NEW que \in [Workers -> Seq(Clients)], NEW w \in Workers, que[w] # <<>>,
           NEW res, res = Pop(que, w)
    PROVE  Replaced(que, w, Tail(que[w]), res)
<1>1. Tail(que[w]) \in Seq(Clients)
  BY TailFacts
<1> QED
  BY <1>1 DEF Pop, Replaced

(* The head of the first queue goes to another one, or nowhere.            *)
LEMMA ApartMove ==
    ASSUME NEW S, NEW p \in Seq(S), NEW q \in Seq(S), NEW r \in Seq(S), NEW s \in Seq(S),
           Apart(p, q, r, s), p # <<>>
    PROVE  /\ Apart(Tail(p), q, r, s)
           /\ Apart(Tail(p), Append(q, Head(p)), r, s)
           /\ Apart(Tail(p), q, Append(r, Head(p)), s)
           /\ Apart(Tail(p), q, r, Append(s, Head(p)))
<1> DEFINE t == Tail(p)
           x == Head(p)
<1>1. Apart(t, q, r, s) /\ x \notin Range(t) \cup Range(q) \cup Range(r) \cup Range(s)
  BY ApartTail
<1>2. t \in Seq(S) /\ x \in S
  BY TailFacts
<1> HIDE DEF t, x
<1>3. Apart(t, Append(q, x), r, s)
  <2>1. Apart(q, t, r, s)
    BY <1>1, ApartSwap
  <2>2. Apart(Append(q, x), t, r, s)
    BY <1>1, <1>2, <2>1, ApartAppend
  <2> QED
    BY <2>2, ApartSwap
<1>4. Apart(t, q, Append(r, x), s)
  <2>1. Apart(r, q, t, s)
    BY <1>1, ApartSwap
  <2>2. Apart(Append(r, x), q, t, s)
    BY <1>1, <1>2, <2>1, ApartAppend
  <2> QED
    BY <2>2, ApartSwap
<1>5. Apart(t, q, r, Append(s, x))
  <2>1. Apart(s, q, r, t)
    BY <1>1, ApartSwap
  <2>2. Apart(Append(s, x), q, r, t)
    BY <1>1, <1>2, <2>1, ApartAppend
  <2> QED
    BY <2>2, ApartSwap
<1> QED
  BY <1>1, <1>3, <1>4, <1>5 DEF t, x

(* Whoever is queued is in the map, so nobody is queued at two workers.    *)
LEMMA HeldAtOne ==
    ASSUME NetInv, NEW w \in Workers, NEW v \in Workers, NEW c \in Held(w), c \in Held(v)
    PROVE  v = w
<1>1. conn[c].fd \in Fds /\ hmap[w][conn[c].fd] = c /\ hmap[v][conn[c].fd] = c
  BY DEF NetInv, Queues
<1>2. c \in Clients
  <2>1. /\ pread_que[w] \in Seq(Clients) /\ ins_que[w] \in Seq(Clients)
        /\ outs_que[w] \in Seq(Clients) /\ closes_que[w] \in Seq(Clients)
    BY DEF NetInv, QueueTypes
  <2> QED
    BY <2>1, RangeOfSeq DEF Held
<1>3. c # None
  BY <1>2, NoneAssumption
<1> QED
  BY <1>1, <1>3 DEF NetInv, Maps

(* The connections a worker holds.                                         *)
LEMMA HeldTypes ==
    ASSUME QueueTypes, NEW w \in Workers
    PROVE  /\ Held(w) \subseteq Clients
           /\ pread_que[w] # <<>> => Head(pread_que[w]) \in Range(pread_que[w])
           /\ ins_que[w] # <<>> => Head(ins_que[w]) \in Range(ins_que[w])
           /\ outs_que[w] # <<>> => Head(outs_que[w]) \in Range(outs_que[w])
           /\ closes_que[w] # <<>> => Head(closes_que[w]) \in Range(closes_que[w])
<1>1. /\ pread_que[w] \in Seq(Clients) /\ ins_que[w] \in Seq(Clients)
      /\ outs_que[w] \in Seq(Clients) /\ closes_que[w] \in Seq(Clients)
  BY DEF QueueTypes
<1>2. Held(w) \subseteq Clients
  BY <1>1, RangeOfSeq DEF Held
<1> QED
  BY <1>1, <1>2, HeadHeld

(* A connection that stays in the worker's queues keeps them sound.        *)
LEMMA QueuesMoved ==
    ASSUME NetInv, NEW w \in Workers, NEW c \in Held(w), Moved(w, c),
           UNCHANGED <<hmap, events, reg>>,
           \A d \in Clients : conn'[d].fd = conn[d].fd /\ conn'[d].state = conn[d].state
    PROVE  Queues'
<1>1. \A v \in Workers : v # w => Held(v)' = Held(v)
  BY DEF Moved, Held
<1>2. \A d \in Held(w)' : d \in Held(w)
  BY DEF Moved
<1>3. \A v \in Workers : Held(v) \subseteq Clients
  BY HeldTypes DEF NetInv
<1>4. ASSUME NEW v \in Workers PROVE \A d \in Held(v)' : d \in Held(v) /\ d \in Clients
  BY <1>1, <1>2, <1>3
<1>5. \A v \in Workers : Apart(pread_que'[v], ins_que'[v], outs_que'[v], closes_que'[v])
  BY DEF NetInv, Queues, Moved
<1> QED
  BY <1>4, <1>5 DEF NetInv, Queues

(* The round goes on: it fits the arrays and no worker's unmapping is
   disturbed.                                                              *)
LEMMA RoundsMoved ==
    ASSUME NetInv, NEW w \in Workers, NEW c, Moved(w, c), UNCHANGED wpc,
           wpc[w] \in {"accept", "read", "process", "write", "close"},
           \A v \in Workers : v # w => events'[v] = events[v],
           Load(w)' + Cardinality(events'[w]) <= Load(w) + Cardinality(events[w]),
           Load(w)' \in Nat, Cardinality(events'[w]) \in Nat, Cardinality(events[w]) \in Nat,
           \A d \in Clients : cst[d] = "closed" => cst'[d] = "closed"
    PROVE  Rounds'
<1>1. \A v \in Workers : v # w => Load(v)' = Load(v)
  BY DEF Moved, Load
<1>2. \A v \in Workers : Load(v) + Cardinality(events[v]) <= QueueSize
  BY DEF NetInv, Rounds
<1>3. Load(w) \in Nat
  BY LoadNat DEF NetInv
<1>4. Load(w)' + Cardinality(events'[w]) <= QueueSize
  BY <1>2, <1>3, NetAssumption
<1>5. \A v \in Workers : (Load(v) + Cardinality(events[v]))' <= QueueSize
  BY <1>1, <1>2, <1>4
<1>6. ASSUME NEW v \in Workers, wpc[v] = "unmap" PROVE Head(closes_que[v]) \in Clients
  <2>1. closes_que[v] \in Seq(Clients) /\ closes_que[v] # <<>>
    BY <1>6 DEF NetInv, QueueTypes, Rounds
  <2> QED
    BY <2>1, TailFacts
<1>7. ASSUME NEW v \in Workers, v # w
      PROVE  /\ wpc'[v] \in {"none", "check", "wait", "exited"} =>
                  /\ events'[v] = {} /\ pread_que'[v] = <<>> /\ ins_que'[v] = <<>>
                  /\ outs_que'[v] = <<>> /\ closes_que'[v] = <<>>
             /\ wpc'[v] = "unmap" =>
                  closes_que'[v] # <<>> /\ cst'[Head(closes_que'[v])] = "closed"
  BY <1>6, <1>7 DEF NetInv, Rounds, Moved
<1> QED
  BY <1>5, <1>7 DEF Rounds

(* ts_accept: an event of a connection puts it in one queue.               *)
LEMMA AcceptConnStep ==
    ASSUME NetInv, NEW w \in Workers, NEW fd \in Fds, accept_conn(w, fd)
    PROVE  NetInv'
<1> DEFINE new == hmap[w][fd] = None
           c   == IF new THEN owner[fd] ELSE hmap[w][fd]
           k   == IF new THEN NewConn(fd) ELSE conn[c]
<1>1. /\ Handled(w, fd)
      /\ hmap' = [hmap EXCEPT ![w][fd] = c]
      /\ conn' = [conn EXCEPT ![c] = k]
      /\ \/ /\ k.left > 0
            /\ outs_que' = Push(outs_que, w, c)
            /\ UNCHANGED <<pread_que, closes_que>>
         \/ /\ k.left = 0 /\ k.closed
            /\ closes_que' = Push(closes_que, w, c)
            /\ UNCHANGED <<pread_que, outs_que>>
         \/ /\ k.left = 0 /\ ~k.closed
            /\ pread_que' = Push(pread_que, w, c)
            /\ UNCHANGED <<outs_que, closes_que>>
      /\ UNCHANGED <<owner, reg, wint, waked, backlog, next, cst>>
  BY DEF accept_conn
<1>2. /\ UNCHANGED <<main, wpc, ins_que, late>> /\ wpc[w] = "accept"
      /\ events' \in [Workers -> SUBSET Events]
      /\ fd \in events[w] /\ events'[w] = events[w] \ {fd}
      /\ \A v \in Workers : v # w => events'[v] = events[v]
      /\ Cardinality(events'[w]) = Cardinality(events[w]) - 1
      /\ Cardinality(events[w]) \in Nat
      /\ Startup'
  BY <1>1, HandledFacts
<1>3. /\ hmap \in [Workers -> [Fds -> Clients \cup {None}]]
      /\ conn \in [Clients -> [fd : Fds \cup {0}, left : 0 .. MaxOut, closed : BOOLEAN,
                               state : {"none", "open", "freed"}]]
      /\ pread_que \in [Workers -> Seq(Clients)] /\ ins_que \in [Workers -> Seq(Clients)]
      /\ outs_que \in [Workers -> Seq(Clients)] /\ closes_que \in [Workers -> Seq(Clients)]
  BY DEF NetInv, TypeOK, QueueTypes
<1>4. /\ fd \in reg[w] /\ owner[fd] \in Clients /\ owner[fd] # None
      /\ cst[owner[fd]] = "accepted"
  BY <1>2, EventOwned
<1>5. c = owner[fd] /\ (~new => k = conn[c] /\ conn[c].fd = fd /\ conn[c].state = "open")
  BY <1>2 DEF NetInv, Maps, Unmapping
<1>6. ASSUME NEW v \in Workers, NEW g \in Fds, hmap[v][g] = c
      PROVE  v = w /\ g = fd
  <2>1. ~Unmapping(v, c)
    BY <1>4, <1>5 DEF NetInv, Rounds, Unmapping
  <2>2. owner[g] = c /\ g \in reg[v]
    BY <1>4, <1>5, <1>6, <2>1 DEF NetInv, Maps
  <2> QED
    BY <1>4, <1>5, <2>2 DEF NetInv, Kernel
<1>7. k \in [fd : Fds \cup {0}, left : 0 .. MaxOut, closed : BOOLEAN,
             state : {"none", "open", "freed"}] /\ k.fd = fd /\ k.state = "open"
  <2>1. CASE new
    BY <2>1, NetAssumption DEF NewConn
  <2>2. CASE ~new
    BY <1>3, <1>4, <1>5, <2>2
  <2> QED
    BY <2>1, <2>2
<1>8. ASSUME NEW v \in Workers PROVE c \notin Held(v)
  <2> SUFFICES ASSUME c \in Held(v) PROVE FALSE
    OBVIOUS
  <2>1. conn[c].fd \in Fds /\ hmap[v][conn[c].fd] = c /\ conn[c].fd \notin events[v]
    BY DEF NetInv, Queues
  <2>2. v = w /\ conn[c].fd = fd
    BY <1>6, <2>1
  <2> QED
    BY <1>2, <2>1, <2>2
<1>9. c \in Clients /\ c # None
  BY <1>4, <1>5
<1> HIDE DEF c, k, new
<1>10. /\ hmap' \in [Workers -> [Fds -> Clients \cup {None}]]
       /\ hmap'[w][fd] = c
       /\ \A v \in Workers, g \in Fds : v # w \/ g # fd => hmap'[v][g] = hmap[v][g]
  BY <1>1, <1>3, <1>9
<1>11. /\ conn' \in [Clients -> [fd : Fds \cup {0}, left : 0 .. MaxOut, closed : BOOLEAN,
                                state : {"none", "open", "freed"}]]
       /\ conn'[c] = k /\ \A d \in Clients : d # c => conn'[d] = conn[d]
  BY <1>1, <1>3, <1>7, <1>9
<1>12. /\ Moved(w, c) /\ Load(w)' = Load(w) + 1
       /\ \A d \in Range(pread_que'[w]) \cup Range(ins_que'[w]) :
            \/ d \in Range(pread_que[w]) \cup Range(ins_que[w])
            \/ d = c /\ k.left = 0
  <2> DEFINE P == pread_que[w]
             I == ins_que[w]
             O == outs_que[w]
             C == closes_que[w]
  <2>1. /\ P \in Seq(Clients) /\ I \in Seq(Clients) /\ O \in Seq(Clients) /\ C \in Seq(Clients)
        /\ Apart(P, I, O, C)
    BY <1>3 DEF NetInv, Queues
  <2>2. c \notin Range(P) \cup Range(I) \cup Range(O) \cup Range(C)
    BY <1>8 DEF Held
  <2>3. /\ Range(Append(P, c)) = Range(P) \cup {c}
        /\ Range(Append(O, c)) = Range(O) \cup {c}
        /\ Range(Append(C, c)) = Range(C) \cup {c}
    BY <1>9, <2>1, AppendFacts
  <2>4. /\ Total(Append(P, c), I, O, C) = Total(P, I, O, C) + 1
        /\ Total(P, I, Append(O, c), C) = Total(P, I, O, C) + 1
        /\ Total(P, I, O, Append(C, c)) = Total(P, I, O, C) + 1
    <3>1. /\ P \in Seq(Clients) /\ I \in Seq(Clients) /\ O \in Seq(Clients)
          /\ C \in Seq(Clients)
      BY <2>1
    <3> HIDE DEF P, I, O, C
    <3> QED
      BY <1>9, <3>1, TotalAppend
  <2>5. Apart(Append(P, c), I, O, C)
    BY <1>9, <2>1, <2>2, ApartAppend
  <2>6. Apart(P, I, Append(O, c), C)
    <3>1. Apart(O, I, P, C)
      BY <2>1, ApartSwap
    <3>2. Apart(Append(O, c), I, P, C)
      BY <1>9, <2>1, <2>2, <3>1, ApartAppend
    <3> QED
      BY <3>2, ApartSwap
  <2>7. Apart(P, I, O, Append(C, c))
    <3>1. Apart(C, I, O, P)
      BY <2>1, ApartSwap
    <3>2. Apart(Append(C, c), I, O, P)
      BY <1>9, <2>1, <2>2, <3>1, ApartAppend
    <3> QED
      BY <3>2, ApartSwap
  <2>8. CASE outs_que' = Push(outs_que, w, c) /\ UNCHANGED <<pread_que, closes_que>>
    <3>1. /\ outs_que' \in [Workers -> Seq(Clients)] /\ outs_que'[w] = Append(O, c)
          /\ \A v \in Workers : v # w => outs_que'[v] = outs_que[v]
      <4>1. outs_que \in [Workers -> Seq(Clients)] /\ outs_que' = Push(outs_que, w, c)
        BY <1>3, <2>8
      <4>2. Replaced(outs_que, w, Append(outs_que[w], c), outs_que')
        BY <1>9, <4>1, PushFacts, Zenon
      <4> QED
        BY <4>2 DEF Replaced
    <3>2. Moved(w, c)
      BY <1>2, <1>3, <2>3, <2>6, <2>8, <3>1 DEF Moved, Held
    <3>3. Load(w)' = Load(w) + 1
      <4>1. Load(w)' = Total(P, I, Append(O, c), C)
        BY <1>2, <2>8, <3>1 DEF Load
      <4> QED
        BY <2>4, <4>1 DEF Load
    <3> QED
      BY <1>2, <2>8, <3>2, <3>3
  <2>9. CASE closes_que' = Push(closes_que, w, c) /\ UNCHANGED <<pread_que, outs_que>>
    <3>1. /\ closes_que' \in [Workers -> Seq(Clients)] /\ closes_que'[w] = Append(C, c)
          /\ \A v \in Workers : v # w => closes_que'[v] = closes_que[v]
      <4>1. closes_que \in [Workers -> Seq(Clients)] /\ closes_que' = Push(closes_que, w, c)
        BY <1>3, <2>9
      <4>2. Replaced(closes_que, w, Append(closes_que[w], c), closes_que')
        BY <1>9, <4>1, PushFacts, Zenon
      <4> QED
        BY <4>2 DEF Replaced
    <3>2. Moved(w, c)
      BY <1>2, <1>3, <2>3, <2>7, <2>9, <3>1 DEF Moved, Held
    <3>3. Load(w)' = Load(w) + 1
      <4>1. Load(w)' = Total(P, I, O, Append(C, c))
        BY <1>2, <2>9, <3>1 DEF Load
      <4> QED
        BY <2>4, <4>1 DEF Load
    <3> QED
      BY <1>2, <2>9, <3>2, <3>3
  <2>10. CASE k.left = 0 /\ pread_que' = Push(pread_que, w, c) /\ UNCHANGED <<outs_que, closes_que>>
    <3>1. /\ pread_que' \in [Workers -> Seq(Clients)] /\ pread_que'[w] = Append(P, c)
          /\ \A v \in Workers : v # w => pread_que'[v] = pread_que[v]
      <4>1. pread_que \in [Workers -> Seq(Clients)] /\ pread_que' = Push(pread_que, w, c)
        BY <1>3, <2>10
      <4>2. Replaced(pread_que, w, Append(pread_que[w], c), pread_que')
        BY <1>9, <4>1, PushFacts, Zenon
      <4> QED
        BY <4>2 DEF Replaced
    <3>2. Moved(w, c)
      BY <1>2, <1>3, <2>3, <2>5, <2>10, <3>1 DEF Moved, Held
    <3>3. Load(w)' = Load(w) + 1
      <4>1. Load(w)' = Total(Append(P, c), I, O, C)
        BY <1>2, <2>10, <3>1 DEF Load
      <4> QED
        BY <2>4, <4>1 DEF Load
    <3>4. Range(pread_que'[w]) = Range(P) \cup {c}
      BY <2>3, <3>1
    <3> QED
      BY <1>2, <2>10, <3>2, <3>3, <3>4
  <2> QED
    BY <1>1, <2>8, <2>9, <2>10
<1>13. TypeOK' /\ QueueTypes'
  <2>1. TypeOK'
    BY <1>1, <1>2, <1>10, <1>11 DEF NetInv, TypeOK, main
  <2>2. QueueTypes'
    BY <1>1, <1>2, <1>12 DEF NetInv, QueueTypes, Moved
  <2> QED
    BY <2>1, <2>2
<1>14. LateSeen' /\ LateClientsKept'
  BY <1>1, <1>2, LateFrame DEF main
<1>15. Kernel'
  BY <1>1, KernelFrame
<1>16. Maps'
  <2>1. ASSUME NEW v \in Workers, NEW g \in Fds, hmap'[v][g] # None
        PROVE  /\ conn'[hmap'[v][g]].fd = g /\ conn'[hmap'[v][g]].state = "open"
               /\ \/ owner'[g] = hmap'[v][g] /\ g \in reg'[v]
                  \/ Unmapping(v, hmap[v][g])'
    <3>1. CASE v = w /\ g = fd
      BY <1>1, <1>4, <1>5, <1>7, <1>10, <1>11, <3>1
    <3>2. CASE v # w \/ g # fd
      <4>1. hmap'[v][g] = hmap[v][g] /\ hmap[v][g] # c
        BY <1>6, <1>10, <3>2
      <4>2. hmap[v][g] \in Clients /\ hmap[v][g] # None
        BY <1>3, <2>1, <4>1
      <4>3. conn'[hmap[v][g]] = conn[hmap[v][g]]
        BY <1>11, <4>1, <4>2
      <4>4. Unmapping(v, hmap[v][g]) => Unmapping(v, hmap[v][g])'
        BY <1>2, <1>12, <4>1 DEF Unmapping, Moved
      <4>5. /\ conn[hmap[v][g]].fd = g /\ conn[hmap[v][g]].state = "open"
            /\ \/ owner[g] = hmap[v][g] /\ g \in reg[v]
               \/ Unmapping(v, hmap[v][g])
        BY <4>2 DEF NetInv, Maps
      <4> QED
        BY <1>1, <4>1, <4>3, <4>4, <4>5
    <3> QED
      BY <3>1, <3>2
  <2>2. ASSUME NEW u \in Workers, NEW v \in Workers, NEW f \in Fds, NEW g \in Fds,
               hmap'[u][f] = hmap'[v][g], hmap'[u][f] # None
        PROVE  u = v /\ f = g
    <3>1. CASE u = w /\ f = fd
      BY <1>6, <1>10, <2>2, <3>1
    <3>2. CASE v = w /\ g = fd
      BY <1>6, <1>10, <2>2, <3>2
    <3>3. CASE (u # w \/ f # fd) /\ (v # w \/ g # fd)
      <4>1. hmap[u][f] = hmap[v][g] /\ hmap[u][f] # None
        BY <1>10, <2>2, <3>3
      <4> QED
        BY <4>1 DEF NetInv, Maps
    <3> QED
      BY <3>1, <3>2, <3>3
  <2> QED
    BY <2>1, <2>2 DEF Maps
<1>17. Queues'
  <2>1. \A v \in Workers : Apart(pread_que'[v], ins_que'[v], outs_que'[v], closes_que'[v])
    BY <1>12 DEF NetInv, Queues, Moved
  <2>2. \A v \in Workers : \A g \in Fds : g \in events'[v] => g \in reg'[v]
    BY <1>1, <1>2 DEF NetInv, Queues
  <2>3. ASSUME NEW v \in Workers, NEW d \in Held(v)'
        PROVE  /\ conn'[d].state = "open" /\ conn'[d].fd \in Fds
               /\ hmap'[v][conn'[d].fd] = d /\ conn'[d].fd \notin events'[v]
    <3>1. CASE d = c /\ v = w
      BY <1>2, <1>7, <1>10, <1>11, <3>1
    <3>2. CASE ~(d = c /\ v = w)
      <4>1. v # w => Held(v)' = Held(v)
        BY <1>12 DEF Moved, Held
      <4>2. d \in Held(v)
        BY <1>12, <2>3, <3>2, <4>1 DEF Moved
      <4>3. d # c /\ d \in Clients
        BY <1>8, <4>2, HeldTypes DEF NetInv
      <4>4. conn'[d] = conn[d]
        BY <1>11, <4>3
      <4>5. /\ conn[d].state = "open" /\ conn[d].fd \in Fds
            /\ hmap[v][conn[d].fd] = d /\ conn[d].fd \notin events[v]
        BY <4>2 DEF NetInv, Queues
      <4>6. v # w \/ conn[d].fd # fd
        BY <1>2, <4>5
      <4>7. conn[d].fd \notin events'[v]
        BY <1>2, <4>5
      <4> QED
        BY <1>10, <4>4, <4>5, <4>6, <4>7
    <3> QED
      BY <3>1, <3>2
  <2> QED
    BY <2>1, <2>2, <2>3 DEF Queues
<1>18. Unanswered'
  <2>1. ASSUME NEW v \in Workers, NEW d \in Range(pread_que'[v]) \cup Range(ins_que'[v])
        PROVE  conn'[d].left = 0
    <3>1. CASE d = c /\ v = w /\ k.left = 0
      BY <1>11, <3>1
    <3>2. CASE d \in Range(pread_que[v]) \cup Range(ins_que[v])
      <4>1. d \in Held(v)
        BY <3>2 DEF Held
      <4>2. d # c /\ d \in Clients
        BY <1>8, <4>1, HeldTypes DEF NetInv
      <4> QED
        BY <1>11, <3>2, <4>2 DEF NetInv, Unanswered
    <3> QED
      BY <1>12, <2>1, <3>1, <3>2 DEF Moved
  <2> QED
    BY <2>1 DEF Unanswered
<1>19. Rounds'
  <2>1. Load(w) \in Nat
    BY LoadNat DEF NetInv
  <2>2. Cardinality(events'[w]) \in Nat
    BY <1>2, EventsFinite
  <2>3. /\ Load(w)' \in Nat
        /\ Load(w)' + Cardinality(events'[w]) <= Load(w) + Cardinality(events[w])
    BY <1>2, <1>12, <2>1
  <2>4. \A d \in Clients : cst[d] = "closed" => cst'[d] = "closed"
    BY <1>1
  <2> QED
    BY <1>2, <1>12, <2>2, <2>3, <2>4, RoundsMoved
<1> QED
  BY <1>2, <1>13, <1>14, <1>15, <1>16, <1>17, <1>18, <1>19 DEF NetInv

(* What moving the head of the first of four queues does.                  *)
LEMMA MoveFacts ==
    ASSUME NEW S, NEW p \in Seq(S), NEW q \in Seq(S), NEW r \in Seq(S), NEW s \in Seq(S),
           Apart(p, q, r, s), p # <<>>, NEW x, x = Head(p)
    PROVE  /\ x \in S /\ x \notin Range(Tail(p)) \cup Range(q) \cup Range(r) \cup Range(s)
           /\ Range(p) = Range(Tail(p)) \cup {x} /\ Range(Append(q, x)) = Range(q) \cup {x}
           /\ Range(Append(r, x)) = Range(r) \cup {x} /\ Range(Append(s, x)) = Range(s) \cup {x}
           /\ Apart(Tail(p), q, r, s) /\ Apart(Tail(p), Append(q, x), r, s)
           /\ Apart(Tail(p), q, Append(r, x), s) /\ Apart(Tail(p), q, r, Append(s, x))
           /\ Total(Tail(p), q, r, s) = Total(p, q, r, s) - 1
           /\ Total(Tail(p), Append(q, x), r, s) = Total(p, q, r, s)
           /\ Total(Tail(p), q, Append(r, x), s) = Total(p, q, r, s)
           /\ Total(Tail(p), q, r, Append(s, x)) = Total(p, q, r, s)
           /\ Total(p, q, r, s) \in Nat /\ Total(Tail(p), q, r, s) \in Nat
<1>1. Tail(p) \in Seq(S) /\ x \in S /\ Range(p) = Range(Tail(p)) \cup {x}
  BY TailFacts
<1>2. x \notin Range(Tail(p)) \cup Range(q) \cup Range(r) \cup Range(s)
  BY ApartTail
<1>3. /\ Range(Append(q, x)) = Range(q) \cup {x} /\ Range(Append(r, x)) = Range(r) \cup {x}
      /\ Range(Append(s, x)) = Range(s) \cup {x}
  BY <1>1, AppendFacts
<1>4. /\ Apart(Tail(p), q, r, s) /\ Apart(Tail(p), Append(q, x), r, s)
      /\ Apart(Tail(p), q, Append(r, x), s) /\ Apart(Tail(p), q, r, Append(s, x))
  BY ApartMove
<1>5. /\ Total(Tail(p), q, r, s) = Total(p, q, r, s) - 1
      /\ Total(Tail(p), Append(q, x), r, s) = Total(p, q, r, s)
      /\ Total(Tail(p), q, Append(r, x), s) = Total(p, q, r, s)
      /\ Total(Tail(p), q, r, Append(s, x)) = Total(p, q, r, s)
  <2>1. x \in S
    BY <1>1
  <2> QED
    BY <2>1, TotalMove
<1>6. Total(p, q, r, s) \in Nat /\ Total(Tail(p), q, r, s) \in Nat
  BY <1>1, TotalFacts
<1> QED
  BY <1>1, <1>2, <1>3, <1>4, <1>5, <1>6

(* The four queues of a worker.                                            *)
LEMMA QueuesOf ==
    ASSUME NetInv, NEW w \in Workers
    PROVE  /\ pread_que[w] \in Seq(Clients) /\ ins_que[w] \in Seq(Clients)
           /\ outs_que[w] \in Seq(Clients) /\ closes_que[w] \in Seq(Clients)
           /\ Apart(pread_que[w], ins_que[w], outs_que[w], closes_que[w])
           /\ pread_que \in [Workers -> Seq(Clients)] /\ ins_que \in [Workers -> Seq(Clients)]
           /\ outs_que \in [Workers -> Seq(Clients)] /\ closes_que \in [Workers -> Seq(Clients)]
           /\ Cardinality(events[w]) \in Nat
<1>1. events[w] \in SUBSET Events
  BY DEF NetInv, QueueTypes
<1> QED
  BY <1>1, EventsFinite DEF NetInv, QueueTypes, Queues

(* ts_read moves the connection to ins_que or closes_que, or leaves it.    *)
LEMMA ReadStep ==
    ASSUME NetInv, NEW w \in Workers, ts_read(w)
    PROVE  NetInv'
<1> DEFINE c == Head(pread_que[w])
           P == pread_que[w]
           I == ins_que[w]
           O == outs_que[w]
           C == closes_que[w]
<1>1. /\ wpc[w] = "read" /\ P # <<>> /\ pread_que' = Pop(pread_que, w)
      /\ UNCHANGED <<main, kernel, wpc, events, outs_que, hmap, conn, cst, late>>
  BY DEF ts_read
<1>2. \/ ins_que' = Push(ins_que, w, c) /\ closes_que' = closes_que
      \/ closes_que' = Push(closes_que, w, c) /\ ins_que' = ins_que
      \/ ins_que' = ins_que /\ closes_que' = closes_que
  BY DEF ts_read
<1>3. /\ P \in Seq(Clients) /\ I \in Seq(Clients) /\ O \in Seq(Clients) /\ C \in Seq(Clients)
      /\ Apart(P, I, O, C) /\ Cardinality(events[w]) \in Nat
  BY QueuesOf
<1>4. /\ pread_que \in [Workers -> Seq(Clients)] /\ ins_que \in [Workers -> Seq(Clients)]
      /\ outs_que \in [Workers -> Seq(Clients)] /\ closes_que \in [Workers -> Seq(Clients)]
  BY QueuesOf
<1>5. /\ c \in Clients
      /\ Range(P) = Range(Tail(P)) \cup {c} /\ Range(Append(I, c)) = Range(I) \cup {c}
      /\ Range(Append(C, c)) = Range(C) \cup {c}
      /\ Apart(Tail(P), I, O, C) /\ Apart(Tail(P), Append(I, c), O, C)
      /\ Apart(Tail(P), I, O, Append(C, c))
      /\ Total(Tail(P), I, O, C) = Total(P, I, O, C) - 1
      /\ Total(Tail(P), Append(I, c), O, C) = Total(P, I, O, C)
      /\ Total(Tail(P), I, O, Append(C, c)) = Total(P, I, O, C)
      /\ Total(P, I, O, C) \in Nat /\ Total(Tail(P), I, O, C) \in Nat
  BY <1>1, <1>3, MoveFacts
<1>6. /\ pread_que' \in [Workers -> Seq(Clients)] /\ pread_que'[w] = Tail(P)
      /\ \A v \in Workers : v # w => pread_que'[v] = pread_que[v]
  <2>1. pread_que \in [Workers -> Seq(Clients)] /\ pread_que[w] # <<>>
        /\ pread_que' = Pop(pread_que, w)
    BY <1>1, <1>4
  <2>2. Replaced(pread_que, w, Tail(pread_que[w]), pread_que')
    BY <2>1, PopFacts, Zenon
  <2> QED
    BY <2>2 DEF Replaced
<1> HIDE DEF c
<1>7. /\ ins_que' \in [Workers -> Seq(Clients)] /\ closes_que' \in [Workers -> Seq(Clients)]
      /\ \A v \in Workers : v # w => ins_que'[v] = ins_que[v] /\ closes_que'[v] = closes_que[v]
      /\ \/ ins_que'[w] = Append(I, c) /\ closes_que'[w] = C
         \/ ins_que'[w] = I /\ closes_que'[w] = Append(C, c)
         \/ ins_que'[w] = I /\ closes_que'[w] = C
  <2>0. c \in Clients /\ ins_que \in [Workers -> Seq(Clients)]
        /\ closes_que \in [Workers -> Seq(Clients)]
    BY <1>4, <1>5
  <2>1. CASE ins_que' = Push(ins_que, w, c) /\ closes_que' = closes_que
    <3>1. /\ ins_que' \in [Workers -> Seq(Clients)] /\ ins_que'[w] = Append(I, c)
          /\ \A v \in Workers : v # w => ins_que'[v] = ins_que[v]
      <4>1. c \in Clients /\ ins_que \in [Workers -> Seq(Clients)]
            /\ ins_que' = Push(ins_que, w, c)
        BY <2>0, <2>1
      <4>2. Replaced(ins_que, w, Append(ins_que[w], c), ins_que')
        BY <4>1, PushFacts, Zenon
      <4> QED
        BY <4>2 DEF Replaced
    <3> QED
      BY <2>0, <2>1, <3>1
  <2>2. CASE closes_que' = Push(closes_que, w, c) /\ ins_que' = ins_que
    <3>1. /\ closes_que' \in [Workers -> Seq(Clients)] /\ closes_que'[w] = Append(C, c)
          /\ \A v \in Workers : v # w => closes_que'[v] = closes_que[v]
      <4>1. c \in Clients /\ closes_que \in [Workers -> Seq(Clients)]
            /\ closes_que' = Push(closes_que, w, c)
        BY <2>0, <2>2
      <4>2. Replaced(closes_que, w, Append(closes_que[w], c), closes_que')
        BY <4>1, PushFacts, Zenon
      <4> QED
        BY <4>2 DEF Replaced
    <3> QED
      BY <2>0, <2>2, <3>1
  <2> QED
    BY <1>2, <1>4, <2>1, <2>2
<1>8. /\ Range(pread_que'[w]) \cup Range(ins_que'[w]) \subseteq Range(P) \cup Range(I)
      /\ Range(closes_que'[w]) \subseteq Range(P) \cup Range(C)
      /\ Apart(pread_que'[w], ins_que'[w], outs_que'[w], closes_que'[w])
      /\ Total(pread_que'[w], ins_que'[w], outs_que'[w], closes_que'[w]) <= Total(P, I, O, C)
      /\ Total(pread_que'[w], ins_que'[w], outs_que'[w], closes_que'[w]) \in Nat
  <2>1. outs_que'[w] = O
    BY <1>1
  <2> HIDE DEF P, I, O, C
  <2>2. CASE ins_que'[w] = Append(I, c) /\ closes_que'[w] = C
    BY <1>5, <1>6, <2>1, <2>2
  <2>3. CASE ins_que'[w] = I /\ closes_que'[w] = Append(C, c)
    BY <1>5, <1>6, <2>1, <2>3
  <2>4. CASE ins_que'[w] = I /\ closes_que'[w] = C
    BY <1>5, <1>6, <2>1, <2>4
  <2> QED
    BY <1>7, <2>2, <2>3, <2>4
<1>9. Load(w)' <= Load(w) /\ Load(w)' \in Nat
  BY <1>8 DEF Load
<1>10. c \in Held(w)
  BY <1>5 DEF Held
<1>11. Moved(w, c)
  <2>1. \A d \in Held(w)' : d \in Held(w)
    BY <1>1, <1>8 DEF Held
  <2> QED
    BY <1>1, <1>4, <1>6, <1>7, <1>8, <2>1 DEF Moved
<1>12. TypeOK' /\ QueueTypes'
  BY <1>1, <1>11 DEF NetInv, TypeOK, QueueTypes, Moved, main, kernel
<1>13. Startup' /\ LateSeen' /\ LateClientsKept' /\ Kernel'
  BY <1>1, StartupFrame, LateFrame, KernelFrame DEF main, kernel
<1>14. Maps'
  BY <1>1, <1>7, MapsFrame DEF kernel
<1>15. Queues'
  BY <1>1, <1>10, <1>11, QueuesMoved DEF kernel
<1>16. Unanswered'
  BY <1>1, <1>6, <1>7, <1>8 DEF NetInv, Unanswered
<1>17. Rounds'
  <2>1. Load(w)' + Cardinality(events'[w]) <= Load(w) + Cardinality(events[w])
    <3>1. Load(w) \in Nat
      BY LoadNat DEF NetInv
    <3> QED
      BY <1>1, <1>3, <1>9, <3>1
  <2> QED
    BY <1>1, <1>3, <1>9, <1>11, <2>1, RoundsMoved
<1> QED
  BY <1>12, <1>13, <1>14, <1>15, <1>16, <1>17 DEF NetInv

(* A connection with a response to send is no longer read or processed.    *)
LEMMA UnansweredMoved ==
    ASSUME NetInv, NEW w \in Workers, NEW c \in Held(w), Moved(w, c),
           \A d \in Clients : d # c => conn'[d] = conn[d],
           Range(pread_que'[w]) \cup Range(ins_que'[w])
              \subseteq (Range(pread_que[w]) \cup Range(ins_que[w])) \ {c}
    PROVE  Unanswered'
<1>1. ASSUME NEW v \in Workers, NEW d \in Range(pread_que'[v]) \cup Range(ins_que'[v])
      PROVE  conn'[d].left = 0
  <2>1. d \in Range(pread_que[v]) \cup Range(ins_que[v]) /\ (v = w => d # c)
    BY DEF Moved
  <2>2. d \in Held(v)
    BY <2>1 DEF Held
  <2>3. d # c
    BY <2>1, <2>2, HeldAtOne
  <2>4. d \in Clients
    BY <2>2, HeldTypes DEF NetInv
  <2> QED
    BY <2>1, <2>3, <2>4 DEF NetInv, Unanswered
<1> QED
  BY <1>1 DEF Unanswered

(* ts_process puts the response into the connection.                       *)
LEMMA ProcessStep ==
    ASSUME NetInv, NEW w \in Workers, ts_process(w)
    PROVE  NetInv'
<1> DEFINE c == Head(ins_que[w])
           P == pread_que[w]
           I == ins_que[w]
           O == outs_que[w]
           C == closes_que[w]
<1>1. /\ wpc[w] = "process" /\ I # <<>> /\ ins_que' = Pop(ins_que, w)
      /\ UNCHANGED <<main, kernel, wpc, events, pread_que, hmap, client>>
  BY DEF ts_process
<1>2. PICK k \in ev_process(conn[c]) :
        /\ conn' = [conn EXCEPT ![c] = k]
        /\ \/ outs_que' = Push(outs_que, w, c) /\ closes_que' = closes_que
           \/ closes_que' = Push(closes_que, w, c) /\ outs_que' = outs_que
  BY DEF ts_process
<1>3. /\ P \in Seq(Clients) /\ I \in Seq(Clients) /\ O \in Seq(Clients) /\ C \in Seq(Clients)
      /\ Apart(P, I, O, C) /\ Cardinality(events[w]) \in Nat
  BY QueuesOf
<1>4. /\ ins_que \in [Workers -> Seq(Clients)] /\ outs_que \in [Workers -> Seq(Clients)]
      /\ closes_que \in [Workers -> Seq(Clients)] /\ pread_que \in [Workers -> Seq(Clients)]
  BY QueuesOf
<1>5. Apart(I, P, O, C)
  BY <1>3, ApartSwap
<1>6. /\ c \in Clients /\ c \notin Range(Tail(I)) \cup Range(P)
      /\ Range(I) = Range(Tail(I)) \cup {c} /\ Range(Append(O, c)) = Range(O) \cup {c}
      /\ Range(Append(C, c)) = Range(C) \cup {c}
      /\ Apart(Tail(I), P, Append(O, c), C) /\ Apart(Tail(I), P, O, Append(C, c))
      /\ Total(Tail(I), P, Append(O, c), C) = Total(I, P, O, C)
      /\ Total(Tail(I), P, O, Append(C, c)) = Total(I, P, O, C)
      /\ Total(I, P, O, C) \in Nat
  BY <1>1, <1>3, <1>5, MoveFacts
<1>7. /\ Tail(I) \in Seq(Clients) /\ Append(O, c) \in Seq(Clients)
      /\ Append(C, c) \in Seq(Clients)
  BY <1>1, <1>3, <1>6, TailFacts, AppendFacts
<1>8. /\ Apart(P, Tail(I), Append(O, c), C) /\ Apart(P, Tail(I), O, Append(C, c))
      /\ Total(P, Tail(I), Append(O, c), C) = Total(P, I, O, C)
      /\ Total(P, Tail(I), O, Append(C, c)) = Total(P, I, O, C)
      /\ Total(P, I, O, C) \in Nat
  <2>1. /\ Apart(P, Tail(I), Append(O, c), C) /\ Apart(P, Tail(I), O, Append(C, c))
    BY <1>6, ApartSwap
  <2>2. /\ Total(P, Tail(I), Append(O, c), C) = Total(Tail(I), P, Append(O, c), C)
        /\ Total(P, Tail(I), O, Append(C, c)) = Total(Tail(I), P, O, Append(C, c))
        /\ Total(P, I, O, C) = Total(I, P, O, C)
    <3> DEFINE T  == Tail(I)
               AO == Append(O, c)
               AC == Append(C, c)
    <3>1. /\ P \in Seq(Clients) /\ I \in Seq(Clients) /\ O \in Seq(Clients)
          /\ C \in Seq(Clients) /\ T \in Seq(Clients) /\ AO \in Seq(Clients)
          /\ AC \in Seq(Clients)
      BY <1>3, <1>7
    <3> HIDE DEF T, AO, AC, P, I, O, C
    <3>2. Total(P, T, AO, C) = Total(T, P, AO, C)
      BY <3>1, TotalFacts
    <3>3. Total(P, T, O, AC) = Total(T, P, O, AC)
      BY <3>1, TotalFacts
    <3>4. Total(P, I, O, C) = Total(I, P, O, C)
      BY <3>1, TotalFacts
    <3> QED
      BY <3>2, <3>3, <3>4 DEF T, AO, AC
  <2> QED
    BY <1>6, <2>1, <2>2
<1>9. /\ ins_que' \in [Workers -> Seq(Clients)] /\ ins_que'[w] = Tail(I)
      /\ \A v \in Workers : v # w => ins_que'[v] = ins_que[v]
  <2>1. ins_que \in [Workers -> Seq(Clients)] /\ ins_que[w] # <<>>
        /\ ins_que' = Pop(ins_que, w)
    BY <1>1, <1>4
  <2>2. Replaced(ins_que, w, Tail(ins_que[w]), ins_que')
    BY <2>1, PopFacts, Zenon
  <2> QED
    BY <2>2 DEF Replaced
<1> HIDE DEF c
<1>10. /\ outs_que' \in [Workers -> Seq(Clients)] /\ closes_que' \in [Workers -> Seq(Clients)]
       /\ \A v \in Workers : v # w => outs_que'[v] = outs_que[v] /\ closes_que'[v] = closes_que[v]
       /\ \/ outs_que'[w] = Append(O, c) /\ closes_que'[w] = C
          \/ outs_que'[w] = O /\ closes_que'[w] = Append(C, c)
  <2>1. CASE outs_que' = Push(outs_que, w, c) /\ closes_que' = closes_que
    <3>1. /\ outs_que' \in [Workers -> Seq(Clients)] /\ outs_que'[w] = Append(O, c)
          /\ \A v \in Workers : v # w => outs_que'[v] = outs_que[v]
      <4>1. c \in Clients /\ outs_que \in [Workers -> Seq(Clients)]
            /\ outs_que' = Push(outs_que, w, c)
        BY <1>4, <1>6, <2>1
      <4>2. Replaced(outs_que, w, Append(outs_que[w], c), outs_que')
        BY <4>1, PushFacts, Zenon
      <4> QED
        BY <4>2 DEF Replaced
    <3> QED
      BY <1>4, <2>1, <3>1
  <2>2. CASE closes_que' = Push(closes_que, w, c) /\ outs_que' = outs_que
    <3>1. /\ closes_que' \in [Workers -> Seq(Clients)] /\ closes_que'[w] = Append(C, c)
          /\ \A v \in Workers : v # w => closes_que'[v] = closes_que[v]
      <4>1. c \in Clients /\ closes_que \in [Workers -> Seq(Clients)]
            /\ closes_que' = Push(closes_que, w, c)
        BY <1>4, <1>6, <2>2
      <4>2. Replaced(closes_que, w, Append(closes_que[w], c), closes_que')
        BY <4>1, PushFacts, Zenon
      <4> QED
        BY <4>2 DEF Replaced
    <3> QED
      BY <1>4, <2>2, <3>1
  <2> QED
    BY <1>2, <2>1, <2>2
<1>11. /\ Range(pread_que'[w]) \cup Range(ins_que'[w]) \subseteq (Range(P) \cup Range(I)) \ {c}
       /\ Range(outs_que'[w]) \cup Range(closes_que'[w])
             \subseteq Range(I) \cup Range(O) \cup Range(C)
       /\ Apart(pread_que'[w], ins_que'[w], outs_que'[w], closes_que'[w])
       /\ Total(pread_que'[w], ins_que'[w], outs_que'[w], closes_que'[w]) = Total(P, I, O, C)
  <2>1. pread_que'[w] = P
    BY <1>1
  <2> HIDE DEF P, I, O, C
  <2>2. CASE outs_que'[w] = Append(O, c) /\ closes_que'[w] = C
    BY <1>6, <1>8, <1>9, <2>1, <2>2
  <2>3. CASE outs_que'[w] = O /\ closes_que'[w] = Append(C, c)
    BY <1>6, <1>8, <1>9, <2>1, <2>3
  <2> QED
    BY <1>10, <2>2, <2>3
<1>12. Load(w)' = Load(w) /\ Load(w)' \in Nat
  BY <1>8, <1>11 DEF Load
<1>13. c \in Held(w)
  BY <1>6 DEF Held
<1>14. Moved(w, c)
  <2>1. \A d \in Held(w)' : d \in Held(w)
    BY <1>11 DEF Held
  <2>2. pread_que' = pread_que
    BY <1>1
  <2> QED
    BY <1>4, <1>9, <1>10, <1>11, <2>1, <2>2 DEF Moved
<1>15. /\ conn' \in [Clients -> [fd : Fds \cup {0}, left : 0 .. MaxOut, closed : BOOLEAN,
                                state : {"none", "open", "freed"}]]
       /\ \A d \in Clients : d # c => conn'[d] = conn[d]
       /\ \A d \in Clients : conn'[d].fd = conn[d].fd /\ conn'[d].state = conn[d].state
  <2>1. conn \in [Clients -> [fd : Fds \cup {0}, left : 0 .. MaxOut, closed : BOOLEAN,
                              state : {"none", "open", "freed"}]]
    BY DEF NetInv, TypeOK
  <2>2. c \in Clients
    BY <1>6
  <2>3. /\ k \in [fd : Fds \cup {0}, left : 0 .. MaxOut, closed : BOOLEAN,
                  state : {"none", "open", "freed"}]
        /\ k.fd = conn[c].fd /\ k.state = conn[c].state
    <3>1. conn[c] \in [fd : Fds \cup {0}, left : 0 .. MaxOut, closed : BOOLEAN,
                       state : {"none", "open", "freed"}]
      BY <2>1, <2>2
    <3>2. k = [conn[c] EXCEPT !.left = MaxOut] \/ k = [conn[c] EXCEPT !.closed = TRUE]
      BY <1>2 DEF ev_process
    <3>3. MaxOut \in 0 .. MaxOut
      BY NetAssumption
    <3>4. CASE k = [conn[c] EXCEPT !.left = MaxOut]
      BY <3>1, <3>3, <3>4
    <3>5. CASE k = [conn[c] EXCEPT !.closed = TRUE]
      BY <3>1, <3>5
    <3> QED
      BY <3>2, <3>4, <3>5
  <2> QED
    BY <1>2, <2>1, <2>2, <2>3
<1>16. TypeOK' /\ QueueTypes'
  BY <1>1, <1>14, <1>15 DEF NetInv, TypeOK, QueueTypes, Moved, main, kernel, client
<1>17. Startup' /\ LateSeen' /\ LateClientsKept' /\ Kernel'
  BY <1>1, StartupFrame, LateFrame, KernelFrame DEF main, kernel, client
<1>18. Maps'
  BY <1>1, <1>10, <1>15, MapsFrame DEF kernel
<1>19. Queues'
  BY <1>1, <1>13, <1>14, <1>15, QueuesMoved DEF kernel
<1>20. Unanswered'
  BY <1>11, <1>13, <1>14, <1>15, UnansweredMoved
<1>21. Rounds'
  <2>1. Load(w)' + Cardinality(events'[w]) <= Load(w) + Cardinality(events[w])
    BY <1>1, <1>3, <1>12
  <2> QED
    BY <1>1, <1>3, <1>12, <1>14, <2>1, RoundsMoved DEF client
<1> QED
  BY <1>16, <1>17, <1>18, <1>19, <1>20, <1>21 DEF NetInv

(* ts_write sends what it can and closes a connection that fails.          *)
LEMMA WriteStep ==
    ASSUME NetInv, NEW w \in Workers, ts_write(w)
    PROVE  NetInv'
<1> DEFINE c == Head(outs_que[w])
           P == pread_que[w]
           I == ins_que[w]
           O == outs_que[w]
           C == closes_que[w]
<1>1. /\ wpc[w] = "write" /\ O # <<>> /\ outs_que' = Pop(outs_que, w)
      /\ UNCHANGED <<main, owner, reg, waked, backlog, next, wpc, events, pread_que,
                     ins_que, hmap, cst, late>>
  BY DEF ts_write
<1>2. /\ \/ \E left \in 0 .. conn[c].left : conn' = [conn EXCEPT ![c].left = left]
         \/ conn' = [conn EXCEPT ![c].closed = TRUE]
      /\ \/ closes_que' = Push(closes_que, w, c)
         \/ closes_que' = closes_que
      /\ \/ wint' = wint
         \/ wint' = [wint EXCEPT ![w] = @ \cup {conn[c].fd}]
         \/ wint' = [wint EXCEPT ![w] = @ \ {conn[c].fd}]
  BY DEF ts_write
<1>3. /\ P \in Seq(Clients) /\ I \in Seq(Clients) /\ O \in Seq(Clients) /\ C \in Seq(Clients)
      /\ Apart(P, I, O, C) /\ Cardinality(events[w]) \in Nat
  BY QueuesOf
<1>4. /\ ins_que \in [Workers -> Seq(Clients)] /\ outs_que \in [Workers -> Seq(Clients)]
      /\ closes_que \in [Workers -> Seq(Clients)] /\ pread_que \in [Workers -> Seq(Clients)]
  BY QueuesOf
<1>5. Apart(O, I, P, C)
  BY <1>3, ApartSwap
<1>6. /\ c \in Clients /\ c \notin Range(I) \cup Range(P)
      /\ Range(O) = Range(Tail(O)) \cup {c} /\ Range(Append(C, c)) = Range(C) \cup {c}
      /\ Apart(Tail(O), I, P, C) /\ Apart(Tail(O), I, P, Append(C, c))
      /\ Total(Tail(O), I, P, C) = Total(O, I, P, C) - 1
      /\ Total(Tail(O), I, P, Append(C, c)) = Total(O, I, P, C)
      /\ Total(O, I, P, C) \in Nat /\ Total(Tail(O), I, P, C) \in Nat
  BY <1>1, <1>3, <1>5, MoveFacts
<1>7. Tail(O) \in Seq(Clients) /\ Append(C, c) \in Seq(Clients)
  BY <1>1, <1>3, <1>6, TailFacts, AppendFacts
<1>8. /\ Apart(P, I, Tail(O), C) /\ Apart(P, I, Tail(O), Append(C, c))
      /\ Total(P, I, Tail(O), C) = Total(P, I, O, C) - 1
      /\ Total(P, I, Tail(O), Append(C, c)) = Total(P, I, O, C)
      /\ Total(P, I, O, C) \in Nat /\ Total(P, I, Tail(O), C) \in Nat
  <2>1. Apart(P, I, Tail(O), C) /\ Apart(P, I, Tail(O), Append(C, c))
    BY <1>6, ApartSwap
  <2>2. /\ Total(P, I, Tail(O), C) = Total(Tail(O), I, P, C)
        /\ Total(P, I, Tail(O), Append(C, c)) = Total(Tail(O), I, P, Append(C, c))
        /\ Total(P, I, O, C) = Total(O, I, P, C)
    <3> DEFINE T  == Tail(O)
               AC == Append(C, c)
    <3>1. /\ P \in Seq(Clients) /\ I \in Seq(Clients) /\ O \in Seq(Clients)
          /\ C \in Seq(Clients) /\ T \in Seq(Clients) /\ AC \in Seq(Clients)
      BY <1>3, <1>7
    <3> HIDE DEF T, AC, P, I, O, C
    <3>2. Total(P, I, T, C) = Total(T, I, P, C)
      BY <3>1, TotalFacts
    <3>3. Total(P, I, T, AC) = Total(T, I, P, AC)
      BY <3>1, TotalFacts
    <3>4. Total(P, I, O, C) = Total(O, I, P, C)
      BY <3>1, TotalFacts
    <3> QED
      BY <3>2, <3>3, <3>4 DEF T, AC
  <2> QED
    BY <1>6, <2>1, <2>2
<1>9. /\ outs_que' \in [Workers -> Seq(Clients)] /\ outs_que'[w] = Tail(O)
      /\ \A v \in Workers : v # w => outs_que'[v] = outs_que[v]
  <2>1. outs_que \in [Workers -> Seq(Clients)] /\ outs_que[w] # <<>>
        /\ outs_que' = Pop(outs_que, w)
    BY <1>1, <1>4
  <2>2. Replaced(outs_que, w, Tail(outs_que[w]), outs_que')
    BY <2>1, PopFacts, Zenon
  <2> QED
    BY <2>2 DEF Replaced
<1> HIDE DEF c
<1>10. /\ closes_que' \in [Workers -> Seq(Clients)]
       /\ \A v \in Workers : v # w => closes_que'[v] = closes_que[v]
       /\ closes_que'[w] = Append(C, c) \/ closes_que'[w] = C
  <2>1. CASE closes_que' = Push(closes_que, w, c)
    <3>1. c \in Clients /\ closes_que \in [Workers -> Seq(Clients)]
          /\ closes_que' = Push(closes_que, w, c)
      BY <1>4, <1>6, <2>1
    <3>2. Replaced(closes_que, w, Append(closes_que[w], c), closes_que')
      BY <3>1, PushFacts, Zenon
    <3> QED
      BY <3>2 DEF Replaced
  <2>2. CASE closes_que' = closes_que
    BY <1>4, <2>2
  <2> QED
    BY <1>2, <2>1, <2>2
<1>11. /\ Range(pread_que'[w]) \cup Range(ins_que'[w]) \subseteq (Range(P) \cup Range(I)) \ {c}
       /\ Range(outs_que'[w]) \cup Range(closes_que'[w]) \subseteq Range(O) \cup Range(C)
       /\ Apart(pread_que'[w], ins_que'[w], outs_que'[w], closes_que'[w])
       /\ Total(pread_que'[w], ins_que'[w], outs_que'[w], closes_que'[w]) <= Total(P, I, O, C)
       /\ Total(pread_que'[w], ins_que'[w], outs_que'[w], closes_que'[w]) \in Nat
  <2>1. pread_que'[w] = P /\ ins_que'[w] = I
    BY <1>1
  <2> HIDE DEF P, I, O, C
  <2>2. CASE closes_que'[w] = Append(C, c)
    BY <1>6, <1>8, <1>9, <2>1, <2>2
  <2>3. CASE closes_que'[w] = C
    BY <1>6, <1>8, <1>9, <2>1, <2>3
  <2> QED
    BY <1>10, <2>2, <2>3
<1>12. Load(w)' <= Load(w) /\ Load(w)' \in Nat /\ Load(w) \in Nat
  BY <1>8, <1>11 DEF Load
<1>13. c \in Held(w)
  BY <1>6 DEF Held
<1>14. Moved(w, c)
  <2>1. \A d \in Held(w)' : d \in Held(w)
    BY <1>11 DEF Held
  <2>2. pread_que' = pread_que /\ ins_que' = ins_que
    BY <1>1
  <2> QED
    BY <1>4, <1>9, <1>10, <1>11, <2>1, <2>2 DEF Moved
<1>15. /\ conn' \in [Clients -> [fd : Fds \cup {0}, left : 0 .. MaxOut, closed : BOOLEAN,
                                state : {"none", "open", "freed"}]]
       /\ \A d \in Clients : d # c => conn'[d] = conn[d]
       /\ \A d \in Clients : conn'[d].fd = conn[d].fd /\ conn'[d].state = conn[d].state
  <2>1. conn \in [Clients -> [fd : Fds \cup {0}, left : 0 .. MaxOut, closed : BOOLEAN,
                              state : {"none", "open", "freed"}]]
    BY DEF NetInv, TypeOK
  <2>2. c \in Clients
    BY <1>6
  <2>3. CASE \E left \in 0 .. conn[c].left : conn' = [conn EXCEPT ![c].left = left]
    <3>1. PICK left \in 0 .. conn[c].left : conn' = [conn EXCEPT ![c].left = left]
      BY <2>3
    <3>2. left \in 0 .. MaxOut
      BY <2>1, <2>2, NetAssumption
    <3> QED
      BY <2>1, <2>2, <3>1, <3>2
  <2>4. CASE conn' = [conn EXCEPT ![c].closed = TRUE]
    BY <2>1, <2>2, <2>4
  <2> QED
    BY <1>2, <2>3, <2>4
<1>16. TypeOK' /\ QueueTypes'
  <2>1. wint' \in [Workers -> SUBSET Fds]
    <3>1. wint \in [Workers -> SUBSET Fds]
      BY DEF NetInv, TypeOK
    <3>2. conn[c].fd \in Fds
      BY <1>13 DEF NetInv, Queues
    <3> QED
      BY <1>2, <3>1, <3>2
  <2> QED
    BY <1>1, <1>14, <1>15, <2>1 DEF NetInv, TypeOK, QueueTypes, Moved, main
<1>17. Startup' /\ LateSeen' /\ LateClientsKept' /\ Kernel'
  BY <1>1, StartupFrame, LateFrame, KernelFrame DEF main
<1>18. Maps'
  BY <1>1, <1>10, <1>15, MapsFrame
<1>19. Queues'
  BY <1>1, <1>13, <1>14, <1>15, QueuesMoved
<1>20. Unanswered'
  BY <1>11, <1>13, <1>14, <1>15, UnansweredMoved
<1>21. Rounds'
  <2>1. Load(w)' + Cardinality(events'[w]) <= Load(w) + Cardinality(events[w])
    BY <1>1, <1>3, <1>12
  <2> QED
    BY <1>1, <1>3, <1>12, <1>14, <2>1, RoundsMoved
<1> QED
  BY <1>16, <1>17, <1>18, <1>19, <1>20, <1>21 DEF NetInv

(* ts_close gives the descriptor back; the connection is still mapped.     *)
LEMMA CloseStep ==
    ASSUME NetInv, NEW w \in Workers, ts_close(w)
    PROVE  NetInv'
<1> DEFINE c  == Head(closes_que[w])
           fd == conn[c].fd
<1>1. /\ wpc[w] = "close" /\ closes_que[w] # <<>>
      /\ owner' = [owner EXCEPT ![fd] = None]
      /\ reg' = [v \in Workers |-> reg[v] \ {fd}]
      /\ wint' = [v \in Workers |-> wint[v] \ {fd}]
      /\ cst' = [cst EXCEPT ![owner[fd]] = "closed"]
      /\ wpc' = [wpc EXCEPT ![w] = "unmap"]
      /\ UNCHANGED <<main, waked, backlog, next, queues, hmap, conn, late>>
  BY DEF ts_close, Goto
<1>2. /\ owner \in [Fds -> Clients \cup {None}] /\ reg \in [Workers -> SUBSET Fds]
      /\ cst \in [Clients -> {"none", "pending", "accepted", "dropped", "closed"}]
      /\ wint \in [Workers -> SUBSET Fds]
      /\ wpc \in [Workers -> {"none", "check", "wait", "accept", "read", "process",
                              "write", "close", "unmap", "exited"}]
  BY DEF NetInv, TypeOK
<1>3. c \in Held(w) /\ c \in Clients /\ c # None
  BY <1>1, HeldTypes, NoneAssumption DEF NetInv, Held
<1>4. fd \in Fds /\ hmap[w][fd] = c /\ fd \notin events[w]
  BY <1>3 DEF NetInv, Queues
<1>5. owner[fd] = c /\ fd \in reg[w]
  BY <1>1, <1>3, <1>4 DEF NetInv, Maps, Unmapping
<1>6. cst[c] = "accepted"
  BY <1>3, <1>4, <1>5 DEF NetInv, Kernel
<1> HIDE DEF c, fd
<1>7. /\ owner' \in [Fds -> Clients \cup {None}] /\ owner'[fd] = None
      /\ \A g \in Fds : g # fd => owner'[g] = owner[g] /\ owner[g] # c
  BY <1>1, <1>2, <1>3, <1>4, <1>5 DEF NetInv, Kernel
<1>8. reg' \in [Workers -> SUBSET Fds] /\ \A v \in Workers : reg'[v] = reg[v] \ {fd}
  BY <1>1, <1>2
<1>9. /\ cst' \in [Clients -> {"none", "pending", "accepted", "dropped", "closed"}]
      /\ cst'[c] = "closed" /\ \A d \in Clients : d # c => cst'[d] = cst[d]
  BY <1>1, <1>2, <1>3, <1>5
<1>10. /\ wpc' \in [Workers -> {"none", "check", "wait", "accept", "read", "process",
                               "write", "close", "unmap", "exited"}]
       /\ wpc'[w] = "unmap" /\ \A v \in Workers : v # w => wpc'[v] = wpc[v]
  BY <1>1, <1>2
<1>11. TypeOK' /\ QueueTypes'
  <2>1. wint' \in [Workers -> SUBSET Fds]
    BY <1>1, <1>2
  <2>2. TypeOK'
    BY <1>1, <1>7, <1>8, <1>9, <1>10, <2>1 DEF NetInv, TypeOK, main
  <2>3. QueueTypes'
    BY <1>1 DEF NetInv, QueueTypes, queues
  <2> QED
    BY <2>2, <2>3
<1>12. Startup'
  BY <1>1, <1>10, StartupFrame DEF main
<1>13. LateSeen' /\ LateClientsKept'
  BY <1>1, <1>9, LateFrame DEF main
<1>14. Kernel'
  <2>1. c \notin Range(backlog) /\ Range(backlog) \subseteq Clients
    BY <1>6, RangeOfSeq DEF NetInv, Kernel, QueueTypes
  <2>2. \A d \in Range(backlog') : cst'[d] = "pending"
    BY <1>1, <1>9, <2>1 DEF NetInv, Kernel
  <2>3. \A g \in Fds : owner'[g] # None => cst'[owner'[g]] = "accepted"
    BY <1>2, <1>7, <1>9 DEF NetInv, Kernel
  <2>4. \A f, g \in Fds : owner'[f] = owner'[g] /\ owner'[f] # None => f = g
    BY <1>7 DEF NetInv, Kernel
  <2>5. /\ \A v \in Workers : \A g \in reg'[v] : owner'[g] # None
        /\ \A u, v \in Workers : \A g \in Fds : g \in reg'[u] /\ g \in reg'[v] => u = v
    BY <1>2, <1>7, <1>8 DEF NetInv, Kernel
  <2> QED
    BY <1>1, <2>2, <2>3, <2>4, <2>5 DEF NetInv, Kernel
<1>15. Maps'
  <2>1. ASSUME NEW v \in Workers, NEW g \in Fds, hmap[v][g] # None
        PROVE  \/ owner'[g] = hmap[v][g] /\ g \in reg'[v]
               \/ wpc'[v] = "unmap" /\ hmap[v][g] = Head(closes_que[v])
    <3>1. CASE v = w /\ g = fd
      BY <1>4, <1>10, <3>1 DEF c
    <3>2. CASE v # w /\ g = fd
      <4>1. hmap[v][g] # c
        BY <1>3, <1>4, <3>2 DEF NetInv, Maps
      <4> QED
        BY <1>5, <1>10, <2>1, <3>2, <4>1 DEF NetInv, Maps, Unmapping
    <3>3. CASE g # fd
      BY <1>1, <1>7, <1>8, <1>10, <2>1, <3>3 DEF NetInv, Maps, Unmapping
    <3> QED
      BY <3>1, <3>2, <3>3
  <2> QED
    BY <1>1, <2>1 DEF NetInv, Maps, Unmapping, queues
<1>16. Queues' /\ Unanswered'
  <2>1. \A v \in Workers : Held(v)' = Held(v)
    BY <1>1 DEF Held, queues
  <2>2. \A v \in Workers : \A g \in Fds : g \in events[v] => g \in reg'[v]
    BY <1>4, <1>5, <1>8 DEF NetInv, Queues, Kernel
  <2>3. Queues'
    BY <1>1, <2>1, <2>2 DEF NetInv, Queues, queues
  <2>4. Unanswered'
    BY <1>1 DEF NetInv, Unanswered, queues
  <2> QED
    BY <2>3, <2>4
<1>17. Rounds'
  <2>1. \A v \in Workers : Load(v)' = Load(v)
    BY <1>1 DEF Load, queues
  <2>2. \A v \in Workers : Load(v) + Cardinality(events[v]) <= QueueSize
    BY DEF NetInv, Rounds
  <2>3. ASSUME NEW v \in Workers, wpc[v] = "unmap"
        PROVE  closes_que[v] # <<>> /\ cst'[Head(closes_que[v])] = "closed"
    <3>1. closes_que[v] # <<>> /\ cst[Head(closes_que[v])] = "closed"
      BY <2>3 DEF NetInv, Rounds
    <3>2. Head(closes_que[v]) \in Clients
      BY <3>1, HeldTypes DEF NetInv, Held
    <3> QED
      BY <1>9, <3>1, <3>2
  <2>4. closes_que[w] # <<>> /\ cst'[Head(closes_que[w])] = "closed"
    BY <1>1, <1>9 DEF c
  <2> QED
    BY <1>1, <1>10, <2>1, <2>2, <2>3, <2>4 DEF NetInv, Rounds, queues
<1> QED
  BY <1>11, <1>12, <1>13, <1>14, <1>15, <1>16, <1>17 DEF NetInv

(* The connection is taken out of the map and freed.                       *)
LEMMA UnmapStep ==
    ASSUME NetInv, NEW w \in Workers, ts_unmap(w)
    PROVE  NetInv'
<1> DEFINE c  == Head(closes_que[w])
           fd == conn[c].fd
           P == pread_que[w]
           I == ins_que[w]
           O == outs_que[w]
           C == closes_que[w]
<1>1. /\ wpc[w] = "unmap"
      /\ hmap' = [hmap EXCEPT ![w][fd] = None]
      /\ conn' = [conn EXCEPT ![c].state = "freed"]
      /\ closes_que' = Pop(closes_que, w)
      /\ wpc' = [wpc EXCEPT ![w] = "close"]
      /\ UNCHANGED <<main, kernel, events, pread_que, ins_que, outs_que, client>>
  BY DEF ts_unmap, Goto
<1>2. C # <<>>
  BY <1>1 DEF NetInv, Rounds
<1>3. /\ P \in Seq(Clients) /\ I \in Seq(Clients) /\ O \in Seq(Clients) /\ C \in Seq(Clients)
      /\ Apart(P, I, O, C) /\ Cardinality(events[w]) \in Nat
  BY QueuesOf
<1>4. /\ hmap \in [Workers -> [Fds -> Clients \cup {None}]]
      /\ conn \in [Clients -> [fd : Fds \cup {0}, left : 0 .. MaxOut, closed : BOOLEAN,
                               state : {"none", "open", "freed"}]]
      /\ wpc \in [Workers -> {"none", "check", "wait", "accept", "read", "process",
                              "write", "close", "unmap", "exited"}]
  BY DEF NetInv, TypeOK
<1>5. Apart(C, I, O, P)
  BY <1>3, ApartSwap
<1>6. /\ c \in Clients /\ c \notin Range(Tail(C)) \cup Range(I) \cup Range(O) \cup Range(P)
      /\ Range(C) = Range(Tail(C)) \cup {c}
      /\ Apart(Tail(C), I, O, P)
      /\ Total(Tail(C), I, O, P) = Total(C, I, O, P) - 1
      /\ Total(C, I, O, P) \in Nat /\ Total(Tail(C), I, O, P) \in Nat
  <2>1. /\ P \in Seq(Clients) /\ I \in Seq(Clients) /\ O \in Seq(Clients)
        /\ C \in Seq(Clients) /\ C # <<>> /\ Apart(C, I, O, P) /\ c = Head(C)
    BY <1>2, <1>3, <1>5
  <2> HIDE DEF P, I, O, C, c
  <2> QED
    BY <2>1, MoveFacts
<1>7. Apart(P, I, O, Tail(C))
  BY <1>6, ApartSwap
<1>8. Total(P, I, O, C) = Total(C, I, O, P) /\ Total(P, I, O, Tail(C)) = Total(Tail(C), I, O, P)
  <2> DEFINE T == Tail(C)
  <2>1. /\ P \in Seq(Clients) /\ I \in Seq(Clients) /\ O \in Seq(Clients)
        /\ C \in Seq(Clients) /\ T \in Seq(Clients)
    BY <1>2, <1>3, TailFacts
  <2> HIDE DEF T, P, I, O, C
  <2>2. Total(P, I, O, C) = Total(C, I, O, P)
    BY <2>1, TotalFacts
  <2>3. Total(P, I, O, T) = Total(T, I, O, P)
    BY <2>1, TotalFacts
  <2> QED
    BY <2>2, <2>3 DEF T
<1>9. /\ closes_que' \in [Workers -> Seq(Clients)] /\ closes_que'[w] = Tail(C)
      /\ \A v \in Workers : v # w => closes_que'[v] = closes_que[v]
  <2>1. closes_que \in [Workers -> Seq(Clients)] /\ closes_que[w] # <<>>
        /\ closes_que' = Pop(closes_que, w)
    BY <1>1, <1>2, QueuesOf
  <2>2. Replaced(closes_que, w, Tail(closes_que[w]), closes_que')
    BY <2>1, PopFacts, Zenon
  <2> QED
    BY <2>2 DEF Replaced
<1>10. c \in Held(w) /\ c # None
  BY <1>6, NoneAssumption DEF Held
<1>11. fd \in Fds /\ hmap[w][fd] = c
  BY <1>10 DEF NetInv, Queues
<1> HIDE DEF c, fd
<1>12. /\ Load(w)' = Load(w) - 1 /\ Load(w)' \in Nat /\ Load(w) \in Nat
       /\ \A v \in Workers : v # w => Load(v)' = Load(v)
  <2>1. pread_que'[w] = P /\ ins_que'[w] = I /\ outs_que'[w] = O
    BY <1>1
  <2>2. Load(w)' = Total(P, I, O, Tail(C)) /\ Load(w) = Total(P, I, O, C)
    BY <1>9, <2>1 DEF Load
  <2>3. \A v \in Workers : v # w => Load(v)' = Load(v)
    BY <1>1, <1>9 DEF Load
  <2> HIDE DEF P, I, O, C
  <2> QED
    BY <1>6, <1>8, <2>2, <2>3
<1>13. \A v \in Workers : Held(v)' \subseteq Held(v)
  <2>1. Held(w)' \subseteq Held(w)
    BY <1>1, <1>6, <1>9 DEF Held
  <2>2. \A v \in Workers : v # w => Held(v)' = Held(v)
    BY <1>1, <1>9 DEF Held
  <2> QED
    BY <2>1, <2>2
<1>14. ASSUME NEW v \in Workers, NEW d \in Held(v)' PROVE d # c /\ d \in Clients /\ d \in Held(v)
  <2>1. d \in Held(v)
    BY <1>13
  <2>2. d \in Clients
    BY <2>1, HeldTypes DEF NetInv
  <2>3. d = c => v = w
    BY <1>10, <2>1, HeldAtOne
  <2>4. c \notin Held(w)'
    BY <1>1, <1>6, <1>9 DEF Held
  <2> QED
    BY <2>1, <2>2, <2>3, <2>4
<1>15. /\ hmap' \in [Workers -> [Fds -> Clients \cup {None}]]
       /\ hmap'[w][fd] = None
       /\ \A v \in Workers, g \in Fds : v # w \/ g # fd => hmap'[v][g] = hmap[v][g]
  BY <1>1, <1>4, <1>11
<1>16. /\ conn' \in [Clients -> [fd : Fds \cup {0}, left : 0 .. MaxOut, closed : BOOLEAN,
                                state : {"none", "open", "freed"}]]
       /\ \A d \in Clients : d # c => conn'[d] = conn[d]
  <2>1. c \in Clients
    BY <1>6
  <2> QED
    BY <1>1, <1>4, <2>1
<1>17. /\ wpc' \in [Workers -> {"none", "check", "wait", "accept", "read", "process",
                               "write", "close", "unmap", "exited"}]
       /\ wpc'[w] = "close" /\ \A v \in Workers : v # w => wpc'[v] = wpc[v]
  BY <1>1, <1>4
<1>18. TypeOK' /\ QueueTypes'
  <2>1. TypeOK'
    BY <1>1, <1>15, <1>16, <1>17 DEF NetInv, TypeOK, main, kernel, client
  <2>2. QueueTypes'
    BY <1>1, <1>9 DEF NetInv, QueueTypes, kernel, client
  <2> QED
    BY <2>1, <2>2
<1>19. Startup'
  BY <1>1, <1>17, StartupFrame DEF main
<1>20. LateSeen' /\ LateClientsKept' /\ Kernel'
  BY <1>1, LateFrame, KernelFrame DEF main, kernel, client
<1>21. Maps'
  <2>1. ASSUME NEW v \in Workers, NEW g \in Fds, hmap'[v][g] # None
        PROVE  /\ hmap'[v][g] = hmap[v][g] /\ (v # w \/ g # fd)
               /\ conn'[hmap[v][g]].fd = g /\ conn'[hmap[v][g]].state = "open"
               /\ \/ owner'[g] = hmap[v][g] /\ g \in reg'[v]
                  \/ wpc'[v] = "unmap" /\ hmap[v][g] = Head(closes_que'[v])
    <3>1. v # w \/ g # fd
      BY <1>15, <2>1
    <3>2. hmap'[v][g] = hmap[v][g] /\ hmap[v][g] # None /\ hmap[v][g] \in Clients
      BY <1>4, <1>15, <2>1, <3>1
    <3>3. hmap[v][g] # c
      BY <1>10, <1>11, <3>1 DEF NetInv, Maps
    <3>4. conn'[hmap[v][g]] = conn[hmap[v][g]]
      BY <1>16, <3>2, <3>3
    <3>5. /\ conn[hmap[v][g]].fd = g /\ conn[hmap[v][g]].state = "open"
          /\ \/ owner[g] = hmap[v][g] /\ g \in reg[v]
             \/ wpc[v] = "unmap" /\ hmap[v][g] = Head(closes_que[v])
      BY <3>2 DEF NetInv, Maps, Unmapping
    <3>6. owner' = owner /\ reg' = reg
      BY <1>1 DEF kernel
    <3>7. v = w => hmap[v][g] # Head(closes_que[v])
      BY <3>3 DEF c
    <3> QED
      BY <1>9, <1>17, <3>1, <3>2, <3>4, <3>5, <3>6, <3>7
  <2>2. ASSUME NEW u \in Workers, NEW v \in Workers, NEW f \in Fds, NEW g \in Fds,
               hmap'[u][f] = hmap'[v][g], hmap'[u][f] # None
        PROVE  u = v /\ f = g
    <3>1. hmap[u][f] = hmap[v][g] /\ hmap[u][f] # None
      BY <2>1, <2>2
    <3> QED
      BY <3>1 DEF NetInv, Maps
  <2> QED
    BY <2>1, <2>2 DEF Maps, Unmapping
<1>22. Queues'
  <2>1. \A v \in Workers : Apart(pread_que'[v], ins_que'[v], outs_que'[v], closes_que'[v])
    BY <1>1, <1>7, <1>9 DEF NetInv, Queues
  <2>2. \A v \in Workers : \A g \in Fds : g \in events'[v] => g \in reg'[v]
    BY <1>1 DEF NetInv, Queues, kernel
  <2>3. ASSUME NEW v \in Workers, NEW d \in Held(v)'
        PROVE  /\ conn'[d].state = "open" /\ conn'[d].fd \in Fds
               /\ hmap'[v][conn'[d].fd] = d /\ conn'[d].fd \notin events'[v]
    <3>1. d # c /\ d \in Clients /\ d \in Held(v)
      BY <1>14
    <3>2. conn'[d] = conn[d]
      BY <1>16, <3>1
    <3>3. /\ conn[d].state = "open" /\ conn[d].fd \in Fds
          /\ hmap[v][conn[d].fd] = d /\ conn[d].fd \notin events[v]
      BY <3>1 DEF NetInv, Queues
    <3>4. v # w \/ conn[d].fd # fd
      BY <1>11, <3>1, <3>3
    <3>5. events' = events
      BY <1>1
    <3> QED
      BY <1>15, <3>2, <3>3, <3>4, <3>5
  <2> QED
    BY <2>1, <2>2, <2>3 DEF Queues
<1>23. Unanswered'
  <2>1. ASSUME NEW v \in Workers, NEW d \in Range(pread_que'[v]) \cup Range(ins_que'[v])
        PROVE  conn'[d].left = 0
    <3>1. d \in Held(v)' /\ d \in Range(pread_que[v]) \cup Range(ins_que[v])
      BY <1>1 DEF Held
    <3>2. conn'[d] = conn[d]
      BY <1>14, <1>16, <3>1
    <3> QED
      BY <3>1, <3>2 DEF NetInv, Unanswered
  <2> QED
    BY <2>1 DEF Unanswered
<1>24. Rounds'
  <2>1. \A v \in Workers : Load(v) + Cardinality(events[v]) <= QueueSize
    BY DEF NetInv, Rounds
  <2>2. events' = events
    BY <1>1
  <2>3. \A v \in Workers : (Load(v) + Cardinality(events[v]))' <= QueueSize
    <3>1. Load(w)' + Cardinality(events[w]) <= QueueSize
      BY <1>3, <1>12, <2>1, NetAssumption
    <3>2. \A v \in Workers : Load(v)' + Cardinality(events[v]) <= QueueSize
      BY <1>12, <2>1, <3>1
    <3> QED
      BY <2>2, <3>2
  <2> QED
    BY <1>1, <1>9, <1>17, <2>3 DEF NetInv, Rounds, client
<1> QED
  BY <1>18, <1>19, <1>20, <1>21, <1>22, <1>23, <1>24 DEF NetInv

(* Every step keeps the invariant.                                         *)
LEMMA NetStep ==
    ASSUME NetInv, [Next]_vars
    PROVE  NetInv'
<1>1. CASE Main \/ net_server_stop
  BY <1>1, MainStep
<1>2. ASSUME NEW w \in Workers, Handle(w) PROVE NetInv'
  <2>1. CASE check_stopping(w) \/ NextPhase(w)
    BY <2>1, GotoStep
  <2>2. CASE ts_accept(w)
    BY <2>2, AcceptWakeStep, AcceptListenStep, AcceptConnStep, AcceptNoMemoryStep DEF ts_accept
  <2>3. CASE ts_read(w) \/ ts_process(w) \/ ts_write(w)
    BY <2>3, ReadStep, ProcessStep, WriteStep
  <2>4. CASE ts_close(w) \/ ts_unmap(w)
    BY <2>4, CloseStep, UnmapStep
  <2> QED
    BY <1>2, <2>1, <2>2, <2>3, <2>4 DEF Handle
<1>3. ASSUME NEW w \in Workers, Wait(w) PROVE NetInv'
  BY <1>3, WaitStep DEF Wait
<1>4. ASSUME NEW c \in Clients, Connect(c) \/ Ask(c) \/ Hangup(c) PROVE NetInv'
  BY <1>4, ClientStep
<1>5. CASE UNCHANGED vars
  <2>1. UNCHANGED <<main, kernel, worker, cst, late>>
    BY <1>5 DEF vars, client
  <2>2. TypeOK' /\ QueueTypes'
    BY <2>1 DEF NetInv, TypeOK, QueueTypes, main, kernel, worker, queues
  <2>3. Startup' /\ LateSeen' /\ LateClientsKept'
    BY <2>1, StartupFrame, LateFrame DEF main, worker
  <2>4. Kernel' /\ Maps'
    BY <2>1, KernelFrame, MapsFrame DEF kernel, worker, queues
  <2>5. Queues' /\ Unanswered' /\ Rounds'
    BY <2>1, QueuesFrame, RoundsFrame DEF kernel, worker, queues
  <2> QED
    BY <2>2, <2>3, <2>4, <2>5 DEF NetInv
<1> QED
  BY <1>1, <1>2, <1>3, <1>4, <1>5 DEF Next

(* The invariant holds throughout.                                         *)
LEMMA NetAlways == Spec => []NetInv
<1>1. Init => NetInv
  BY InitNet
<1>2. NetInv /\ [Next]_vars => NetInv'
  BY NetStep
<1> QED
  BY <1>1, <1>2, PTL DEF Spec

(* The queues of a worker as one sequence.                                 *)
LEMMA QueuedFacts ==
    ASSUME NetInv, NEW w \in Workers
    PROVE  /\ Once(Queued(w)) /\ Range(Queued(w)) = Held(w) /\ Len(Queued(w)) = Load(w)
           /\ DOMAIN Queued(w) = 1 .. Len(Queued(w))
           /\ \A i \in DOMAIN Queued(w) : Queued(w)[i] \in Held(w)
<1> DEFINE P == pread_que[w]
           I == ins_que[w]
           O == outs_que[w]
           C == closes_que[w]
<1>1. /\ P \in Seq(Clients) /\ I \in Seq(Clients) /\ O \in Seq(Clients) /\ C \in Seq(Clients)
      /\ Apart(P, I, O, C)
  BY QueuesOf
<1> HIDE DEF P, I, O, C
<1>2. /\ Once(P) /\ Once(I) /\ Once(O) /\ Once(C)
      /\ Range(P) \cap Range(I) = {} /\ (Range(P) \cup Range(I)) \cap Range(O) = {}
      /\ (Range(P) \cup Range(I) \cup Range(O)) \cap Range(C) = {}
  BY <1>1 DEF Apart
<1> DEFINE A == P \o I
           B == A \o O
           D == B \o C
<1>3. /\ A \in Seq(Clients) /\ Once(A) /\ Range(A) = Range(P) \cup Range(I)
      /\ Len(A) = Len(P) + Len(I)
  BY <1>1, <1>2, ConcatFacts
<1> HIDE DEF A
<1>4. /\ B \in Seq(Clients) /\ Once(B) /\ Range(B) = Range(A) \cup Range(O)
      /\ Len(B) = Len(A) + Len(O)
  <2>1. Range(A) \cap Range(O) = {}
    BY <1>2, <1>3
  <2>2. A \in Seq(Clients) /\ Once(A) /\ O \in Seq(Clients) /\ Once(O)
    BY <1>1, <1>2, <1>3
  <2> QED
    BY <2>1, <2>2, ConcatFacts
<1> HIDE DEF B
<1>5. /\ D \in Seq(Clients) /\ Once(D) /\ Range(D) = Range(B) \cup Range(C)
      /\ Len(D) = Len(B) + Len(C)
  <2>1. Range(B) \cap Range(C) = {}
    BY <1>2, <1>3, <1>4
  <2>2. B \in Seq(Clients) /\ Once(B) /\ C \in Seq(Clients) /\ Once(C)
    BY <1>1, <1>2, <1>4
  <2> QED
    BY <2>1, <2>2, ConcatFacts
<1>6. DOMAIN D = 1 .. Len(D) /\ Range(D) = {D[i] : i \in 1 .. Len(D)}
  BY <1>5, RangeEquality, LenProperties
<1> HIDE DEF D
<1>7. Len(D) = Len(P) + Len(I) + Len(O) + Len(C)
  BY <1>3, <1>4, <1>5, Zenon
<1>8. Queued(w) = D
  BY DEF Queued, A, B, D, P, I, O, C
<1>9. Held(w) = Range(D) /\ Load(w) = Len(D)
  <2>1. Held(w) = Range(P) \cup Range(I) \cup Range(O) \cup Range(C)
    BY DEF Held, P, I, O, C
  <2>2. Load(w) = Len(P) + Len(I) + Len(O) + Len(C)
    BY Zenon DEF Load, Total, P, I, O, C
  <2> QED
    BY <1>3, <1>4, <1>5, <1>7, <2>1, <2>2
<1> QED
  BY <1>5, <1>6, <1>8, <1>9

(* A connection is in at most one place of one worker's queues, whatever
   the number of workers, and a round never outgrows the arrays of
   opt->queuesize entries that ts_worker_loop fills without a bound check. *)
THEOREM ConnectionsHandledOnce == Spec => []HandledOnce
<1>1. NetInv => HandledOnce
  <2> SUFFICES ASSUME NetInv PROVE HandledOnce
    OBVIOUS
  <2>1. TypeOK
    BY DEF NetInv
  <2>2. ASSUME NEW w \in Workers
        PROVE  \A i, j \in DOMAIN Queued(w) : Queued(w)[i] = Queued(w)[j] => i = j
    BY QueuedFacts DEF Once
  <2>3. ASSUME NEW w \in Workers, NEW v \in Workers \ {w},
               NEW i \in DOMAIN Queued(w), NEW j \in DOMAIN Queued(v)
        PROVE  Queued(w)[i] # Queued(v)[j]
    <3>1. Queued(w)[i] \in Held(w) /\ Queued(v)[j] \in Held(v)
      BY QueuedFacts
    <3> QED
      BY <3>1, HeldAtOne
  <2>4. ASSUME NEW w \in Workers
        PROVE  Len(Queued(w)) + Cardinality(events[w]) <= QueueSize
    <3>1. Len(Queued(w)) = Load(w)
      BY QueuedFacts
    <3>2. Load(w) + Cardinality(events[w]) <= QueueSize
      BY DEF NetInv, Rounds
    <3> QED
      BY <3>1, <3>2
  <2> QED
    BY <2>1, <2>2, <2>3, <2>4 DEF HandledOnce
<1> QED
  BY <1>1, NetAlways, PTL

(* A queued or mapped connection is not freed and its descriptor is its
   own, although a descriptor may be reused between close() in ts_close and
   hmap_delete, and by a client that another worker accepts.               *)
THEOREM ConnectionsNeverStale == Spec => []NoStaleConnection
<1>1. NetInv => NoStaleConnection
  <2> SUFFICES ASSUME NetInv, NEW w \in Workers
               PROVE  /\ \A fd \in Fds :
                           hmap[w][fd] # None /\ wpc[w] # "unmap" =>
                             /\ owner[fd] = hmap[w][fd] /\ fd \in reg[w]
                             /\ conn[hmap[w][fd]].state = "open"
                      /\ \A i \in DOMAIN Queued(w) :
                           /\ conn[Queued(w)[i]].state = "open"
                           /\ hmap[w][conn[Queued(w)[i]].fd] = Queued(w)[i]
    BY DEF NoStaleConnection
  <2>1. ASSUME NEW fd \in Fds, hmap[w][fd] # None, wpc[w] # "unmap"
        PROVE  owner[fd] = hmap[w][fd] /\ fd \in reg[w] /\ conn[hmap[w][fd]].state = "open"
    BY <2>1 DEF NetInv, Maps, Unmapping
  <2>2. ASSUME NEW i \in DOMAIN Queued(w)
        PROVE  /\ conn[Queued(w)[i]].state = "open"
               /\ hmap[w][conn[Queued(w)[i]].fd] = Queued(w)[i]
    <3>1. Queued(w)[i] \in Held(w)
      BY QueuedFacts
    <3> QED
      BY <3>1 DEF NetInv, Queues
  <2> QED
    BY <2>1, <2>2
<1> QED
  BY <1>1, NetAlways, PTL

(* The process callback never replaces a response that is not out yet.     *)
THEOREM ResponsesNotOverwritten == Spec => []NoResponseOverwritten
<1>1. NetInv => NoResponseOverwritten
  <2> SUFFICES ASSUME NetInv, NEW w \in Workers, NEW i \in DOMAIN ins_que[w]
               PROVE  conn[ins_que[w][i]].left = 0
    BY DEF NoResponseOverwritten
  <2>1. ins_que[w][i] \in Range(ins_que[w])
    BY DEF Range
  <2> QED
    BY <2>1 DEF NetInv, Unanswered
<1> QED
  BY <1>1, NetAlways, PTL

(* A client that connects after net_server_start has returned is never
   dropped: every worker it could be dealt to has its epoll instance.      *)
THEOREM LateClientsServed == Spec => []LateClientsKept
<1>1. NetInv => LateClientsKept
  BY DEF NetInv
<1> QED
  BY <1>1, NetAlways, PTL
=============================================================================
