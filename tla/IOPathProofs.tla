---------------------------- MODULE IOPathProofs ----------------------------
(***************************************************************************)
(* Proofs about IOPath, for any number of slots, I/O threads and places in *)
(* the job queues.                                                         *)
(***************************************************************************)
EXTENDS IOPath, Integers, FiniteSetsExt, FiniteSetTheorems, WellFoundedInduction, TLAPS

-----------------------------------------------------------------------------
(***************************************************************************)
(* Facts about remainders and least elements.                              *)
(***************************************************************************)

\* Division leaves one quotient and one remainder.
LEMMA RemainderUnique ==
    ASSUME NEW n \in Nat \ {0}, NEW p \in Int, NEW q \in Int,
           NEW r \in 0..(n - 1), NEW s \in 0..(n - 1), n * p + r = n * q + s
    PROVE  p = q /\ r = s
<1>1. ASSUME p < q PROVE FALSE
  <2>1. q - p >= 1
    BY <1>1
  <2>2. n * (q - p) >= n
    BY <2>1
  <2>3. n * q = n * p + n * (q - p)
    OBVIOUS
  <2> QED
    BY <2>2, <2>3
<1>2. ASSUME q < p PROVE FALSE
  <2>1. p - q >= 1
    BY <1>2
  <2>2. n * (p - q) >= n
    BY <2>1
  <2>3. n * p = n * q + n * (p - q)
    OBVIOUS
  <2> QED
    BY <2>2, <2>3
<1> QED
  BY <1>1, <1>2

\* What \div and % compute.
LEMMA RemainderOf ==
    ASSUME NEW a \in Nat, NEW n \in Nat \ {0}
    PROVE  a = n * (a \div n) + (a % n) /\ a \div n \in Int /\ a % n \in 0..(n - 1)
  OBVIOUS

\* Counting on from a number, wrapping at most once.
LEMMA Wrap ==
    ASSUME NEW a \in Nat, NEW n \in Nat \ {0}, NEW d \in 0..(n - 1)
    PROVE  (a + d) % n = IF (a % n) + d < n THEN (a % n) + d ELSE (a % n) + d - n
<1>0. a + d \in Nat
  OBVIOUS
<1>1. PICK p, r : p = a \div n /\ r = a % n
  OBVIOUS
<1>2. PICK q, s : q = (a + d) \div n /\ s = (a + d) % n
  OBVIOUS
<1>3. p \in Int /\ r \in 0..(n - 1) /\ a = n * p + r
  BY <1>1, RemainderOf
<1>4. q \in Int /\ s \in 0..(n - 1) /\ a + d = n * q + s
  BY <1>0, <1>2, RemainderOf
<1>5. r \in Int /\ s \in Int /\ n * p \in Int /\ n * q \in Int
  BY <1>3, <1>4
<1>6. CASE r + d < n
  <2>1. r + d \in 0..(n - 1) /\ n * p + (r + d) = n * q + s
    BY <1>3, <1>4, <1>5, <1>6
  <2>2. r + d = s
    BY <1>3, <1>4, <2>1, RemainderUnique
  <2> QED
    BY <1>1, <1>2, <1>6, <2>2
<1>7. CASE r + d >= n
  <2>1. n * (p + 1) = n * p + n
    BY <1>3
  <2>2. r + d - n \in 0..(n - 1) /\ p + 1 \in Int
    BY <1>3, <1>7
  <2>3. n * (p + 1) + (r + d - n) = n * q + s
    BY <1>3, <1>4, <1>5, <2>1
  <2>4. r + d - n = s
    <3>1. PICK t, u : t = r + d - n /\ u = p + 1
      OBVIOUS
    <3>2. t \in 0..(n - 1) /\ u \in Int /\ n * u + t = n * q + s
      BY <2>2, <2>3, <3>1
    <3>3. t = s
      BY ONLY n \in Nat \ {0}, <1>4, <3>2, RemainderUnique
    <3> QED
      BY <3>1, <3>3
  <2> QED
    BY <1>1, <1>2, <1>3, <1>7, <2>4
<1> QED
  BY <1>3, <1>6, <1>7

\* A number below the divisor is its own remainder.
LEMMA SmallRemainder ==
    ASSUME NEW n \in Nat \ {0}, NEW a \in 0..(n - 1)
    PROVE  a % n = a
<1>1. a = n * (a \div n) + (a % n) /\ a \div n \in Int /\ a % n \in 0..(n - 1)
  BY RemainderOf
<1>2. n * 0 + a = a
  OBVIOUS
<1> QED
  BY <1>1, <1>2, RemainderUnique

\* A set of naturals that is not empty has a least element.
LEMMA HasMin ==
    ASSUME NEW S \in SUBSET Nat, S # {}
    PROVE  Min(S) \in S /\ \A y \in S : Min(S) <= y
<1> DEFINE R == OpToRel(<, Nat)
<1> HIDE DEF R
<1>1. IsWellFoundedOn(R, Nat)
  BY NatLessThanWellFounded DEF R
<1>2. PICK x \in S : \A y \in S : ~(<<y, x>> \in R)
  BY <1>1, WFMin
<1>3. \A y \in S : ~(y < x)
  BY <1>2 DEF R, OpToRel
<1>4. \A y \in S : x <= y
  BY <1>3
<1> QED
  BY <1>4 DEF Min

-----------------------------------------------------------------------------
(***************************************************************************)
(* The inductive invariant.                                                *)
(***************************************************************************)

\* The table: a used slot belongs to the connection whose id it carries, a slot
\* that was freed to one that is closed, and the first MaxClients connections
\* are each in the slot their id hashes to.
Tenants ==
    /\ \A s \in Slots : id[s] # 0 => conn[s] = id[s]
    /\ \A s \in Slots : conn[s] <= accepted
    /\ \A k \in Conns : k > accepted => sock[k] = "none"
    /\ \A s \in Slots : conn[s] # 0 => sock[conn[s]] # "none"
    /\ \A s \in Slots : (id[s] = 0 /\ conn[s] # 0) => sock[conn[s]] = "closed"
    /\ \A s \in Slots : (conn[s] # 0 /\ conn[s] <= MaxClients) => s = conn[s] % MaxClients

\* client_count counts the used slots and those whose decrement is still to come.
Used       == {s \in Slots : id[s] # 0}
Uncounting == {a \in Workers : pc[a] = "uncount"}
Counted    == count = Cardinality(Used) + Cardinality(Uncounting)

\* Jobs name slots that have had a tenant.  One that names the slot of a first
\* tenant was made for it, and if it terminates it, its peer has hung up, unless
\* peers send without waiting.
Made(j) ==
    /\ conn[j.slot] # 0 /\ j.of # 0
    /\ conn[j.slot] <= MaxClients => j.of = conn[j.slot]
    /\ j.type = "WRITE" => buf[j.of] # NoCmd
Over(k) == sock[k] \in {"hung", "closed"}
Due(j)  == (~Pipelined /\ j.type = "TERMINATE" /\ conn[j.slot] <= MaxClients) => Over(conn[j.slot])

Queued == \A t \in Threads : \A i \in DOMAIN queue[t] : Made(queue[t][i].job) /\ Due(queue[t][i].job)
Held   == \A a \in Actors : pc[a] \notin {"idle", "loop"} =>
             Made(job[a]) /\ (a # Tx => Due(job[a]))

\* What each kind of thread may be doing, and what the main thread has left to do.
Roles ==
    /\ pc[Main] \in {"idle", "request", "publish", "signal"}
    /\ pc[Tx] \in {"idle", "request", "publish", "signal", "terminate", "remove", "uncount"}
    /\ pc[Tx] \in {"request", "publish", "signal"} => job[Tx].type = "WRITE"
    /\ \A a \in Actors : pc[a] = "write" => job[a].type = "WRITE"
    /\ \A a \in Actors : pc[a] = "terminate" => job[a].type = "TERMINATE"
    /\ todo \in {<<>>, <<"TERMINATE">>}
    /\ todo # <<>> => /\ pc[Main] # "idle"
                      /\ conn[job[Main].slot] <= MaxClients => Over(conn[job[Main].slot])
    /\ \A k \in Conns : unread[k] <= sent[k]

\* A thread that is about to free a slot is the only one, and has closed its socket.
Removing ==
    /\ \A a \in Workers : pc[a] = "remove" =>
          id[job[a].slot] # 0 /\ sock[conn[job[a].slot]] = "closed"
    /\ \A a, b \in Workers : (pc[a] = "remove" /\ pc[b] = "remove" /\ job[a].slot = job[b].slot) => a = b

Inv == TypeOK /\ Tenants /\ Counted /\ Queued /\ Held /\ Roles /\ Removing

\* A thread that is about to read from a first tenant whose peer waits for its
\* answers finds something to read.  That this is so is shown last (Reading).
Fed ==
    \A t \in Threads :
        (~Pipelined /\ pc[t] = "read" /\ conn[job[t].slot] <= MaxClients
            /\ sock[conn[job[t].slot]] = "open") => unread[conn[job[t].slot]] # 0

-----------------------------------------------------------------------------
LEMMA ActorFacts ==
    /\ Threads \subseteq Workers /\ Workers \subseteq Actors /\ Threads \subseteq Actors
    /\ Tx \in Workers /\ Tx \in Actors /\ Main \in Actors /\ Main \notin Workers
    /\ Tx # Main /\ Tx \notin Threads /\ Main \notin Threads
    /\ Actors = Threads \cup {Tx, Main} /\ Workers = Threads \cup {Tx}
    /\ Published \notin Actors
    /\ 0 \in Threads /\ 0 \in Slots
    /\ NoJob \in Job
<1>1. NThreads \in Nat \ {0} /\ MaxClients \in Nat \ {0} /\ MaxConns \in Nat
  BY SizesAssumption, BoundsAssumption
<1> QED
  BY <1>1 DEF Threads, Workers, Actors, Tx, Main, Published, Slots, NoJob, Job, Types

LEMMA WorkersFinite == IsFiniteSet(Workers) /\ IsFiniteSet(Slots) /\ Cardinality(Slots) = MaxClients
<1>1. NThreads \in Nat \ {0} /\ MaxClients \in Nat \ {0}
  BY SizesAssumption
<1>2. PICK n, m : n = NThreads - 1 /\ m = MaxClients - 1
  OBVIOUS
<1>3. n \in Int /\ m \in Int /\ 0 \in Int
  BY <1>1, <1>2
<1>4. IsFiniteSet(0..n) /\ IsFiniteSet(0..m) /\ Cardinality(0..m) = IF 0 > m THEN 0 ELSE m - 0 + 1
  BY ONLY <1>3, FS_Interval
<1>5. IsFiniteSet(Threads) /\ IsFiniteSet(Slots) /\ Cardinality(Slots) = MaxClients
  BY <1>1, <1>2, <1>3, <1>4 DEF Threads, Slots
<1>6. IsFiniteSet(Threads \cup {Tx})
  BY <1>5, FS_AddElement
<1> QED
  BY <1>5, <1>6 DEF Workers

-----------------------------------------------------------------------------
(***************************************************************************)
(* Steps in which one actor moves on and the table and the sockets stay.   *)
(***************************************************************************)
Labels == {"idle", "loop", "read", "write", "request", "publish",
           "signal", "terminate", "remove", "uncount"}

\* Actor a goes to l with job j.
Moves(a, l, j) == pc' = [pc EXCEPT ![a] = l] /\ job' = [job EXCEPT ![a] = j]

\* A job that an actor other than the transaction thread may have at l.
Fit(a, l, j) == l \in {"idle", "loop"} \/ (Made(j) /\ (a # Tx => Due(j)))

LEMMA MovesAre ==
    ASSUME TypeOK, NEW a \in Actors, NEW l, NEW j, Moves(a, l, j)
    PROVE  /\ pc'[a] = l /\ job'[a] = j
           /\ \A b \in Actors : b # a => pc'[b] = pc[b] /\ job'[b] = job[b]
           /\ (l \in Labels /\ j \in Job) =>
                 pc' \in [Actors -> Labels] /\ job' \in [Actors -> Job]
  BY DEF TypeOK, Moves, Labels

LEMMA SameTenants ==
    ASSUME Tenants, UNCHANGED <<id, conn, accepted, sock>>
    PROVE  Tenants'
  BY DEF Tenants

LEMMA MovesKeep ==
    ASSUME TypeOK, Tenants, Counted, Held, Removing, NEW a \in Actors, NEW l, NEW j,
           Moves(a, l, j), pc[a] # "uncount", l \notin {"remove", "uncount"},
           Fit(a, l, j), UNCHANGED <<id, conn, count, accepted, sock, buf>>
    PROVE  Tenants' /\ Counted' /\ Held' /\ Removing'
<1>1. /\ pc'[a] = l /\ job'[a] = j
      /\ \A b \in Actors : b # a => pc'[b] = pc[b] /\ job'[b] = job[b]
  BY MovesAre
<1>2. Tenants'
  BY SameTenants
<1>3. Counted'
  <2>1. \A b \in Workers : pc'[b] = "uncount" <=> pc[b] = "uncount"
    BY <1>1, ActorFacts
  <2>2. Uncounting' = Uncounting
    BY <2>1 DEF Uncounting
  <2>3. Used' = Used
    BY DEF Used
  <2> QED
    BY <2>2, <2>3 DEF Counted
<1>4. Held'
  <2> SUFFICES ASSUME NEW b \in Actors, pc'[b] \notin {"idle", "loop"}
               PROVE  Made(job[b])' /\ (b # Tx => Due(job[b])')
    BY DEF Held
  <2>1. CASE b = a
    <3>1. Made(j) /\ (a # Tx => Due(j))
      BY <1>1, <2>1 DEF Fit
    <3> QED
      BY <1>1, <2>1, <3>1 DEF Made, Due, Over
  <2>2. CASE b # a
    <3>1. Made(job[b]) /\ (b # Tx => Due(job[b])) /\ job'[b] = job[b]
      BY <1>1, <2>2 DEF Held
    <3> QED
      BY <3>1 DEF Made, Due, Over
  <2> QED
    BY <2>1, <2>2
<1>5. Removing'
  <2>1. \A b \in Workers : pc'[b] = "remove" => (pc[b] = "remove" /\ job'[b] = job[b])
    BY <1>1, ActorFacts
  <2> QED
    BY <2>1 DEF Removing
<1> QED
  BY <1>2, <1>3, <1>4, <1>5

LEMMA SameQueued ==
    ASSUME Queued, UNCHANGED <<conn, sock, buf, queue>>
    PROVE  Queued'
  BY DEF Queued, Made, Due, Over

\* TypeOK without the two variables that move.
RestOK ==
    /\ id \in [Slots -> 0..MaxConns]
    /\ conn \in [Slots -> 0..MaxConns]
    /\ count \in 0..MaxClients
    /\ accepted \in 0..MaxConns
    /\ sock \in [Conns -> {"none", "open", "hung", "closed"}]
    /\ event \subseteq Conns
    /\ sent \in [Conns -> Nat]
    /\ unread \in [Conns -> Nat]
    /\ buf \in [Conns -> Cmd \cup {NoCmd}]
    /\ rcvd \in [Conns -> Seq(Cmd)]
    /\ queue \in [Threads -> Seq([job : Job, by : Actors \cup {Published}])]
    /\ \A t \in Threads : Len(queue[t]) <= QueueSize
    /\ notifier \in [Threads -> Nat]
    /\ left \in [Threads -> Nat]
    /\ sel \in [Actors -> Threads]
    /\ todo \in Seq(Types)
    /\ txq \in Seq([slot : Slots, cmd : Cmd])
    /\ kills \in 0..MaxKills

LEMMA TypeSplit ==
    TypeOK <=> RestOK /\ pc \in [Actors -> Labels] /\ job \in [Actors -> Job]
  BY DEF TypeOK, RestOK, Labels

LEMMA MovesTyped ==
    ASSUME TypeOK, NEW a \in Actors, NEW l \in Labels, NEW j \in Job, Moves(a, l, j), RestOK'
    PROVE  TypeOK'
<1>1. pc' \in [Actors -> Labels] /\ job' \in [Actors -> Job]
  BY MovesAre
<1> QED
  BY <1>1 DEF TypeOK, RestOK, Labels

LEMMA WorkerRoles ==
    ASSUME TypeOK, Roles, NEW a \in Workers, NEW l, NEW j, Moves(a, l, j),
           UNCHANGED <<conn, sock, todo>>,
           a = Tx => l \in {"idle", "request", "publish", "signal", "terminate", "remove", "uncount"},
           (a = Tx /\ l \in {"request", "publish", "signal"}) => j.type = "WRITE",
           l = "write" => j.type = "WRITE",
           l = "terminate" => j.type = "TERMINATE",
           \A k \in Conns : unread'[k] <= sent'[k]
    PROVE  Roles'
<1>1. a \in Actors /\ a # Main
  BY ActorFacts
<1>2. /\ pc'[a] = l /\ job'[a] = j
      /\ \A b \in Actors : b # a => pc'[b] = pc[b] /\ job'[b] = job[b]
  BY <1>1, MovesAre
<1>3. pc'[Main] = pc[Main] /\ job'[Main] = job[Main]
  BY <1>1, <1>2, ActorFacts
<1>4. /\ pc'[Tx] \in {"idle", "request", "publish", "signal", "terminate", "remove", "uncount"}
      /\ pc'[Tx] \in {"request", "publish", "signal"} => job'[Tx].type = "WRITE"
  <2>1. CASE a = Tx
    BY <1>2, <2>1
  <2>2. CASE a # Tx
    BY <1>2, <2>2, ActorFacts DEF Roles
  <2> QED
    BY <2>1, <2>2
<1>5. \A b \in Actors : /\ pc'[b] = "write" => job'[b].type = "WRITE"
                        /\ pc'[b] = "terminate" => job'[b].type = "TERMINATE"
  BY <1>2 DEF Roles
<1>6. todo' # <<>> => /\ pc'[Main] # "idle"
                      /\ conn'[job'[Main].slot] <= MaxClients => sock'[conn'[job'[Main].slot]] \in {"hung", "closed"}
  BY <1>3 DEF Roles, Over
<1> QED
  BY <1>3, <1>4, <1>5, <1>6 DEF Roles, Over

LEMMA MainRoles ==
    ASSUME TypeOK, Roles, NEW l, NEW j, Moves(Main, l, j),
           UNCHANGED <<unread, sent>>, l \in {"idle", "request", "publish", "signal"},
           todo' \in {<<>>, <<"TERMINATE">>},
           todo' # <<>> => (l # "idle" /\ (conn'[j.slot] <= MaxClients => sock'[conn'[j.slot]] \in {"hung", "closed"}))
    PROVE  Roles'
<1>1. /\ pc'[Main] = l /\ job'[Main] = j
      /\ \A b \in Actors : b # Main => pc'[b] = pc[b] /\ job'[b] = job[b]
  BY ActorFacts, MovesAre
<1>2. pc'[Tx] = pc[Tx] /\ job'[Tx] = job[Tx]
  BY <1>1, ActorFacts
<1>3. \A b \in Actors : /\ pc'[b] = "write" => job'[b].type = "WRITE"
                        /\ pc'[b] = "terminate" => job'[b].type = "TERMINATE"
  BY <1>1 DEF Roles
<1> QED
  BY <1>1, <1>2, <1>3 DEF Roles, Over

-----------------------------------------------------------------------------
(***************************************************************************)
(* add_io_request.                                                         *)
(***************************************************************************)
LEMMA JobFacts ==
    ASSUME TypeOK, NEW a \in Actors
    PROVE  /\ job[a] \in Job /\ job[a].slot \in Slots /\ job[a].of \in 0..MaxConns /\ job[a].type \in Types
           /\ pc[a] \in Labels
           /\ [job[a] EXCEPT !.type = "TERMINATE"] \in Job
  BY DEF TypeOK, Labels, Job, Types

LEMMA BackMoves ==
    ASSUME TypeOK, NEW a \in Actors, Back(a)
    PROVE  \E l \in {"idle", "loop"} : Moves(a, l, NoJob) /\ (a \notin Threads => l = "idle")
<1>1. CASE a \in Threads
  BY <1>1 DEF Back, Moves, Goto
<1>2. CASE a \notin Threads
  BY <1>2 DEF Back, Moves, Goto
<1> QED
  BY <1>1, <1>2

\* The caller goes on, or back, after its call.
LEMMA DoneKeeps ==
    ASSUME Inv, NEW a \in Actors, Done(a), pc[a] \in {"request", "signal"},
           UNCHANGED <<table, peers, buf, rcvd, queue, left, txq, kills>>,
           notifier' \in [Threads -> Nat], sel' \in [Actors -> Threads]
    PROVE  Inv'
<1>0. TypeOK /\ Tenants /\ Counted /\ Queued /\ Held /\ Roles /\ Removing
  BY DEF Inv
<1>1. UNCHANGED <<id, conn, count, accepted, sock, event, sent, unread, buf, rcvd, queue, left, txq, kills>>
  BY DEF table, peers
<1>2. Queued'
  BY <1>0, <1>1, SameQueued
<1>3. CASE a = Main /\ todo # <<>>
  <2>1. todo = <<"TERMINATE">> /\ (conn[job[a].slot] <= MaxClients => Over(conn[job[a].slot]))
    BY <1>0, <1>3 DEF Roles
  <2>2. PICK j : j = [job[a] EXCEPT !.type = "TERMINATE"]
    OBVIOUS
  <2>3. Moves(a, "request", j) /\ todo' = <<>>
    BY <1>3, <2>1, <2>2 DEF Done, Ask, Goto, Moves
  <2>4. j \in Job /\ j.slot = job[a].slot /\ j.of = job[a].of /\ j.type = "TERMINATE"
    BY <1>0, <2>2, JobFacts DEF Job
  <2>5. Made(j) /\ Due(j)
    <3>1. Made(job[a])
      BY <1>0 DEF Held
    <3> QED
      BY <2>1, <2>4, <3>1 DEF Made, Due
  <2>6. RestOK'
    <3>1. todo' \in Seq(Types)
      BY <2>3
    <3>2. RestOK
      BY <1>0, TypeSplit
    <3> QED
      BY <1>1, <3>1, <3>2 DEF RestOK
  <2>7. TypeOK'
    BY <1>0, <2>3, <2>4, <2>6, MovesTyped DEF Labels
  <2>8. Tenants' /\ Counted' /\ Held' /\ Removing'
    BY <1>0, <1>1, <2>3, <2>5, MovesKeep DEF Fit
  <2>9. Roles'
    BY <1>0, <1>1, <1>3, <2>3, MainRoles
  <2> QED
    BY <1>2, <2>7, <2>8, <2>9 DEF Inv
<1>4. CASE ~(a = Main /\ todo # <<>>)
  <2>1. Back(a) /\ todo' = todo
    BY <1>4 DEF Done
  <2>2. PICK l \in {"idle", "loop"} : Moves(a, l, NoJob) /\ (a \notin Threads => l = "idle")
    BY <1>0, <2>1, BackMoves
  <2>3. RestOK'
    BY <1>0, <1>1, <2>1, TypeSplit DEF RestOK
  <2>4. TypeOK'
    BY <1>0, <2>2, <2>3, MovesTyped, ActorFacts DEF Labels
  <2>5. Tenants' /\ Counted' /\ Held' /\ Removing'
    BY <1>0, <1>1, <2>2, MovesKeep DEF Fit
  <2>6. Roles'
    <3>1. CASE a = Main
      BY <1>0, <1>1, <1>4, <2>1, <2>2, <3>1, MainRoles, ActorFacts
    <3>2. CASE a # Main
      <4>1. a \in Workers /\ (a = Tx => l = "idle")
        BY <2>2, <3>2, ActorFacts
      <4>2. \A k \in Conns : unread'[k] <= sent'[k]
        BY <1>0, <1>1 DEF Roles
      <4> QED
        BY <1>0, <1>1, <2>1, <2>2, <4>1, <4>2, WorkerRoles
    <3> QED
      BY <3>1, <3>2
  <2> QED
    BY <1>2, <2>4, <2>5, <2>6 DEF Inv
<1> QED
  BY <1>3, <1>4

LEMMA RequestGoneKeeps ==
    ASSUME Inv, NEW a \in Actors, RequestGone(a)
    PROVE  Inv'
<1>1. /\ pc[a] \in {"request", "signal"} /\ Done(a)
      /\ UNCHANGED <<table, peers, buf, rcvd, queue, left, txq, kills>>
      /\ UNCHANGED <<notifier, sel>>
  BY DEF RequestGone, io
<1>2. notifier' \in [Threads -> Nat] /\ sel' \in [Actors -> Threads]
  BY <1>1 DEF Inv, TypeOK
<1> QED
  BY <1>1, <1>2, DoneKeeps

LEMMA SignalKeeps ==
    ASSUME Inv, NEW a \in Actors, Signal(a)
    PROVE  Inv'
<1>1. /\ pc[a] \in {"request", "signal"} /\ Done(a)
      /\ UNCHANGED <<table, peers, buf, rcvd, queue, left, txq, kills>>
  BY DEF Signal
<1>2. notifier' \in [Threads -> Nat]
  BY DEF Signal, Inv, TypeOK
<1>3. sel' \in [Actors -> Threads]
  BY ActorFacts DEF Signal, Inv, TypeOK
<1> QED
  BY <1>1, <1>2, <1>3, DoneKeeps

\* Roles when a caller goes on in add_io_request.
LEMMA CallRoles ==
    ASSUME TypeOK, Roles, NEW a \in Actors, pc[a] \in {"request", "publish"},
           NEW l \in {"publish", "signal"}, Moves(a, l, job[a]),
           UNCHANGED <<conn, sock, todo, unread, sent>>
    PROVE  Roles'
<1>1. CASE a = Main
  <2>1. todo \in {<<>>, <<"TERMINATE">>}
    BY DEF Roles
  <2>2. todo # <<>> => (l # "idle" /\ (conn[job[a].slot] <= MaxClients => sock[conn[job[a].slot]] \in {"hung", "closed"}))
    BY <1>1 DEF Roles, Over
  <2> QED
    BY <1>1, <2>1, <2>2, MainRoles
<1>2. CASE a # Main
  <2>1. a \in Workers
    BY <1>2, ActorFacts
  <2>2. a = Tx => job[a].type = "WRITE"
    BY DEF Roles
  <2>3. \A k \in Conns : unread'[k] <= sent'[k]
    BY DEF Roles
  <2> QED
    BY <2>1, <2>2, <2>3, WorkerRoles
<1> QED
  BY <1>1, <1>2

LEMMA SelectedThread ==
    ASSUME NEW i \in Nat
    PROVE  i % NThreads \in Threads
  BY SizesAssumption DEF Threads

LEMMA RequestKeeps ==
    ASSUME Inv, NEW a \in Actors, Request(a)
    PROVE  Inv'
<1>0. TypeOK /\ Tenants /\ Counted /\ Queued /\ Held /\ Roles /\ Removing
  BY DEF Inv
<1>1. /\ pc[a] = "request"
      /\ UNCHANGED <<id, conn, count, accepted, sock, event, sent, unread, buf, rcvd,
                     notifier, left, job, todo, txq, kills>>
  BY DEF Request, table, peers
<1>2. job[a] \in Job /\ job[a].slot \in Slots
  BY <1>0, JobFacts
<1>3. PICK t : t = id[job[a].slot] % NThreads
  OBVIOUS
<1>4. t \in Threads
  <2>1. id[job[a].slot] \in Nat
    BY <1>0, <1>2, BoundsAssumption DEF TypeOK
  <2> QED
    BY <1>3, <2>1, SelectedThread
<1>5. sel' = [sel EXCEPT ![a] = t]
  BY <1>3 DEF Request
<1>6. sel' \in [Actors -> Threads]
  BY <1>0, <1>4, <1>5 DEF TypeOK
<1>7. Made(job[a]) /\ (a # Tx => Due(job[a]))
  BY <1>0, <1>1 DEF Held
<1>8. Due(job[a])
  <2>1. a = Tx => job[a].type = "WRITE"
    BY <1>0, <1>1 DEF Roles
  <2> QED
    BY <1>7, <2>1 DEF Due
<1>9. PICK l \in {"publish", "signal"} :
         /\ pc' = [pc EXCEPT ![a] = l]
         /\ \/ UNCHANGED queue
            \/ /\ Len(queue[t]) < QueueSize
               /\ queue' = [queue EXCEPT ![t] = Append(@, [job |-> job[a], by |-> a])]
  <2>1. CASE Len(queue[t]) < QueueSize
    BY <1>3, <2>1 DEF Request, Goto
  <2>2. CASE ~(Len(queue[t]) < QueueSize)
    BY <1>3, <2>2 DEF Request, Goto
  <2> QED
    BY <2>1, <2>2
<1>10. Moves(a, l, job[a])
  BY <1>0, <1>1, <1>9 DEF Moves, TypeOK
<1>11. CASE UNCHANGED queue
  <2>1. Queued'
    BY <1>0, <1>1, <1>11, SameQueued
  <2>2. RestOK'
    BY <1>0, <1>1, <1>6, <1>11, TypeSplit DEF RestOK
  <2>3. TypeOK'
    BY <1>0, <1>2, <1>10, <2>2, MovesTyped DEF Labels
  <2>4. Tenants' /\ Counted' /\ Held' /\ Removing'
    BY <1>0, <1>1, <1>7, <1>10, MovesKeep DEF Fit
  <2>5. Roles'
    BY <1>0, <1>1, <1>10, CallRoles
  <2> QED
    BY <2>1, <2>3, <2>4, <2>5 DEF Inv
<1>12. CASE /\ Len(queue[t]) < QueueSize
            /\ queue' = [queue EXCEPT ![t] = Append(@, [job |-> job[a], by |-> a])]
  <2> DEFINE e == [job |-> job[a], by |-> a]
  <2>1. e \in [job : Job, by : Actors \cup {Published}]
    BY <1>2
  <2>2. queue[t] \in Seq([job : Job, by : Actors \cup {Published}])
    BY <1>0, <1>4 DEF TypeOK
  <2>3. PICK q : q = Append(queue[t], e)
    OBVIOUS
  <2>4. /\ q \in Seq([job : Job, by : Actors \cup {Published}]) /\ Len(q) = Len(queue[t]) + 1
        /\ \A i \in 1..Len(queue[t]) : q[i] = queue[t][i]
        /\ q[Len(queue[t]) + 1] = e
    BY <2>1, <2>2, <2>3
  <2>5. queue' = [queue EXCEPT ![t] = q]
    BY <1>12, <2>3
  <2>6. queue' \in [Threads -> Seq([job : Job, by : Actors \cup {Published}])]
    BY <1>0, <1>4, <2>4, <2>5 DEF TypeOK
  <2>7. \A u \in Threads : Len(queue'[u]) <= QueueSize
    <3>1. Len(queue[t]) \in Nat /\ QueueSize \in Nat
      BY <2>2, SizesAssumption
    <3>2. Len(q) <= QueueSize
      BY <1>12, <2>4, <3>1
    <3> QED
      BY <1>0, <1>4, <2>5, <3>2 DEF TypeOK
  <2>8. e.job = job[a]
    OBVIOUS
  <2>9. Queued'
    <3> SUFFICES ASSUME NEW u \in Threads, NEW i \in DOMAIN queue'[u]
                 PROVE  Made(queue[u][i].job)' /\ Due(queue[u][i].job)'
      BY DEF Queued
    <3>1. Made(queue'[u][i].job) /\ Due(queue'[u][i].job)
      <4>1. CASE u # t
        <5>1. queue'[u] = queue[u]
          BY <1>0, <2>5, <4>1 DEF TypeOK
        <5> QED
          BY <1>0, <5>1 DEF Queued
      <4>2. CASE u = t
        <5>1. queue'[u] = q
          BY <1>0, <2>5, <4>2 DEF TypeOK
        <5>2. i \in 1..(Len(queue[t]) + 1)
          BY <2>4, <5>1
        <5>3. CASE i = Len(queue[t]) + 1
          BY <1>7, <1>8, <2>4, <2>8, <5>1, <5>3
        <5>4. CASE i # Len(queue[t]) + 1
          <6>1. i \in 1..Len(queue[t]) /\ i \in DOMAIN queue[t]
            BY <2>2, <5>2, <5>4
          <6> QED
            BY <1>0, <1>4, <2>4, <5>1, <6>1 DEF Queued
        <5> QED
          BY <5>3, <5>4
      <4> QED
        BY <4>1, <4>2
    <3> QED
      BY <1>1, <3>1 DEF Made, Due, Over
  <2>10. RestOK'
    BY <1>0, <1>1, <1>6, <2>6, <2>7, TypeSplit DEF RestOK
  <2>11. TypeOK'
    BY <1>0, <1>2, <1>10, <2>10, MovesTyped DEF Labels
  <2>12. Tenants' /\ Counted' /\ Held' /\ Removing'
    BY <1>0, <1>1, <1>7, <1>10, MovesKeep DEF Fit
  <2>13. Roles'
    BY <1>0, <1>1, <1>10, CallRoles
  <2> QED
    BY <2>9, <2>11, <2>12, <2>13 DEF Inv
<1> QED
  BY <1>9, <1>11, <1>12

LEMMA PublishKeeps ==
    ASSUME Inv, NEW a \in Actors, Publish(a)
    PROVE  Inv'
<1>0. TypeOK /\ Tenants /\ Counted /\ Queued /\ Held /\ Roles /\ Removing
  BY DEF Inv
<1>1. /\ pc[a] = "publish" /\ pc' = [pc EXCEPT ![a] = "signal"]
      /\ UNCHANGED <<id, conn, count, accepted, sock, event, sent, unread, buf, rcvd,
                     notifier, left, job, sel, todo, txq, kills>>
  BY DEF Publish, table, peers, Goto
<1>2. PICK t, q : /\ t = sel[a]
                  /\ q = [i \in DOMAIN queue[t] |-> IF queue[t][i].by = a
                            THEN [queue[t][i] EXCEPT !.by = Published] ELSE queue[t][i]]
  OBVIOUS
<1>3. t \in Threads /\ queue' = [queue EXCEPT ![t] = q]
  BY <1>0, <1>2 DEF Publish, TypeOK
<1>4. queue[t] \in Seq([job : Job, by : Actors \cup {Published}])
  BY <1>0, <1>3 DEF TypeOK
<1>5. /\ q \in Seq([job : Job, by : Actors \cup {Published}]) /\ Len(q) = Len(queue[t])
      /\ DOMAIN q = DOMAIN queue[t] /\ \A i \in DOMAIN q : q[i].job = queue[t][i].job
  <2>0. PICK E, o : E = [job : Job, by : Actors \cup {Published}] /\ o = queue[t]
    OBVIOUS
  <2>1. DOMAIN queue[t] = 1..Len(queue[t]) /\ Len(queue[t]) \in Nat
    BY <1>4
  <2>2. \A i \in DOMAIN queue[t] : queue[t][i] \in [job : Job, by : Actors \cup {Published}]
    <3>1. o \in Seq(E)
      BY <1>4, <2>0
    <3>2. \A i \in DOMAIN o : o[i] \in E
      BY ONLY <3>1
    <3> QED
      BY <2>0, <3>2
  <2>3. DOMAIN q = DOMAIN queue[t]
    BY <1>2
  <2>4. ASSUME NEW i \in DOMAIN queue[t]
        PROVE  q[i] \in [job : Job, by : Actors \cup {Published}] /\ q[i].job = queue[t][i].job
    BY <1>2, <2>2
  <2>5. q \in [1..Len(queue[t]) -> [job : Job, by : Actors \cup {Published}]]
    <3>1. q = [i \in DOMAIN q |-> q[i]]
      BY <1>2
    <3> QED
      BY <2>1, <2>3, <2>4, <3>1
  <2>6. q \in Seq(E) /\ Len(q) = Len(queue[t])
    <3>1. PICK n : n = Len(queue[t])
      OBVIOUS
    <3>2. n \in Nat /\ q \in [1..n -> E]
      BY <2>0, <2>1, <2>5, <3>1
    <3>3. q \in Seq(E) /\ Len(q) = n
      BY ONLY <3>2
    <3> QED
      BY <3>1, <3>3
  <2> QED
    BY <2>0, <2>3, <2>4, <2>6
<1>6. queue' \in [Threads -> Seq([job : Job, by : Actors \cup {Published}])]
  BY <1>0, <1>3, <1>5 DEF TypeOK
<1>7. \A u \in Threads : Len(queue'[u]) <= QueueSize
  BY <1>0, <1>3, <1>5 DEF TypeOK
<1>8. Queued'
  <2>1. ASSUME NEW u \in Threads, NEW i \in DOMAIN queue'[u]
        PROVE  i \in DOMAIN queue[u] /\ queue'[u][i].job = queue[u][i].job
    <3>1. queue'[u] = IF u = t THEN q ELSE queue[u]
      BY <1>0, <1>3 DEF TypeOK
    <3> QED
      BY <1>5, <2>1, <3>1
  <2> QED
    BY <1>0, <1>1, <2>1 DEF Queued, Made, Due, Over
<1>9. Moves(a, "signal", job[a]) /\ job[a] \in Job
  BY <1>0, <1>1 DEF Moves, TypeOK
<1>10. RestOK'
  BY <1>0, <1>1, <1>6, <1>7, TypeSplit DEF RestOK
<1>11. TypeOK'
  BY <1>0, <1>9, <1>10, MovesTyped DEF Labels
<1>12. Tenants' /\ Counted' /\ Held' /\ Removing'
  <2>1. Made(job[a]) /\ (a # Tx => Due(job[a]))
    BY <1>0, <1>1 DEF Held
  <2> QED
    BY <1>0, <1>1, <1>9, <2>1, MovesKeep DEF Fit
<1>13. Roles'
  BY <1>0, <1>1, <1>9, CallRoles
<1> QED
  BY <1>8, <1>11, <1>12, <1>13 DEF Inv

-----------------------------------------------------------------------------
(***************************************************************************)
(* The I/O threads.                                                        *)
(***************************************************************************)

\* An I/O thread moves, and neither the table, the sockets, the buffers nor the
\* main thread's list change.
LEMMA ThreadMoves ==
    ASSUME Inv, NEW t \in Threads, NEW l \in Labels, NEW j \in Job, Moves(t, l, j),
           pc[t] # "uncount", l \notin {"remove", "uncount"}, Fit(t, l, j),
           l = "write" => j.type = "WRITE", l = "terminate" => j.type = "TERMINATE",
           \A k \in Conns : unread'[k] <= sent'[k],
           UNCHANGED <<id, conn, count, accepted, sock, buf, todo>>, RestOK', Queued'
    PROVE  Inv'
<1>0. TypeOK /\ Tenants /\ Counted /\ Queued /\ Held /\ Roles /\ Removing
  BY DEF Inv
<1>1. t \in Actors /\ t \in Workers /\ t # Tx
  BY ActorFacts
<1>2. TypeOK'
  BY <1>0, <1>1, MovesTyped
<1>3. Tenants' /\ Counted' /\ Held' /\ Removing'
  BY <1>0, <1>1, MovesKeep
<1>4. Roles'
  BY <1>0, <1>1, WorkerRoles
<1> QED
  BY <1>2, <1>3, <1>4 DEF Inv

\* The same when the thread goes back to its loop.
LEMMA ThreadBack ==
    ASSUME Inv, NEW t \in Threads, Back(t), pc[t] # "uncount",
           \A k \in Conns : unread'[k] <= sent'[k],
           UNCHANGED <<id, conn, count, accepted, sock, buf, todo>>, RestOK', Queued'
    PROVE  Inv'
<1>1. t \in Actors
  BY ActorFacts
<1>2. PICK l \in {"idle", "loop"} : Moves(t, l, NoJob)
  BY <1>1, BackMoves DEF Inv
<1>3. l \in Labels /\ NoJob \in Job /\ l \notin {"remove", "uncount"} /\ Fit(t, l, NoJob) /\ l # "write"
  BY ActorFacts DEF Labels, Fit
<1> QED
  BY <1>2, <1>3, ThreadMoves

LEMMA ConsumeKeeps ==
    ASSUME Inv, NEW t \in Threads, Consume(t)
    PROVE  Inv'
<1>0. TypeOK /\ Queued /\ Roles /\ t \in Actors
  BY ActorFacts DEF Inv
<1>1. /\ pc[t] = "idle" /\ pc' = [pc EXCEPT ![t] = "loop"]
      /\ UNCHANGED <<id, conn, count, accepted, sock, event, sent, unread, buf, rcvd,
                     queue, job, sel, todo, txq, kills>>
  BY DEF Consume, table, peers, Goto
<1>2. left' \in [Threads -> Nat] /\ notifier' \in [Threads -> Nat]
  BY <1>0 DEF Consume, TypeOK
<1>3. Moves(t, "loop", job[t]) /\ job[t] \in Job
  BY <1>0, <1>1 DEF Moves, TypeOK
<1>4. RestOK'
  BY <1>0, <1>1, <1>2, TypeSplit DEF RestOK
<1>5. Queued' /\ \A k \in Conns : unread'[k] <= sent'[k]
  BY <1>0, <1>1, SameQueued DEF Roles
<1> QED
  BY <1>1, <1>3, <1>4, <1>5, ThreadMoves DEF Labels, Fit

LEMMA EndLoopKeeps ==
    ASSUME Inv, NEW t \in Threads, EndLoop(t)
    PROVE  Inv'
<1>0. TypeOK /\ Queued /\ Roles /\ t \in Actors
  BY ActorFacts DEF Inv
<1>1. /\ pc[t] = "loop" /\ pc' = [pc EXCEPT ![t] = "idle"]
      /\ UNCHANGED <<id, conn, count, accepted, sock, event, sent, unread, buf, rcvd,
                     queue, notifier, job, sel, todo, txq, kills>>
  BY DEF EndLoop, table, peers, Goto
<1>2. left' \in [Threads -> Nat]
  BY <1>0 DEF EndLoop, TypeOK
<1>3. Moves(t, "idle", job[t]) /\ job[t] \in Job
  BY <1>0, <1>1 DEF Moves, TypeOK
<1>4. RestOK'
  BY <1>0, <1>1, <1>2, TypeSplit DEF RestOK
<1>5. Queued' /\ \A k \in Conns : unread'[k] <= sent'[k]
  BY <1>0, <1>1, SameQueued DEF Roles
<1> QED
  BY <1>1, <1>3, <1>4, <1>5, ThreadMoves DEF Labels, Fit

\* Taking the first of a queue.
LEMMA QueueHead ==
    ASSUME NEW E, NEW q \in Seq(E), q # <<>>
    PROVE  /\ Head(q) \in E /\ Head(q) = q[1] /\ 1 \in DOMAIN q
           /\ Tail(q) \in Seq(E) /\ Len(q) \in Nat /\ Len(Tail(q)) = Len(q) - 1
           /\ \A i \in DOMAIN Tail(q) : i + 1 \in DOMAIN q /\ Tail(q)[i] = q[i + 1]
  OBVIOUS

LEMMA CatchKeeps ==
    ASSUME Inv, NEW t \in Threads, Catch(t)
    PROVE  Inv'
<1>0. TypeOK /\ Queued /\ Roles /\ t \in Actors
  BY ActorFacts DEF Inv
<1>1. /\ pc[t] = "loop" /\ left[t] > 0 /\ queue[t] # <<>>
      /\ queue' = [queue EXCEPT ![t] = Tail(@)] /\ left' = [left EXCEPT ![t] = @ - 1]
      /\ UNCHANGED <<id, conn, count, accepted, sock, event, sent, unread, buf, rcvd,
                     notifier, sel, todo, txq, kills>>
  BY DEF Catch, table, peers, PopReady
<1>2. PICK E, q : E = [job : Job, by : Actors \cup {Published}] /\ q = queue[t]
  OBVIOUS
<1>3. q \in Seq(E) /\ q # <<>>
  BY <1>0, <1>1, <1>2 DEF TypeOK
<1>4. /\ Head(q) \in E /\ Head(q) = q[1] /\ 1 \in DOMAIN q
      /\ Tail(q) \in Seq(E) /\ Len(q) \in Nat /\ Len(Tail(q)) = Len(q) - 1
      /\ \A i \in DOMAIN Tail(q) : i + 1 \in DOMAIN q /\ Tail(q)[i] = q[i + 1]
  BY ONLY <1>3, QueueHead
<1>5. PICK j : j = Head(queue[t]).job
  OBVIOUS
<1>6. j \in Job /\ Made(j) /\ Due(j)
  <2>1. j \in Job
    BY <1>2, <1>4, <1>5
  <2>2. j = queue[t][1].job /\ 1 \in DOMAIN queue[t]
    BY <1>2, <1>4, <1>5
  <2> QED
    BY <1>0, <2>1, <2>2 DEF Queued
<1>7. queue' = [queue EXCEPT ![t] = Tail(q)]
  BY <1>1, <1>2
<1>8. queue' \in [Threads -> Seq(E)]
  BY <1>0, <1>2, <1>4, <1>7 DEF TypeOK
<1>9. \A u \in Threads : Len(queue'[u]) <= QueueSize
  <2>1. Len(queue[t]) <= QueueSize
    BY <1>0 DEF TypeOK
  <2>2. Len(Tail(q)) <= QueueSize
    BY <1>2, <1>4, <2>1, SizesAssumption
  <2>3. \A u \in Threads : queue'[u] = IF u = t THEN Tail(q) ELSE queue[u]
    BY <1>0, <1>7 DEF TypeOK
  <2> QED
    BY <1>0, <2>2, <2>3 DEF TypeOK
<1>10. Queued'
  <2> SUFFICES ASSUME NEW u \in Threads, NEW i \in DOMAIN queue'[u]
               PROVE  Made(queue[u][i].job)' /\ Due(queue[u][i].job)'
    BY DEF Queued
  <2>1. \E h \in DOMAIN queue[u] : queue'[u][i] = queue[u][h]
    <3>1. CASE u = t
      <4>1. queue'[u] = Tail(q)
        BY <1>0, <1>7, <3>1 DEF TypeOK
      <4> QED
        BY <1>2, <1>4, <3>1, <4>1
    <3>2. CASE u # t
      <4>1. queue'[u] = queue[u]
        BY <1>0, <1>7, <3>2 DEF TypeOK
      <4> QED
        BY <4>1
    <3> QED
      BY <3>1, <3>2
  <2>2. Made(queue'[u][i].job) /\ Due(queue'[u][i].job)
    BY <1>0, <2>1 DEF Queued
  <2> QED
    BY <1>1, <2>2 DEF Made, Due, Over
<1>11. left' \in [Threads -> Nat]
  BY <1>0, <1>1 DEF TypeOK
<1>12. RestOK'
  BY <1>0, <1>1, <1>2, <1>8, <1>9, <1>11, TypeSplit DEF RestOK
<1>13. \A k \in Conns : unread'[k] <= sent'[k]
  BY <1>0, <1>1 DEF Roles
<1>14. CASE id[j.slot] = 0
  <2>1. Back(t)
    BY <1>5, <1>14 DEF Catch
  <2> QED
    BY <1>1, <1>10, <1>12, <1>13, <2>1, ThreadBack
<1>15. CASE id[j.slot] # 0
  <2>1. PICK l : l = CASE j.type = "READ" -> "read" [] j.type = "WRITE" -> "write"
                       [] j.type = "TERMINATE" -> "terminate"
    OBVIOUS
  <2>2. Moves(t, l, j)
    BY <1>5, <1>15, <2>1 DEF Catch, Goto, Moves
  <2>3. /\ l \in {"read", "write", "terminate"}
        /\ l = "write" => j.type = "WRITE"
        /\ l = "terminate" => j.type = "TERMINATE"
    BY <1>6, <2>1 DEF Job, Types
  <2>4. l \in Labels /\ l \notin {"remove", "uncount"} /\ Fit(t, l, j)
    BY <1>6, <2>3 DEF Labels, Fit
  <2> QED
    BY <1>1, <1>6, <1>10, <1>12, <1>13, <2>2, <2>3, <2>4, ThreadMoves
<1> QED
  BY <1>14, <1>15

\* The connection that a job at work reads from, writes to or closes.
LEMMA JobConn ==
    ASSUME Inv, NEW a \in Actors, pc[a] \notin {"idle", "loop"}
    PROVE  /\ job[a].slot \in Slots /\ conn[job[a].slot] \in Conns
           /\ job[a].of \in Conns
<1>1. job[a].slot \in Slots /\ job[a].of \in 0..MaxConns
  BY JobFacts DEF Inv
<1>2. Made(job[a])
  BY DEF Inv, Held
<1>3. conn[job[a].slot] \in 0..MaxConns
  BY <1>1 DEF Inv, TypeOK
<1> QED
  BY <1>1, <1>2, <1>3, BoundsAssumption DEF Made, Conns

LEMMA WaitingTyped ==
    ASSUME Inv, NEW s \in Slots, NEW k \in Conns
    PROVE  Waiting(s, k) \in Seq([slot : Slots, cmd : Cmd]) /\ Len(Waiting(s, k)) = unread[k]
<1>1. unread[k] \in Nat /\ sent[k] \in Nat /\ unread[k] <= sent[k]
  BY DEF Inv, TypeOK, Roles
<1>2. PICK n, d, w : n = unread[k] /\ d = sent[k] - unread[k] /\ w = Waiting(s, k)
  OBVIOUS
<1>3. n \in Nat /\ d \in Nat /\ w = [i \in 1..n |-> [slot |-> s, cmd |-> <<k, d + i>>]]
  BY <1>1, <1>2 DEF Waiting
<1>4. PICK E : E = [slot : Slots, cmd : Cmd]
  OBVIOUS
<1>5. \A i \in 1..n : [slot |-> s, cmd |-> <<k, d + i>>] \in E
  <2> SUFFICES ASSUME NEW i \in 1..n
               PROVE  [slot |-> s, cmd |-> <<k, d + i>>] \in E
    OBVIOUS
  <2>1. d + i \in Nat
    BY <1>3
  <2>2. <<k, d + i>> \in Cmd
    BY <2>1 DEF Cmd
  <2> QED
    BY <1>4, <2>2
<1>6. w \in [1..n -> E]
  BY <1>3, <1>5
<1>7. w \in Seq(E) /\ Len(w) = n
  <2>1. n \in Nat
    BY <1>3
  <2> QED
    BY ONLY <2>1, <1>6
<1> QED
  BY <1>2, <1>4, <1>7

LEMMA ReadKeepsInv ==
    ASSUME Inv, Fed, NEW t \in Threads, Read(t)
    PROVE  Inv'
<1>0. TypeOK /\ Queued /\ Roles /\ t \in Actors /\ t # Tx
  BY ActorFacts DEF Inv
<1>1. /\ pc[t] = "read"
      /\ UNCHANGED <<id, conn, count, accepted, sock, event, sent, buf, rcvd,
                     queue, notifier, left, sel, todo, kills>>
  BY DEF Read, table, io
<1>2. PICK s, k : s = job[t].slot /\ k = conn[job[t].slot]
  OBVIOUS
<1>3. s \in Slots /\ k \in Conns
  BY <1>0, <1>1, <1>2, JobConn
<1>4. Queued'
  BY <1>0, <1>1, SameQueued
<1>5. txq \in Seq([slot : Slots, cmd : Cmd]) /\ unread \in [Conns -> Nat]
  BY <1>0 DEF TypeOK
<1>6. ASSUME unread' \in [Conns -> Nat], txq' \in Seq([slot : Slots, cmd : Cmd])
      PROVE  RestOK'
  BY <1>0, <1>1, <1>6, TypeSplit DEF RestOK
<1>7. \A c \in Conns : unread[c] <= sent[c] /\ sent[c] \in Nat
  BY <1>0 DEF Roles, TypeOK
<1>a. ASSUME unread' = [unread EXCEPT ![k] = 0]
      PROVE  unread' \in [Conns -> Nat] /\ \A c \in Conns : unread'[c] <= sent'[c]
  <2>1. unread' \in [Conns -> Nat] /\ \A c \in Conns : unread'[c] = IF c = k THEN 0 ELSE unread[c]
    BY <1>3, <1>5, <1>a
  <2>2. ASSUME NEW c \in Conns PROVE unread'[c] <= sent'[c]
    <3>1. sent'[c] = sent[c] /\ sent[c] \in Nat /\ unread[c] <= sent[c]
      BY <1>1, <1>7
    <3>2. CASE c = k
      BY <2>1, <3>1, <3>2
    <3>3. CASE c # k
      BY <2>1, <3>1, <3>3
    <3> QED
      BY <3>2, <3>3
  <2> QED
    BY <2>1, <2>2
<1>8. CASE /\ txq' = txq \o Waiting(s, k) /\ unread' = [unread EXCEPT ![k] = 0] /\ Back(t)
  <2>1. Waiting(s, k) \in Seq([slot : Slots, cmd : Cmd])
    BY <1>3, WaitingTyped
  <2>2. txq' \in Seq([slot : Slots, cmd : Cmd])
    <3>1. PICK E, w : E = [slot : Slots, cmd : Cmd] /\ w = Waiting(s, k)
      OBVIOUS
    <3>2. txq \in Seq(E) /\ w \in Seq(E) /\ txq' = txq \o w
      BY <1>5, <1>8, <2>1, <3>1
    <3>3. txq' \in Seq(E)
      BY ONLY <3>2
    <3> QED
      BY <3>1, <3>3
  <2>3. unread' \in [Conns -> Nat] /\ \A c \in Conns : unread'[c] <= sent'[c]
    BY <1>8, <1>a
  <2>4. RestOK'
    BY <1>6, <2>2, <2>3
  <2> QED
    BY <1>1, <1>4, <1>8, <2>3, <2>4, ThreadBack
<1>9. CASE /\ sock[k] \in {"open", "hung"} /\ unread[k] = 0
           /\ Ask(t, [job[t] EXCEPT !.type = "TERMINATE"]) /\ UNCHANGED <<txq, unread>>
  <2>1. RestOK'
    BY <1>5, <1>6, <1>9
  <2>2. PICK j : j = [job[t] EXCEPT !.type = "TERMINATE"]
    OBVIOUS
  <2>3. Moves(t, "request", j)
    BY <1>9, <2>2 DEF Ask, Goto, Moves
  <2>4. j \in Job /\ j.slot = job[t].slot /\ j.of = job[t].of /\ j.type = "TERMINATE"
    BY <1>0, <2>2, JobFacts DEF Job
  <2>5. Made(j) /\ Due(j)
    <3>1. Made(job[t])
      BY <1>0, <1>1 DEF Inv, Held
    <3>2. (~Pipelined /\ k <= MaxClients) => sock[k] = "hung"
      BY <1>1, <1>2, <1>9 DEF Fed
    <3> QED
      BY <1>2, <2>4, <3>1, <3>2 DEF Made, Due, Over
  <2>6. \A c \in Conns : unread'[c] <= sent'[c]
    BY <1>1, <1>7, <1>9
  <2> QED
    BY <1>1, <1>4, <2>1, <2>3, <2>4, <2>5, <2>6, ThreadMoves DEF Labels, Fit
<1>10. CASE unread' = [unread EXCEPT ![k] = 0] /\ Back(t) /\ UNCHANGED txq
  <2>1. unread' \in [Conns -> Nat] /\ \A c \in Conns : unread'[c] <= sent'[c]
    BY <1>10, <1>a
  <2>2. RestOK'
    BY <1>5, <1>6, <1>10, <2>1
  <2> QED
    BY <1>1, <1>4, <1>10, <2>1, <2>2, ThreadBack
<1>11. CASE Back(t) /\ UNCHANGED <<txq, unread>>
  <2>1. RestOK'
    BY <1>5, <1>6, <1>11
  <2>2. \A c \in Conns : unread'[c] <= sent'[c]
    BY <1>1, <1>7, <1>11
  <2> QED
    BY <1>1, <1>4, <1>11, <2>1, <2>2, ThreadBack
<1> QED
  BY <1>2, <1>8, <1>9, <1>10, <1>11 DEF Read

LEMMA WriteKeeps ==
    ASSUME Inv, NEW t \in Threads, Write(t)
    PROVE  Inv'
<1>0. TypeOK /\ Queued /\ Roles /\ t \in Actors
  BY ActorFacts DEF Inv
<1>1. /\ pc[t] = "write" /\ Back(t)
      /\ UNCHANGED <<id, conn, count, accepted, sock, event, sent, unread, buf,
                     queue, notifier, left, sel, todo, txq, kills>>
  BY DEF Write, table, peers, io
<1>2. PICK k, c : k = conn[job[t].slot] /\ c = buf[job[t].of]
  OBVIOUS
<1>3. k \in Conns /\ job[t].of \in Conns
  BY <1>0, <1>1, <1>2, JobConn
<1>4. c \in Cmd
  <2>1. Made(job[t]) /\ job[t].type = "WRITE"
    BY <1>0, <1>1 DEF Inv, Held, Roles
  <2>2. buf[job[t].of] \in Cmd \cup {NoCmd}
    BY <1>0, <1>3 DEF TypeOK
  <2> QED
    BY <1>2, <2>1, <2>2 DEF Made
<1>5. rcvd' \in [Conns -> Seq(Cmd)]
  <2>1. rcvd' = rcvd \/ rcvd' = [rcvd EXCEPT ![k] = Append(@, c)]
    BY <1>2 DEF Write
  <2>2. rcvd \in [Conns -> Seq(Cmd)]
    BY <1>0 DEF TypeOK
  <2>3. Append(rcvd[k], c) \in Seq(Cmd)
    BY <1>3, <1>4, <2>2
  <2> QED
    BY <1>3, <2>1, <2>2, <2>3
<1>6. RestOK'
  BY <1>0, <1>1, <1>5, TypeSplit DEF RestOK
<1>7. Queued' /\ \A c0 \in Conns : unread'[c0] <= sent'[c0]
  BY <1>0, <1>1, SameQueued DEF Roles
<1> QED
  BY <1>1, <1>6, <1>7, ThreadBack

-----------------------------------------------------------------------------
(***************************************************************************)
(* The peers and the main thread.                                          *)
(***************************************************************************)
LEMMA PeerSendKeeps ==
    ASSUME Inv, NEW k \in Conns, PeerSend(k)
    PROVE  Inv'
<1>0. /\ sent' = [sent EXCEPT ![k] = @ + 1] /\ unread' = [unread EXCEPT ![k] = @ + 1]
      /\ event' = event \cup {k}
      /\ UNCHANGED <<id, conn, count, accepted, sock, buf, rcvd, queue, notifier, left,
                     pc, job, sel, todo, txq, kills>>
  BY DEF PeerSend, table, io
<1>1. TypeOK'
  <2>1. sent' \in [Conns -> Nat] /\ unread' \in [Conns -> Nat] /\ event' \subseteq Conns
    BY <1>0 DEF Inv, TypeOK
  <2> QED
    BY <1>0, <2>1 DEF Inv, TypeOK
<1>2. Tenants'
  BY <1>0 DEF Inv, Tenants
<1>3. Counted'
  BY <1>0 DEF Inv, Counted, Used, Uncounting
<1>4. Queued'
  BY <1>0 DEF Inv, Queued, Made, Due, Over
<1>5. Held'
  BY <1>0 DEF Inv, Held, Made, Due, Over
<1>6. Roles'
  BY <1>0 DEF Inv, TypeOK, Roles, Over
<1>7. Removing'
  BY <1>0 DEF Inv, Removing
<1> QED
  BY <1>1, <1>2, <1>3, <1>4, <1>5, <1>6, <1>7 DEF Inv

\* Jobs stay well made when a socket only comes nearer to its end.
LEMMA OverStays ==
    ASSUME Queued, Held, \A c \in Conns : Over(c) => Over(c)', UNCHANGED <<conn, buf>>,
           conn \in [Slots -> 0..MaxConns]
    PROVE  /\ \A j \in Job : Made(j) => Made(j)'
           /\ \A j \in Job : Made(j) /\ Due(j) => Due(j)'
<1>1. ASSUME NEW j \in Job, Made(j) PROVE Made(j)'
  BY <1>1 DEF Made
<1>2. ASSUME NEW j \in Job, Made(j), Due(j) PROVE Due(j)'
  <2>1. conn[j.slot] # 0 /\ j.slot \in Slots
    BY <1>2 DEF Made, Job
  <2>2. conn[j.slot] \in Conns
    BY <2>1, BoundsAssumption DEF Conns
  <2> QED
    BY <1>2, <2>2 DEF Due
<1> QED
  BY <1>1, <1>2

LEMMA QueueJobs ==
    ASSUME TypeOK, NEW t \in Threads, NEW i \in DOMAIN queue[t]
    PROVE  queue[t][i].job \in Job
<1>1. PICK E, q : E = [job : Job, by : Actors \cup {Published}] /\ q = queue[t]
  OBVIOUS
<1>2. q \in Seq(E) /\ i \in DOMAIN q
  BY <1>1 DEF TypeOK
<1>3. q[i] \in E
  BY ONLY <1>2
<1> QED
  BY <1>1, <1>3

\* The same for all the jobs there are.
LEMMA OverKeeps ==
    ASSUME TypeOK, Queued, Held, Roles, \A c \in Conns : Over(c) => Over(c)',
           UNCHANGED <<conn, buf, queue>>
    PROVE  /\ Queued'
           /\ \A a \in Actors : pc[a] \notin {"idle", "loop"} =>
                 (Made(job[a])) /\ (a # Tx => Due(job[a]))
           /\ \A j \in Job : Made(j) => Made(j)'
           /\ \A j \in Job : Made(j) /\ Due(j) => Due(j)'
<1>1. /\ \A j \in Job : Made(j) => Made(j)'
      /\ \A j \in Job : Made(j) /\ Due(j) => Due(j)'
  BY OverStays DEF TypeOK
<1>2. Queued'
  <2> SUFFICES ASSUME NEW t \in Threads, NEW i \in DOMAIN queue[t]
               PROVE  Made(queue[t][i].job)' /\ Due(queue[t][i].job)'
    BY DEF Queued
  <2>1. PICK j : j = queue[t][i].job
    OBVIOUS
  <2>2. j \in Job /\ Made(j) /\ Due(j)
    BY <2>1, QueueJobs DEF Queued
  <2>3. Made(j)' /\ Due(j)'
    BY <1>1, <2>2
  <2> QED
    BY <2>1, <2>3
<1> QED
  BY <1>1, <1>2 DEF Held

LEMMA PeerHangUpKeeps ==
    ASSUME Inv, NEW k \in Conns, PeerHangUp(k)
    PROVE  Inv'
<1>0. TypeOK /\ Tenants /\ Counted /\ Queued /\ Held /\ Roles /\ Removing
  BY DEF Inv
<1>1. /\ sock[k] = "open" /\ sock' = [sock EXCEPT ![k] = "hung"] /\ event' = event \cup {k}
      /\ UNCHANGED <<id, conn, count, accepted, sent, unread, buf, rcvd, queue, notifier, left,
                     pc, job, sel, todo, txq, kills>>
  BY DEF PeerHangUp, table, io
<1>2. \A c \in Conns : sock'[c] = IF c = k THEN "hung" ELSE sock[c]
  BY <1>0, <1>1 DEF TypeOK
<1>3. TypeOK'
  BY <1>0, <1>1 DEF TypeOK
<1>4. \A c \in Conns : Over(c) => Over(c)'
  BY <1>1, <1>2 DEF Over
<1>5. \A s \in Slots : conn[s] # 0 => conn[s] \in Conns
  BY <1>0, BoundsAssumption DEF TypeOK, Conns
<1>6. Tenants'
  BY <1>0, <1>1, <1>2, <1>5 DEF Tenants
<1>7. Counted'
  BY <1>0, <1>1 DEF Counted, Used, Uncounting
<1>8. /\ Queued'
      /\ \A j \in Job : Made(j) => Made(j)'
      /\ \A j \in Job : Made(j) /\ Due(j) => Due(j)'
  BY <1>0, <1>1, <1>4, OverKeeps
<1>9. Held'
  <2> SUFFICES ASSUME NEW a \in Actors, pc[a] \notin {"idle", "loop"}
               PROVE  Made(job[a])' /\ (a # Tx => Due(job[a])')
    BY <1>1 DEF Held
  <2>1. PICK j : j = job[a]
    OBVIOUS
  <2>2. j \in Job /\ Made(j) /\ (a # Tx => Due(j))
    BY <1>0, <2>1, JobFacts DEF Held
  <2>3. Made(j)' /\ (a # Tx => Due(j)')
    BY <1>8, <2>2
  <2> QED
    BY <1>1, <2>1, <2>3
<1>10. Roles'
  <2>1. todo # <<>> => (conn[job[Main].slot] <= MaxClients => sock'[conn[job[Main].slot]] \in {"hung", "closed"})
    <3> SUFFICES ASSUME todo # <<>>, conn[job[Main].slot] <= MaxClients
                 PROVE  sock'[conn[job[Main].slot]] \in {"hung", "closed"}
      OBVIOUS
    <3>1. pc[Main] \notin {"idle", "loop"}
      BY <1>0 DEF Roles
    <3>2. conn[job[Main].slot] \in Conns
      BY <3>1, JobConn, ActorFacts
    <3> QED
      BY <1>0, <1>2, <3>2 DEF Roles, Over
  <2> QED
    BY <1>0, <1>1, <2>1 DEF Roles, Over
<1>11. Removing'
  <2>1. ASSUME NEW a \in Workers, pc[a] = "remove"
        PROVE  sock'[conn[job[a].slot]] = "closed"
    <3>1. conn[job[a].slot] \in Conns
      BY <2>1, JobConn, ActorFacts
    <3> QED
      BY <1>0, <1>1, <1>2, <2>1, <3>1 DEF Removing
  <2> QED
    BY <1>0, <1>1, <2>1 DEF Removing
<1> QED
  BY <1>3, <1>6, <1>7, <1>8, <1>9, <1>10, <1>11 DEF Inv

LEMMA TakeEventKeeps ==
    ASSUME Inv, NEW k \in Conns, TakeEvent(k)
    PROVE  Inv'
<1>0. TypeOK /\ Tenants /\ Counted /\ Queued /\ Held /\ Roles /\ Removing
  BY DEF Inv
<1>1. /\ pc[Main] = "idle" /\ event' = event \ {k}
      /\ todo' = IF sock[k] = "hung" THEN <<"TERMINATE">> ELSE <<>>
      /\ UNCHANGED <<id, conn, count, accepted, sock, sent, unread, buf, rcvd, queue, notifier, left,
                     sel, txq, kills>>
  BY DEF TakeEvent, table, io
<1>2. PICK s \in Slots : /\ conn[s] = k
                         /\ Ask(Main, [type |-> "READ", slot |-> s, of |-> k])
  BY DEF TakeEvent
<1>3. PICK j : j = [type |-> "READ", slot |-> s, of |-> k]
  OBVIOUS
<1>4. Moves(Main, "request", j)
  BY <1>2, <1>3 DEF Ask, Goto, Moves
<1>5. j \in Job /\ j.slot = s /\ j.of = k /\ j.type = "READ" /\ k # 0 /\ Main # Tx /\ Main \in Actors
  BY <1>3, BoundsAssumption, ActorFacts DEF Job, Types, Conns
<1>6. Made(j) /\ Due(j)
  BY <1>2, <1>5 DEF Made, Due
<1>7. todo' \in {<<>>, <<"TERMINATE">>} /\ (todo' # <<>> => sock[k] = "hung")
  BY <1>1
<1>8. RestOK'
  <2>1. todo' \in Seq(Types)
    <3>1. CASE todo' = <<>>
      BY <3>1
    <3>2. CASE todo' = <<"TERMINATE">>
      BY <3>2 DEF Types
    <3> QED
      BY <1>7, <3>1, <3>2
  <2>2. RestOK
    BY <1>0, TypeSplit
  <2> QED
    BY <1>1, <2>1, <2>2 DEF RestOK
<1>9. TypeOK'
  BY <1>0, <1>4, <1>5, <1>8, MovesTyped DEF Labels
<1>10. Tenants' /\ Counted' /\ Held' /\ Removing'
  BY <1>0, <1>1, <1>4, <1>5, <1>6, MovesKeep DEF Fit
<1>11. Roles'
  BY <1>0, <1>1, <1>2, <1>4, <1>5, <1>7, MainRoles
<1>12. Queued'
  BY <1>0, <1>1, SameQueued
<1> QED
  BY <1>9, <1>10, <1>11, <1>12 DEF Inv

\* A slot that is free is found by probing from anywhere.
LEMMA FreeSlotIs ==
    ASSUME TypeOK, NEW i \in Nat, \E s \in Slots : id[s] = 0
    PROVE  /\ FreeSlot(i) \in Slots /\ id[FreeSlot(i)] = 0
           /\ id[i % MaxClients] = 0 => FreeSlot(i) = i % MaxClients
<1>1. MaxClients \in Nat \ {0}
  BY SizesAssumption
<1>2. PICK M : M = MaxClients
  OBVIOUS
<1>3. PICK p : p = Probe(i)
  OBVIOUS
<1>4. /\ DOMAIN p = 0..(M - 1) /\ \A n \in 0..(M - 1) : p[n] = (i + n) % M
      /\ M \in Nat \ {0} /\ Slots = 0..(M - 1)
  BY <1>1, <1>2, <1>3 DEF Probe, Slots
<1>5. PICK h : h = i % M
  OBVIOUS
<1>6. h \in 0..(M - 1)
  BY <1>4, <1>5, RemainderOf
<1>7. \A n \in 0..(M - 1) : p[n] = IF h + n < M THEN h + n ELSE h + n - M
  BY <1>4, <1>5, Wrap
<1>8. \A n \in 0..(M - 1) : p[n] \in Slots
  BY <1>4, <1>6, <1>7
<1>9. PICK s \in Slots : id[s] = 0
  OBVIOUS
<1>10. \E n \in 0..(M - 1) : p[n] = s
  <2>1. CASE h <= s
    <3>1. s - h \in 0..(M - 1) /\ p[s - h] = s
      BY <1>4, <1>6, <1>7, <2>1
    <3> QED
      BY <3>1
  <2>2. CASE s < h
    <3>1. s - h + M \in 0..(M - 1) /\ p[s - h + M] = s
      BY <1>4, <1>6, <1>7, <2>2
    <3> QED
      BY <3>1
  <2> QED
    BY <1>4, <1>6, <2>1, <2>2
<1> DEFINE F == {n \in 0..(M - 1) : id[p[n]] = 0}
<1>11. F # {} /\ F \in SUBSET Nat
  BY <1>9, <1>10
<1>12. PICK m : m = Min(F)
  OBVIOUS
<1>13. m \in F /\ \A y \in F : m <= y
  <2> HIDE DEF F
  <2> QED
    BY <1>11, <1>12, HasMin
<1> DEFINE First(n) == id[p[n]] = 0 /\ \A x \in 0..(n - 1) : id[p[x]] # 0
<1>14. m \in DOMAIN p /\ First(m)
  <2>1. m \in 0..(M - 1) /\ id[p[m]] = 0
    BY <1>13
  <2>2. ASSUME NEW x \in 0..(m - 1), id[p[x]] = 0 PROVE FALSE
    <3>1. x \in F
      BY <1>4, <2>1, <2>2
    <3>2. m <= x
      BY <1>13, <3>1
    <3> QED
      BY <2>1, <3>2
  <2> QED
    BY <1>4, <2>1, <2>2
<1>15. PICK c : c = CHOOSE n \in DOMAIN p : First(n)
  OBVIOUS
<1>16. c \in DOMAIN p /\ First(c)
  <2> HIDE DEF First
  <2> QED
    BY <1>14, <1>15
<1>17. FreeSlot(i) = p[c]
  BY <1>3, <1>15 DEF FreeSlot
<1>18. FreeSlot(i) \in Slots /\ id[FreeSlot(i)] = 0
  BY <1>4, <1>8, <1>16, <1>17
<1>19. ASSUME id[h] = 0 PROVE FreeSlot(i) = h
  <2>1. 0 \in 0..(M - 1) /\ p[0] = h
    BY <1>4, <1>6, <1>7
  <2>2. c = 0
    <3> SUFFICES ASSUME c # 0 PROVE FALSE
      OBVIOUS
    <3>1. 0 \in 0..(c - 1)
      BY <1>4, <1>16
    <3> QED
      BY <1>16, <1>19, <2>1, <3>1
  <2> QED
    BY <1>17, <2>1, <2>2
<1> QED
  BY <1>2, <1>5, <1>18, <1>19

LEMMA CountRoom ==
    ASSUME TypeOK, Counted
    PROVE  /\ IsFiniteSet(Used) /\ Cardinality(Used) \in Nat
           /\ IsFiniteSet(Uncounting) /\ Cardinality(Uncounting) \in Nat
           /\ count # MaxClients => \E s \in Slots : id[s] = 0
<1>1. IsFiniteSet(Workers) /\ IsFiniteSet(Slots) /\ Cardinality(Slots) = MaxClients
  BY WorkersFinite
<1>2. Used \in SUBSET Slots /\ Uncounting \in SUBSET Workers
  BY DEF Used, Uncounting
<1>3. IsFiniteSet(Used) /\ IsFiniteSet(Uncounting)
  BY <1>1, <1>2, FS_Subset
<1>4. Cardinality(Used) \in Nat /\ Cardinality(Uncounting) \in Nat
  BY <1>3, FS_CardinalityType
<1>5. ASSUME count # MaxClients, \A s \in Slots : id[s] # 0 PROVE FALSE
  <2>1. Used = Slots
    BY <1>5 DEF Used
  <2>2. count >= MaxClients
    BY <1>1, <1>4, <2>1, SizesAssumption DEF Counted
  <2> QED
    BY <1>5, <2>2, SizesAssumption DEF TypeOK
<1> QED
  BY <1>3, <1>4, <1>5

\* A first tenant gets the slot its id hashes to, which nobody has had.
LEMMA FirstSlot ==
    ASSUME TypeOK, Tenants, NEW k, k = accepted + 1, k <= MaxClients, k \in Conns
    PROVE  conn[k % MaxClients] = 0 /\ id[k % MaxClients] = 0 /\ k % MaxClients \in Slots
<1>1. MaxClients \in Nat \ {0} /\ k \in Nat /\ k # 0 /\ accepted \in Nat
  BY SizesAssumption, BoundsAssumption DEF Conns, TypeOK
<1>2. PICK M, s : M = MaxClients /\ s = k % M
  OBVIOUS
<1>3. s \in 0..(M - 1) /\ s \in Slots
  BY <1>1, <1>2, RemainderOf DEF Slots
<1>4. conn[s] = 0
  <2> SUFFICES ASSUME conn[s] # 0 PROVE FALSE
    OBVIOUS
  <2>1. PICK c : c = conn[s]
    OBVIOUS
  <2>2. c \in Nat /\ c # 0 /\ c < k
    BY <1>1, <1>3, <2>1 DEF TypeOK, Tenants
  <2>3. s = c % M
    BY <1>1, <1>2, <1>3, <2>1, <2>2 DEF Tenants
  <2>4. c \in 0..(M - 1)
    BY <1>1, <1>2, <2>2
  <2>5. c % M = c
    BY <1>1, <1>2, <2>4, SmallRemainder
  <2>6. CASE k = M
    <3>1. M = M * 1 + 0 /\ 0 \in 0..(M - 1)
      BY <1>1, <1>2
    <3>2. k = M * (k \div M) + (k % M) /\ k \div M \in Int /\ k % M \in 0..(M - 1)
      BY <1>1, <1>2, RemainderOf
    <3>3. PICK q, r : q = k \div M /\ r = k % M
      OBVIOUS
    <3>4. M \in Nat \ {0} /\ q \in Int /\ 1 \in Int /\ r \in 0..(M - 1) /\ 0 \in 0..(M - 1)
          /\ M * q + r = M * 1 + 0
      BY <1>1, <1>2, <2>6, <3>1, <3>2, <3>3
    <3>5. r = 0
      BY ONLY <3>4, RemainderUnique
    <3> QED
      BY <1>2, <2>2, <2>3, <2>5, <3>3, <3>5
  <2>7. CASE k # M
    <3>1. k \in 0..(M - 1)
      BY <1>1, <1>2, <2>7
    <3>2. k % M = k
      BY <1>1, <1>2, <3>1, SmallRemainder
    <3> QED
      BY <1>2, <2>2, <2>3, <2>5, <3>2
  <2> QED
    BY <2>6, <2>7
<1>5. id[s] = 0
  BY <1>3, <1>4 DEF Tenants
<1> QED
  BY <1>2, <1>3, <1>4, <1>5

LEMMA AcceptKeeps ==
    ASSUME Inv, Accept
    PROVE  Inv'
<1>0. TypeOK /\ Tenants /\ Counted /\ Queued /\ Held /\ Roles /\ Removing
  BY DEF Inv
<1>1. PICK k, s : k = accepted + 1 /\ s = FreeSlot(k)
  OBVIOUS
<1>2. /\ pc[Main] = "idle" /\ accepted < MaxConns /\ count # MaxClients
      /\ id' = [id EXCEPT ![s] = k] /\ conn' = [conn EXCEPT ![s] = k]
      /\ sock' = [sock EXCEPT ![k] = "open"] /\ accepted' = k /\ count' = count + 1
      /\ UNCHANGED <<event, sent, unread, buf, rcvd, queue, notifier, left,
                     pc, job, sel, todo, txq, kills>>
  BY <1>1 DEF Accept, AtLimit, io
<1>3. k \in Conns /\ k \in Nat /\ k # 0 /\ k \in 0..MaxConns /\ accepted \in Nat
  BY <1>0, <1>1, <1>2, BoundsAssumption DEF TypeOK, Conns
<1>4. \E x \in Slots : id[x] = 0
  BY <1>0, <1>2, CountRoom
<1>5. s \in Slots /\ id[s] = 0 /\ (id[k % MaxClients] = 0 => s = k % MaxClients)
  BY <1>0, <1>1, <1>3, <1>4, FreeSlotIs
<1>6. k <= MaxClients => (conn[s] = 0 /\ s = k % MaxClients)
  BY <1>0, <1>1, <1>3, <1>5, FirstSlot
<1>7. /\ \A x \in Slots : id'[x] = IF x = s THEN k ELSE id[x]
      /\ \A x \in Slots : conn'[x] = IF x = s THEN k ELSE conn[x]
      /\ \A c \in Conns : sock'[c] = IF c = k THEN "open" ELSE sock[c]
  BY <1>0, <1>2 DEF TypeOK
<1>8. \A x \in Slots : conn[x] \in Nat /\ conn[x] # k /\ (conn[x] # 0 => conn[x] \in Conns)
  BY <1>0, <1>1, <1>3, BoundsAssumption DEF TypeOK, Tenants, Conns
<1>9. TypeOK'
  <2>1. id' \in [Slots -> 0..MaxConns] /\ conn' \in [Slots -> 0..MaxConns]
    BY <1>0, <1>2, <1>3 DEF TypeOK
  <2>2. sock' \in [Conns -> {"none", "open", "hung", "closed"}]
    BY <1>0, <1>2 DEF TypeOK
  <2>3. count' \in 0..MaxClients
    BY <1>0, <1>2, SizesAssumption DEF TypeOK
  <2> QED
    BY <1>0, <1>2, <1>3, <2>1, <2>2, <2>3 DEF TypeOK
<1>10. Tenants'
  <2>1. \A x \in Slots : id'[x] # 0 => conn'[x] = id'[x]
    BY <1>0, <1>7 DEF Tenants
  <2>2. \A x \in Slots : conn'[x] <= accepted'
    BY <1>0, <1>1, <1>2, <1>3, <1>7, <1>8 DEF Tenants
  <2>3. \A c \in Conns : c > accepted' => sock'[c] = "none"
    BY <1>0, <1>1, <1>2, <1>3, <1>7, BoundsAssumption DEF Tenants, Conns
  <2>4. \A x \in Slots : conn'[x] # 0 => sock'[conn'[x]] # "none"
    BY <1>0, <1>3, <1>7, <1>8 DEF Tenants
  <2>5. \A x \in Slots : (id'[x] = 0 /\ conn'[x] # 0) => sock'[conn'[x]] = "closed"
    BY <1>0, <1>3, <1>7, <1>8 DEF Tenants
  <2>6. \A x \in Slots : (conn'[x] # 0 /\ conn'[x] <= MaxClients) => x = conn'[x] % MaxClients
    BY <1>0, <1>6, <1>7 DEF Tenants
  <2> QED
    BY <2>1, <2>2, <2>3, <2>4, <2>5, <2>6 DEF Tenants
<1>11. Counted'
  <2>1. IsFiniteSet(Used) /\ Cardinality(Used) \in Nat /\ Cardinality(Uncounting) \in Nat
    BY <1>0, CountRoom
  <2>2. Used' = Used \cup {s} /\ s \notin Used
    BY <1>3, <1>5, <1>7 DEF Used
  <2>3. Cardinality(Used') = Cardinality(Used) + 1
    BY <2>1, <2>2, FS_AddElement
  <2>4. Uncounting' = Uncounting
    BY <1>2 DEF Uncounting
  <2> QED
    BY <1>0, <1>2, <2>1, <2>3, <2>4 DEF Counted
<1>12. ASSUME NEW j \in Job, Made(j) PROVE Made(j)' /\ (Due(j) => Due(j)')
  <2>1. j.slot \in Slots
    BY DEF Job
  <2>2. CASE j.slot = s
    <3>1. ~(k <= MaxClients)
      BY <1>6, <1>12, <2>2 DEF Made
    <3>2. conn'[j.slot] = k
      BY <1>7, <2>1, <2>2
    <3> QED
      BY <1>2, <1>3, <1>12, <3>1, <3>2 DEF Made, Due
  <2>3. CASE j.slot # s
    <3>1. conn'[j.slot] = conn[j.slot] /\ conn[j.slot] # k /\ conn[j.slot] \in Conns
      BY <1>7, <1>8, <1>12, <2>1, <2>3 DEF Made
    <3>2. sock'[conn[j.slot]] = sock[conn[j.slot]]
      BY <1>7, <3>1
    <3> QED
      BY <1>2, <1>12, <3>1, <3>2 DEF Made, Due, Over
  <2> QED
    BY <2>2, <2>3
<1>13. Queued'
  <2> SUFFICES ASSUME NEW t \in Threads, NEW i \in DOMAIN queue[t]
               PROVE  Made(queue[t][i].job)' /\ Due(queue[t][i].job)'
    BY <1>2 DEF Queued
  <2>1. PICK j : j = queue[t][i].job
    OBVIOUS
  <2>2. j \in Job /\ Made(j) /\ Due(j)
    BY <1>0, <2>1, QueueJobs DEF Queued
  <2>3. Made(j)' /\ Due(j)'
    BY <1>12, <2>2
  <2> QED
    BY <1>2, <2>1, <2>3
<1>14. Held'
  <2> SUFFICES ASSUME NEW a \in Actors, pc[a] \notin {"idle", "loop"}
               PROVE  Made(job[a])' /\ (a # Tx => Due(job[a])')
    BY <1>2 DEF Held
  <2>1. PICK j : j = job[a]
    OBVIOUS
  <2>2. j \in Job /\ Made(j) /\ (a # Tx => Due(j))
    BY <1>0, <2>1, JobFacts DEF Held
  <2>3. Made(j)' /\ (a # Tx => Due(j)')
    BY <1>12, <2>2
  <2> QED
    BY <1>2, <2>1, <2>3
<1>15. Roles'
  <2>1. todo = <<>>
    BY <1>0, <1>2 DEF Roles
  <2> QED
    BY <1>0, <1>2, <2>1 DEF Roles
<1>16. Removing'
  <2>1. ASSUME NEW a \in Workers, pc[a] = "remove"
        PROVE  id'[job[a].slot] # 0 /\ sock'[conn'[job[a].slot]] = "closed"
    <3>1. job[a].slot \in Slots /\ id[job[a].slot] # 0 /\ sock[conn[job[a].slot]] = "closed"
          /\ conn[job[a].slot] \in Conns
      BY <1>0, <2>1, JobConn, ActorFacts DEF Removing
    <3>2. job[a].slot # s
      BY <1>5, <3>1
    <3> QED
      BY <1>7, <1>8, <3>1, <3>2
  <2> QED
    BY <1>0, <1>2, <2>1 DEF Removing
<1> QED
  BY <1>9, <1>10, <1>11, <1>13, <1>14, <1>15, <1>16 DEF Inv

-----------------------------------------------------------------------------
(***************************************************************************)
(* terminate_connection.                                                   *)
(***************************************************************************)
LEMMA CloseKeeps ==
    ASSUME Inv, NEW a \in Workers, Close(a)
    PROVE  Inv'
<1>0. TypeOK /\ Tenants /\ Counted /\ Queued /\ Held /\ Roles /\ Removing /\ a \in Actors
  BY ActorFacts DEF Inv
<1>1. PICK s, k : s = job[a].slot /\ k = conn[job[a].slot]
  OBVIOUS
<1>2. /\ pc[a] = "terminate"
      /\ UNCHANGED <<id, conn, count, accepted, sent, unread, buf, rcvd, queue, notifier, left,
                     sel, todo, txq, kills>>
  BY DEF Close, table, io
<1>3. s \in Slots /\ k \in Conns
  BY <1>0, <1>1, <1>2, JobConn
<1>a. \A c \in Conns : unread'[c] <= sent'[c]
  BY <1>0, <1>2 DEF Roles
<1>4. CASE sock[k] = "closed"
  <2>1. Back(a) /\ UNCHANGED <<sock, event>>
    BY <1>1, <1>4 DEF Close
  <2>2. PICK l \in {"idle", "loop"} : Moves(a, l, NoJob) /\ (a \notin Threads => l = "idle")
    BY <1>0, <2>1, BackMoves
  <2>3. RestOK'
    BY <1>0, <1>2, <2>1, TypeSplit DEF RestOK
  <2>4. TypeOK'
    BY <1>0, <2>2, <2>3, MovesTyped, ActorFacts DEF Labels
  <2>5. Tenants' /\ Counted' /\ Held' /\ Removing'
    BY <1>0, <1>2, <2>1, <2>2, MovesKeep DEF Fit
  <2>6. Roles'
    <3>1. a = Tx => l = "idle"
      BY <2>2, ActorFacts
    <3> QED
      BY <1>0, <1>2, <1>a, <2>1, <2>2, <3>1, WorkerRoles
  <2>7. Queued'
    BY <1>0, <1>2, <2>1, SameQueued
  <2> QED
    BY <2>4, <2>5, <2>6, <2>7 DEF Inv
<1>5. CASE sock[k] # "closed"
  <2>1. /\ sock' = [sock EXCEPT ![k] = "closed"] /\ event' = event \ {k}
        /\ pc' = [pc EXCEPT ![a] = "remove"] /\ job' = job
    BY <1>1, <1>5 DEF Close, Goto
  <2>2. /\ \A c \in Conns : sock'[c] = IF c = k THEN "closed" ELSE sock[c]
        /\ \A b \in Actors : pc'[b] = IF b = a THEN "remove" ELSE pc[b]
    BY <1>0, <2>1 DEF TypeOK
  <2>3. id[s] # 0
    BY <1>0, <1>1, <1>3, <1>5, BoundsAssumption DEF Tenants, Conns
  <2>4. TypeOK'
    <3>1. sock' \in [Conns -> {"none", "open", "hung", "closed"}] /\ event' \subseteq Conns
      BY <1>0, <2>1 DEF TypeOK
    <3>2. pc' \in [Actors -> {"idle", "loop", "read", "write", "request", "publish",
                          "signal", "terminate", "remove", "uncount"}]
      BY <1>0, <2>1 DEF TypeOK
    <3> QED
      BY <1>0, <1>2, <2>1, <3>1, <3>2 DEF TypeOK
  <2>5. \A x \in Slots : conn[x] # 0 => conn[x] \in Conns
    BY <1>0, BoundsAssumption DEF TypeOK, Conns
  <2>6. k <= accepted
    BY <1>0, <1>1, <1>3 DEF Tenants
  <2>7. Tenants'
    <3>1. \A c \in Conns : c > accepted => sock'[c] = "none"
      <4>1. ASSUME NEW c \in Conns, c > accepted PROVE sock'[c] = "none"
        <5>1. c # k
          BY <1>0, <1>3, <2>6, <4>1, BoundsAssumption DEF TypeOK, Conns
        <5> QED
          BY <1>0, <2>2, <4>1, <5>1 DEF Tenants
      <4> QED
        BY <4>1
    <3> QED
      BY <1>0, <1>2, <2>2, <2>5, <3>1 DEF Tenants
  <2>8. Counted'
    <3>1. Uncounting' = Uncounting
      BY <1>2, <2>2, ActorFacts DEF Uncounting
    <3> QED
      BY <1>0, <1>2, <3>1 DEF Counted, Used
  <2>9. \A c \in Conns : Over(c) => Over(c)'
    BY <2>2 DEF Over
  <2>10. /\ Queued'
         /\ \A j \in Job : Made(j) => Made(j)'
         /\ \A j \in Job : Made(j) /\ Due(j) => Due(j)'
    BY <1>0, <1>2, <2>9, OverKeeps
  <2>11. Held'
    <3> SUFFICES ASSUME NEW b \in Actors, pc'[b] \notin {"idle", "loop"}
                 PROVE  Made(job[b])' /\ (b # Tx => Due(job[b])')
      BY DEF Held
    <3>1. PICK j : j = job[b]
      OBVIOUS
    <3>2. j \in Job /\ Made(j) /\ (b # Tx => Due(j))
      BY <1>0, <1>2, <2>2, <3>1, JobFacts DEF Held
    <3>3. Made(j)' /\ (b # Tx => Due(j)')
      BY <2>10, <3>2
    <3> QED
      BY <2>1, <3>1, <3>3
  <2>12. Roles'
    <3>1. a # Main /\ pc'[Main] = pc[Main]
      BY <2>2, ActorFacts
    <3>2. todo # <<>> => (conn[job[Main].slot] <= MaxClients => sock'[conn[job[Main].slot]] \in {"hung", "closed"})
      <4> SUFFICES ASSUME todo # <<>>, conn[job[Main].slot] <= MaxClients
                   PROVE  sock'[conn[job[Main].slot]] \in {"hung", "closed"}
        OBVIOUS
      <4>1. pc[Main] \notin {"idle", "loop"}
        BY <1>0 DEF Roles
      <4>2. conn[job[Main].slot] \in Conns
        BY <4>1, JobConn, ActorFacts
      <4> QED
        BY <1>0, <2>2, <4>2 DEF Roles, Over
    <3>3. pc'[Tx] \in {"idle", "request", "publish", "signal", "terminate", "remove", "uncount"}
          /\ (pc'[Tx] \in {"request", "publish", "signal"} => job'[Tx].type = "WRITE")
      BY <1>0, <2>1, <2>2, ActorFacts DEF Roles
    <3>4. \A b \in Actors : /\ pc'[b] = "write" => job'[b].type = "WRITE"
                          /\ pc'[b] = "terminate" => job'[b].type = "TERMINATE"
      BY <1>0, <2>1, <2>2 DEF Roles
    <3> QED
      BY <1>0, <1>2, <1>a, <2>1, <3>1, <3>2, <3>3, <3>4 DEF Roles, Over
  <2>13. Removing'
    <3>1. ASSUME NEW b \in Workers, pc'[b] = "remove"
          PROVE  id[job[b].slot] # 0 /\ sock'[conn[job[b].slot]] = "closed"
      <4>1. CASE b = a
        BY <1>1, <1>3, <2>2, <2>3, <4>1
      <4>2. CASE b # a
        <5>1. pc[b] = "remove" /\ conn[job[b].slot] \in Conns
          BY <2>2, <3>1, <4>2, JobConn, ActorFacts
        <5> QED
          BY <1>0, <2>2, <5>1 DEF Removing
      <4> QED
        BY <4>1, <4>2
    <3>2. ASSUME NEW b \in Workers, pc[b] = "remove" PROVE job[b].slot # s
      BY <1>0, <1>1, <1>5, <3>2 DEF Removing
    <3>3. \A b \in Workers : b # a => (pc'[b] = "remove" => (pc[b] = "remove" /\ job[b].slot # s))
      BY <2>2, <3>2, ActorFacts
    <3>4. \A b, c \in Workers :
             (pc'[b] = "remove" /\ pc'[c] = "remove" /\ job[b].slot = job[c].slot) => b = c
      BY <1>0, <1>1, <3>3 DEF Removing
    <3> QED
      BY <1>2, <2>1, <3>1, <3>4 DEF Removing
  <2> QED
    BY <2>4, <2>7, <2>8, <2>10, <2>11, <2>12, <2>13 DEF Inv
<1> QED
  BY <1>4, <1>5

LEMMA RemoveKeeps ==
    ASSUME Inv, NEW a \in Workers, Remove(a)
    PROVE  Inv'
<1>0. TypeOK /\ Tenants /\ Counted /\ Queued /\ Held /\ Roles /\ Removing /\ a \in Actors
  BY ActorFacts DEF Inv
<1>1. PICK s : s = job[a].slot
  OBVIOUS
<1>2. /\ pc[a] = "remove" /\ id' = [id EXCEPT ![s] = 0] /\ pc' = [pc EXCEPT ![a] = "uncount"]
      /\ UNCHANGED <<conn, count, accepted, sock, event, sent, unread, buf, rcvd, queue, notifier, left,
                     job, sel, todo, txq, kills>>
  BY <1>1 DEF Remove, Goto, peers, io
<1>3. s \in Slots /\ id[s] # 0 /\ sock[conn[s]] = "closed"
  BY <1>0, <1>1, <1>2, JobConn DEF Removing
<1>4. /\ \A x \in Slots : id'[x] = IF x = s THEN 0 ELSE id[x]
      /\ \A b \in Actors : pc'[b] = IF b = a THEN "uncount" ELSE pc[b]
  BY <1>0, <1>2 DEF TypeOK
<1>5. TypeOK'
  <2>1. id' \in [Slots -> 0..MaxConns]
    <3>1. id \in [Slots -> 0..MaxConns] /\ 0 \in 0..MaxConns
      BY <1>0, BoundsAssumption DEF TypeOK
    <3> QED
      BY ONLY <1>2, <3>1
  <2>2. pc' \in [Actors -> {"idle", "loop", "read", "write", "request", "publish",
                        "signal", "terminate", "remove", "uncount"}]
    BY <1>0, <1>2 DEF TypeOK
  <2> QED
    BY <1>0, <1>2, <2>1, <2>2 DEF TypeOK
<1>6. Tenants'
  BY <1>0, <1>2, <1>3, <1>4 DEF Tenants
<1>7. Counted'
  <2>1. IsFiniteSet(Used) /\ Cardinality(Used) \in Nat
        /\ IsFiniteSet(Uncounting) /\ Cardinality(Uncounting) \in Nat
    BY <1>0, CountRoom
  <2>2. Used' = Used \ {s} /\ s \in Used
    BY <1>3, <1>4 DEF Used
  <2>3. Uncounting' = Uncounting \cup {a} /\ a \notin Uncounting
    <3>1. \A b \in Workers : pc'[b] = IF b = a THEN "uncount" ELSE pc[b]
      BY <1>4, ActorFacts
    <3> QED
      BY <1>2, <3>1 DEF Uncounting
  <2>4. Cardinality(Used') = Cardinality(Used) - 1
    BY <2>1, <2>2, FS_RemoveElement
  <2>5. Cardinality(Uncounting') = Cardinality(Uncounting) + 1
    BY <2>1, <2>3, FS_AddElement
  <2> QED
    BY <1>0, <1>2, <2>1, <2>4, <2>5 DEF Counted
<1>8. Queued'
  BY <1>0, <1>2, SameQueued
<1>9. Held'
  <2> SUFFICES ASSUME NEW b \in Actors, pc'[b] \notin {"idle", "loop"}
               PROVE  Made(job[b])' /\ (b # Tx => Due(job[b])')
    BY DEF Held
  <2>1. Made(job[b]) /\ (b # Tx => Due(job[b]))
    BY <1>0, <1>2, <1>4 DEF Held
  <2> QED
    BY <1>2, <2>1 DEF Made, Due, Over
<1>10. Roles'
  <2>1. pc'[Main] = pc[Main]
    BY <1>4, ActorFacts
  <2>2. pc'[Tx] \in {"idle", "request", "publish", "signal", "terminate", "remove", "uncount"}
        /\ (pc'[Tx] \in {"request", "publish", "signal"} => job'[Tx].type = "WRITE")
    BY <1>0, <1>2, <1>4, ActorFacts DEF Roles
  <2>3. \A b \in Actors : /\ pc'[b] = "write" => job'[b].type = "WRITE"
                        /\ pc'[b] = "terminate" => job'[b].type = "TERMINATE"
    BY <1>0, <1>2, <1>4 DEF Roles
  <2> QED
    BY <1>0, <1>2, <2>1, <2>2, <2>3 DEF Roles, Over
<1>11. Removing'
  <2>1. ASSUME NEW b \in Workers, pc'[b] = "remove"
        PROVE  pc[b] = "remove" /\ id'[job[b].slot] # 0 /\ sock[conn[job[b].slot]] = "closed"
    <3>1. pc[b] = "remove" /\ b # a
      BY <1>4, <2>1, ActorFacts
    <3>2. job[b].slot # s /\ id[job[b].slot] # 0 /\ sock[conn[job[b].slot]] = "closed"
      BY <1>0, <1>1, <1>2, <3>1 DEF Removing
    <3>3. job[b].slot \in Slots
      BY <3>1, JobConn, ActorFacts
    <3> QED
      BY <1>4, <3>1, <3>2, <3>3
  <2> QED
    BY <1>0, <1>2, <2>1 DEF Removing
<1> QED
  BY <1>5, <1>6, <1>7, <1>8, <1>9, <1>10, <1>11 DEF Inv

LEMMA UncountKeeps ==
    ASSUME Inv, NEW a \in Workers, Uncount(a)
    PROVE  Inv'
<1>0. TypeOK /\ Tenants /\ Counted /\ Queued /\ Held /\ Roles /\ Removing /\ a \in Actors
  BY ActorFacts DEF Inv
<1>1. /\ pc[a] = "uncount" /\ count' = count - 1 /\ Back(a)
      /\ UNCHANGED <<id, conn, accepted, sock, event, sent, unread, buf, rcvd, queue, notifier, left,
                     sel, todo, txq, kills>>
  BY DEF Uncount, peers, io
<1>2. PICK l \in {"idle", "loop"} : Moves(a, l, NoJob) /\ (a \notin Threads => l = "idle")
  BY <1>0, <1>1, BackMoves
<1>3. /\ pc'[a] = l /\ job'[a] = NoJob
      /\ \A b \in Actors : b # a => pc'[b] = pc[b] /\ job'[b] = job[b]
  BY <1>0, <1>2, MovesAre
<1>4. IsFiniteSet(Used) /\ Cardinality(Used) \in Nat
      /\ IsFiniteSet(Uncounting) /\ Cardinality(Uncounting) \in Nat
  BY <1>0, CountRoom
<1>5. Uncounting' = Uncounting \ {a} /\ a \in Uncounting
  <2>1. \A b \in Workers : pc'[b] = IF b = a THEN l ELSE pc[b]
    BY <1>3, ActorFacts
  <2> QED
    BY <1>1, <2>1 DEF Uncounting
<1>6. Cardinality(Uncounting') = Cardinality(Uncounting) - 1 /\ IsFiniteSet(Uncounting')
  BY <1>4, <1>5, FS_RemoveElement
<1>7. Cardinality(Uncounting') \in Nat
  BY <1>6, FS_CardinalityType
<1>8. Used' = Used
  BY <1>1 DEF Used
<1>9. Counted'
  BY <1>0, <1>1, <1>4, <1>6, <1>8 DEF Counted
<1>10. count' \in 0..MaxClients
  <2>1. count' \in Nat
    BY <1>4, <1>7, <1>8, <1>9 DEF Counted
  <2> QED
    BY <1>0, <1>1, <2>1, SizesAssumption DEF TypeOK
<1>11. RestOK'
  BY <1>0, <1>1, <1>10, TypeSplit DEF RestOK
<1>12. TypeOK'
  BY <1>0, <1>2, <1>11, MovesTyped, ActorFacts DEF Labels
<1>13. Tenants' /\ Queued'
  BY <1>0, <1>1, SameTenants, SameQueued
<1>14. Held'
  <2> SUFFICES ASSUME NEW b \in Actors, pc'[b] \notin {"idle", "loop"}
               PROVE  Made(job[b])' /\ (b # Tx => Due(job[b])')
    BY DEF Held
  <2>1. Made(job[b]) /\ (b # Tx => Due(job[b])) /\ job'[b] = job[b]
    BY <1>0, <1>3 DEF Held
  <2> QED
    BY <1>1, <2>1 DEF Made, Due, Over
<1>15. Roles'
  <2>1. a = Tx => l = "idle"
    BY <1>2, ActorFacts
  <2>2. \A c \in Conns : unread'[c] <= sent'[c]
    BY <1>0, <1>1 DEF Roles
  <2> QED
    BY <1>0, <1>1, <1>2, <2>1, <2>2, WorkerRoles
<1>16. Removing'
  <2>1. \A b \in Workers : pc'[b] = "remove" => (pc[b] = "remove" /\ job'[b] = job[b])
    BY <1>3, ActorFacts
  <2> QED
    BY <1>0, <1>1, <2>1 DEF Removing
<1> QED
  BY <1>9, <1>12, <1>13, <1>14, <1>15, <1>16 DEF Inv

-----------------------------------------------------------------------------
(***************************************************************************)
(* The transaction thread.                                                 *)
(***************************************************************************)
LEMMA KillKeeps ==
    ASSUME Inv, NEW s \in Slots, Kill(s)
    PROVE  Inv'
<1>0. /\ TypeOK /\ Tenants /\ Counted /\ Queued /\ Held /\ Roles /\ Removing
      /\ Tx \in Actors /\ Tx \in Workers
  BY ActorFacts DEF Inv
<1>1. /\ pc[Tx] = "idle" /\ kills < MaxKills /\ id[s] # 0 /\ kills' = kills + 1
      /\ UNCHANGED <<id, conn, count, accepted, sock, event, sent, unread, buf, rcvd, queue, notifier, left,
                     sel, todo, txq>>
  BY DEF Kill, table, peers, io
<1>2. PICK j : j = [type |-> "TERMINATE", slot |-> s, of |-> id[s]]
  OBVIOUS
<1>3. Moves(Tx, "terminate", j)
  BY <1>2 DEF Kill, Goto, Moves
<1>4. j \in Job /\ j.slot = s /\ j.of = id[s] /\ j.type = "TERMINATE"
  BY <1>0, <1>2 DEF TypeOK, Job, Types
<1>5. Made(j)
  BY <1>0, <1>1, <1>4 DEF Made, Tenants
<1>6. kills' \in 0..MaxKills
  BY <1>0, <1>1, BoundsAssumption DEF TypeOK
<1>7. RestOK'
  BY <1>0, <1>1, <1>6, TypeSplit DEF RestOK
<1>8. TypeOK'
  BY <1>0, <1>3, <1>4, <1>7, MovesTyped DEF Labels
<1>9. Tenants' /\ Counted' /\ Held' /\ Removing'
  BY <1>0, <1>1, <1>3, <1>5, MovesKeep DEF Fit
<1>10. Roles'
  <2>1. \A c \in Conns : unread'[c] <= sent'[c]
    BY <1>0, <1>1 DEF Roles
  <2> QED
    BY <1>0, <1>1, <1>3, <1>4, <2>1, WorkerRoles
<1>11. Queued'
  BY <1>0, <1>1, SameQueued
<1> QED
  BY <1>8, <1>9, <1>10, <1>11 DEF Inv

LEMMA CmdIsNot ==
    ASSUME NEW c \in Cmd
    PROVE  c # NoCmd
  BY BoundsAssumption DEF Cmd, NoCmd, Conns

LEMMA ExecuteKeeps ==
    ASSUME Inv, Execute
    PROVE  Inv'
<1>0. /\ TypeOK /\ Tenants /\ Counted /\ Queued /\ Held /\ Roles /\ Removing
      /\ Tx \in Actors /\ Tx \in Workers
  BY ActorFacts DEF Inv
<1>1. /\ pc[Tx] = "idle" /\ txq # <<>> /\ txq' = Tail(txq)
      /\ UNCHANGED <<id, conn, count, accepted, sock, event, sent, unread, rcvd, queue, notifier, left,
                     sel, todo, kills>>
  BY DEF Execute, table, peers, io
<1>2. PICK E, c : E = [slot : Slots, cmd : Cmd] /\ c = Head(txq)
  OBVIOUS
<1>3. txq \in Seq(E)
  BY <1>0, <1>2 DEF TypeOK
<1>4. c \in E /\ txq' \in Seq(E)
  BY <1>1, <1>2, <1>3, QueueHead
<1>5. c.slot \in Slots /\ c.cmd \in Cmd
  BY <1>2, <1>4
<1>6. \A x \in Conns : unread'[x] <= sent'[x]
  BY <1>0, <1>1 DEF Roles
<1>7. CASE id[c.slot] = 0
  <2>1. UNCHANGED <<buf, pc, job>>
    BY <1>2, <1>7 DEF Execute
  <2>2. TypeOK'
    BY <1>0, <1>1, <1>2, <1>4, <2>1 DEF TypeOK
  <2>3. Tenants' /\ Queued'
    BY <1>0, <1>1, <2>1, SameTenants, SameQueued
  <2>4. Counted' /\ Removing'
    BY <1>0, <1>1, <2>1 DEF Counted, Used, Uncounting, Removing
  <2>5. Held'
    BY <1>0, <1>1, <2>1 DEF Held, Made, Due, Over
  <2>6. Roles'
    BY <1>0, <1>1, <2>1 DEF Roles, Over
  <2> QED
    BY <2>2, <2>3, <2>4, <2>5, <2>6 DEF Inv
<1>8. CASE id[c.slot] # 0
  <2>1. PICK k, j : k = conn[c.slot] /\ j = [type |-> "WRITE", slot |-> c.slot, of |-> conn[c.slot]]
    OBVIOUS
  <2>2. buf' = [buf EXCEPT ![k] = c.cmd] /\ Moves(Tx, "request", j)
    BY <1>2, <1>8, <2>1 DEF Execute, Ask, Goto, Moves
  <2>3. k \in Conns /\ k # 0 /\ k = id[c.slot]
    BY <1>0, <1>5, <1>8, <2>1, BoundsAssumption DEF TypeOK, Tenants, Conns
  <2>4. \A x \in Conns : buf'[x] = IF x = k THEN c.cmd ELSE buf[x]
    BY <1>0, <2>2 DEF TypeOK
  <2>5. c.cmd # NoCmd
    BY <1>5, CmdIsNot
  <2>6. ASSUME NEW i \in Job, Made(i) PROVE Made(i)' /\ (Due(i) => Due(i)')
    <3>1. i.of \in Conns
      BY <2>6, BoundsAssumption DEF Made, Job, Conns
    <3>2. i.type = "WRITE" => buf'[i.of] # NoCmd
      BY <2>4, <2>5, <2>6, <3>1 DEF Made
    <3> QED
      BY <1>1, <2>6, <3>2 DEF Made, Due, Over
  <2>7. j \in Job /\ j.slot = c.slot /\ j.of = k /\ j.type = "WRITE"
    BY <1>5, <2>1, <2>3, BoundsAssumption DEF Job, Types, Conns
  <2>8. Made(j)'
    BY <1>1, <2>1, <2>3, <2>4, <2>5, <2>7 DEF Made
  <2>9. /\ pc'[Tx] = "request" /\ job'[Tx] = j
        /\ \A b \in Actors : b # Tx => pc'[b] = pc[b] /\ job'[b] = job[b]
    BY <1>0, <2>2, MovesAre
  <2>10. buf' \in [Conns -> Cmd \cup {NoCmd}]
    BY <1>0, <1>5, <2>2 DEF TypeOK
  <2>11. RestOK'
    BY <1>0, <1>1, <1>2, <1>4, <2>10, TypeSplit DEF RestOK
  <2>12. TypeOK'
    BY <1>0, <2>2, <2>7, <2>11, MovesTyped DEF Labels
  <2>13. Tenants'
    BY <1>0, <1>1, SameTenants
  <2>14. Counted'
    <3>1. \A b \in Workers : pc'[b] = "uncount" <=> pc[b] = "uncount"
      BY <1>1, <2>9, ActorFacts
    <3>2. Uncounting' = Uncounting
      BY <3>1 DEF Uncounting
    <3> QED
      BY <1>0, <1>1, <3>2 DEF Counted, Used
  <2>15. Queued'
    <3> SUFFICES ASSUME NEW t \in Threads, NEW i \in DOMAIN queue[t]
                 PROVE  Made(queue[t][i].job)' /\ Due(queue[t][i].job)'
      BY <1>1 DEF Queued
    <3>1. PICK h : h = queue[t][i].job
      OBVIOUS
    <3>2. h \in Job /\ Made(h) /\ Due(h)
      BY <1>0, <3>1, QueueJobs DEF Queued
    <3>3. Made(h)' /\ Due(h)'
      BY <2>6, <3>2
    <3> QED
      BY <1>1, <3>1, <3>3
  <2>16. Held'
    <3> SUFFICES ASSUME NEW b \in Actors, pc'[b] \notin {"idle", "loop"}
                 PROVE  Made(job[b])' /\ (b # Tx => Due(job[b])')
      BY DEF Held
    <3>1. CASE b = Tx
      BY <2>8, <2>9, <3>1
    <3>2. CASE b # Tx
      <4>1. PICK h : h = job[b]
        OBVIOUS
      <4>2. h \in Job /\ Made(h) /\ Due(h) /\ job'[b] = h
        BY <1>0, <2>9, <3>2, <4>1, JobFacts DEF Held
      <4>3. Made(h)' /\ Due(h)'
        BY <2>6, <4>2
      <4> QED
        BY <4>2, <4>3
    <3> QED
      BY <3>1, <3>2
  <2>17. Roles'
    BY <1>0, <1>1, <1>6, <2>2, <2>7, WorkerRoles
  <2>18. Removing'
    <3>1. \A b \in Workers : pc'[b] = "remove" => (pc[b] = "remove" /\ job'[b] = job[b])
      BY <2>9, ActorFacts
    <3> QED
      BY <1>0, <1>1, <3>1 DEF Removing
  <2> QED
    BY <2>12, <2>13, <2>14, <2>15, <2>16, <2>17, <2>18 DEF Inv
<1> QED
  BY <1>7, <1>8
-----------------------------------------------------------------------------
LEMMA InitKeeps ==
    ASSUME Init
    PROVE  Inv
<1>1. MaxClients \in Nat \ {0} /\ NThreads \in Nat \ {0} /\ QueueSize \in Nat \ {0} /\ MaxConns \in Nat
      /\ MaxKills \in Nat
  BY SizesAssumption, BoundsAssumption
<1>2. TypeOK
  <2>1. id \in [Slots -> 0..MaxConns] /\ conn \in [Slots -> 0..MaxConns]
    BY <1>1 DEF Init
  <2>2. count \in 0..MaxClients /\ accepted \in 0..MaxConns /\ kills \in 0..MaxKills
    BY <1>1 DEF Init
  <2>3. /\ sock \in [Conns -> {"none", "open", "hung", "closed"}] /\ event \subseteq Conns
        /\ sent \in [Conns -> Nat] /\ unread \in [Conns -> Nat]
        /\ buf \in [Conns -> Cmd \cup {NoCmd}]
    BY DEF Init
  <2>4. rcvd \in [Conns -> Seq(Cmd)]
    BY DEF Init
  <2>5. queue \in [Threads -> Seq([job : Job, by : Actors \cup {Published}])]
    BY DEF Init
  <2>6. \A t \in Threads : Len(queue[t]) <= QueueSize
    BY <1>1 DEF Init
  <2>7. notifier \in [Threads -> Nat] /\ left \in [Threads -> Nat]
    BY DEF Init
  <2>8. pc \in [Actors -> {"idle", "loop", "read", "write", "request", "publish",
                           "signal", "terminate", "remove", "uncount"}]
    BY DEF Init
  <2>9. job \in [Actors -> Job] /\ sel \in [Actors -> Threads]
    BY ActorFacts DEF Init
  <2>10. todo \in Seq(Types) /\ txq \in Seq([slot : Slots, cmd : Cmd])
    BY DEF Init
  <2> QED
    BY <2>1, <2>2, <2>3, <2>4, <2>5, <2>6, <2>7, <2>8, <2>9, <2>10 DEF TypeOK
<1>3. Tenants
  BY <1>1 DEF Init, Tenants
<1>4. Counted
  <2>1. Used = {}
    BY DEF Init, Used
  <2>2. Uncounting = {}
    BY ActorFacts DEF Init, Uncounting
  <2>3. Cardinality(Used) = 0 /\ Cardinality(Uncounting) = 0
    BY <2>1, <2>2, FS_EmptySet
  <2> QED
    BY <2>3 DEF Init, Counted
<1>5. Queued
  BY DEF Init, Queued
<1>6. Held
  BY DEF Init, Held
<1>7. Roles
  BY ActorFacts DEF Init, Roles
<1>8. Removing
  BY ActorFacts DEF Init, Removing
<1> QED
  BY <1>2, <1>3, <1>4, <1>5, <1>6, <1>7, <1>8 DEF Inv

LEMMA StutterKeeps ==
    ASSUME Inv, UNCHANGED vars
    PROVE  Inv'
<1>1. UNCHANGED <<id, conn, count, accepted, sock, event, sent, unread, buf, rcvd, queue, notifier, left,
                  pc, job, sel, todo, txq, kills>>
  BY DEF vars, table, peers, io
<1>2. TypeOK'
  BY <1>1 DEF Inv, TypeOK
<1>3. Tenants'
  BY <1>1, SameTenants DEF Inv
<1>4. Counted'
  BY <1>1 DEF Inv, Counted, Used, Uncounting
<1>5. Queued'
  BY <1>1 DEF Inv, Queued, Made, Due, Over
<1>6. Held'
  BY <1>1 DEF Inv, Held, Made, Due, Over
<1>7. Roles'
  BY <1>1 DEF Inv, Roles, Over
<1>8. Removing'
  BY <1>1 DEF Inv, Removing
<1> QED
  BY <1>2, <1>3, <1>4, <1>5, <1>6, <1>7, <1>8 DEF Inv

LEMMA CallsKeep ==
    ASSUME Inv, NEW a \in Actors, Calls(a)
    PROVE  Inv'
  BY RequestGoneKeeps, RequestKeeps, PublishKeeps, SignalKeeps DEF Calls

LEMMA EndsKeep ==
    ASSUME Inv, NEW a \in Workers, Ends(a)
    PROVE  Inv'
  BY CloseKeeps, RemoveKeeps, UncountKeeps DEF Ends

LEMMA NextKeeps ==
    ASSUME Inv, Fed, [Next]_vars
    PROVE  Inv'
<1>1. CASE \E k \in Conns : PeerSend(k) \/ PeerHangUp(k)
  BY <1>1, PeerSendKeeps, PeerHangUpKeeps
<1>2. CASE \E s \in Slots : Kill(s)
  BY <1>2, KillKeeps
<1>3. CASE Accept
  BY <1>3, AcceptKeeps
<1>4. CASE MainStep
  BY <1>4, TakeEventKeeps, CallsKeep, ActorFacts DEF MainStep
<1>5. CASE TxStep
  BY <1>5, ExecuteKeeps, CallsKeep, EndsKeep, ActorFacts DEF TxStep
<1>6. CASE \E t \in Threads : IOStep(t)
  <2>1. PICK t \in Threads : IOStep(t)
    BY <1>6
  <2>2. t \in Workers /\ t \in Actors
    BY ActorFacts
  <2> QED
    BY <2>1, <2>2, ConsumeKeeps, EndLoopKeeps, CatchKeeps, ReadKeepsInv, WriteKeeps, CallsKeep, EndsKeep
       DEF IOStep
<1>7. CASE UNCHANGED vars
  BY <1>7, StutterKeeps
<1> QED
  BY <1>1, <1>2, <1>3, <1>4, <1>5, <1>6, <1>7 DEF Next

-----------------------------------------------------------------------------
(***************************************************************************)
(* Responses.  Where the one command of a connection is that its peer waits *)
(* for: w tells the kind of place, a and b the index there.                *)
(***************************************************************************)
Waits(k) == Len(rcvd[k]) + 1 = sent[k]
Ready(k) == Waits(k) /\ buf[k] = <<k, sent[k]>>
Writes(j, k) == j.type = "WRITE" /\ conn[j.slot] = k

Only(k, w, a, b) ==
    /\ unread[k] # 0 => w = "socket" /\ unread[k] = 1 /\ Waits(k)
    /\ \A i \in DOMAIN txq : conn[txq[i].slot] = k =>
          w = "txq" /\ a = i /\ txq[i].cmd = <<k, sent[k]>> /\ Waits(k)
    /\ (pc[Tx] = "request" /\ conn[job[Tx].slot] = k) => w = "tx" /\ Ready(k)
    /\ \A t \in Threads : \A i \in DOMAIN queue[t] :
          Writes(queue[t][i].job, k) => w = "queue" /\ a = t /\ b = i /\ Ready(k)
    /\ \A t \in Threads :
          (pc[t] = "write" /\ conn[job[t].slot] = k) => w = "thread" /\ a = t /\ Ready(k)

Kinds == {"socket", "txq", "tx", "queue", "thread"}
Tracked(k) == sock[k] = "open" => \E w \in Kinds, a \in Int, b \in Int : Only(k, w, a, b)

Serving == \A k \in Conns : k <= MaxClients => OwnResponses(k) /\ Tracked(k)

\* Commands come from connections that were accepted, WRITE jobs from the
\* transaction thread.
Origins ==
    /\ \A i \in DOMAIN txq : conn[txq[i].slot] # 0
    /\ \A a \in Actors : (a # Tx /\ pc[a] = "request") => job[a].type # "WRITE"
    /\ \A k \in Conns : k > accepted => unread[k] = 0

SInv == Inv /\ Serving /\ Origins

-----------------------------------------------------------------------------
(***************************************************************************)
(* Steps that bring no response on its way.                                *)
(***************************************************************************)
NoNewWrites ==
    /\ pc'[Tx] = "request" => pc[Tx] = "request" /\ job'[Tx] = job[Tx]
    /\ \A t \in Threads : pc'[t] = "write" => pc[t] = "write" /\ job'[t] = job[t]
    /\ \A a \in Actors : (a # Tx /\ pc'[a] = "request") => job'[a].type # "WRITE"

NoNewJobs ==
    \A t \in Threads : \A i \in DOMAIN queue'[t] :
        queue'[t][i].job.type = "WRITE" => i \in DOMAIN queue[t] /\ queue[t][i].job = queue'[t][i].job

LEMMA MoveWrites ==
    ASSUME TypeOK, Origins, NEW a \in Actors, NEW l, NEW j, Moves(a, l, j),
           l # "write", l = "request" => (a # Tx /\ j.type # "WRITE")
    PROVE  NoNewWrites
<1>1. /\ pc'[a] = l /\ job'[a] = j
      /\ \A b \in Actors : b # a => pc'[b] = pc[b] /\ job'[b] = job[b]
  BY MovesAre
<1>2. pc'[Tx] = "request" => pc[Tx] = "request" /\ job'[Tx] = job[Tx]
  BY <1>1, ActorFacts
<1>3. \A t \in Threads : pc'[t] = "write" => pc[t] = "write" /\ job'[t] = job[t]
  BY <1>1, ActorFacts
<1>4. \A b \in Actors : (b # Tx /\ pc'[b] = "request") => job'[b].type # "WRITE"
  BY <1>1 DEF Origins
<1> QED
  BY <1>2, <1>3, <1>4 DEF NoNewWrites

LEMMA BackWrites ==
    ASSUME TypeOK, Origins, NEW a \in Actors, Back(a)
    PROVE  NoNewWrites
<1>1. PICK l \in {"idle", "loop"} : Moves(a, l, NoJob)
  BY BackMoves
<1> QED
  BY <1>1, MoveWrites

LEMMA OnlyStays ==
    ASSUME NEW k, NEW w, NEW a, NEW b, Only(k, w, a, b), UNCHANGED <<conn, txq>>,
           rcvd'[k] = rcvd[k], sent'[k] = sent[k], buf'[k] = buf[k],
           unread'[k] = unread[k] \/ unread'[k] = 0, NoNewWrites, NoNewJobs
    PROVE  Only(k, w, a, b)'
<1>1. Waits(k) => Waits(k)'
  BY DEF Waits
<1>2. Ready(k) => Ready(k)'
  BY <1>1 DEF Ready
<1>3. unread'[k] # 0 => w = "socket" /\ unread'[k] = 1 /\ Waits(k)'
  BY <1>1 DEF Only
<1>4. \A i \in DOMAIN txq' : conn'[txq'[i].slot] = k =>
          w = "txq" /\ a = i /\ txq'[i].cmd = <<k, sent'[k]>> /\ Waits(k)'
  BY <1>1 DEF Only
<1>5. (pc'[Tx] = "request" /\ conn'[job'[Tx].slot] = k) => w = "tx" /\ Ready(k)'
  BY <1>2 DEF Only, NoNewWrites
<1>6. ASSUME NEW t \in Threads, NEW i \in DOMAIN queue'[t],
             queue'[t][i].job.type = "WRITE" /\ conn'[queue'[t][i].job.slot] = k
      PROVE  w = "queue" /\ a = t /\ b = i /\ Ready(k)'
  <2>1. i \in DOMAIN queue[t] /\ queue[t][i].job = queue'[t][i].job
    BY <1>6 DEF NoNewJobs
  <2>2. Writes(queue[t][i].job, k)
    BY <1>6, <2>1 DEF Writes
  <2> QED
    BY <1>2, <2>1, <2>2 DEF Only
<1>7. \A t \in Threads :
          (pc'[t] = "write" /\ conn'[job'[t].slot] = k) => w = "thread" /\ a = t /\ Ready(k)'
  BY <1>2 DEF Only, NoNewWrites
<1> QED
  BY <1>3, <1>4, <1>5, <1>6, <1>7 DEF Only, Writes

LEMMA QuietServes ==
    ASSUME Serving, Origins, UNCHANGED <<conn, accepted, buf, rcvd, sent, unread, txq>>,
           \A k \in Conns : sock'[k] = "open" => sock[k] = "open", NoNewWrites, NoNewJobs
    PROVE  Serving' /\ Origins'
<1>1. ASSUME NEW k \in Conns, k <= MaxClients PROVE OwnResponses(k)' /\ Tracked(k)'
  <2>1. OwnResponses(k)'
    BY <1>1 DEF Serving, OwnResponses
  <2>2. ASSUME sock'[k] = "open" PROVE \E w \in Kinds, a \in Int, b \in Int : Only(k, w, a, b)'
    <3>1. PICK w \in Kinds, a \in Int, b \in Int : Only(k, w, a, b)
      BY <1>1, <2>2 DEF Serving, Tracked
    <3>2. Only(k, w, a, b)'
      BY <3>1, OnlyStays
    <3> QED
      BY <3>2
  <2> QED
    BY <2>1, <2>2 DEF Tracked
<1>2. Serving'
  BY <1>1 DEF Serving
<1>3. Origins'
  BY DEF Origins, NoNewWrites
<1> QED
  BY <1>2, <1>3

\* One actor moves, and no job is added.
LEMMA QuietMoves ==
    ASSUME SInv, NoNewWrites, UNCHANGED <<conn, accepted, buf, rcvd, sent, unread, txq, queue>>,
           \A k \in Conns : sock'[k] = "open" => sock[k] = "open"
    PROVE  Serving' /\ Origins'
<1>1. NoNewJobs
  BY DEF NoNewJobs
<1> QED
  BY <1>1, QuietServes DEF SInv

LEMMA DoneWrites ==
    ASSUME SInv, NEW a \in Actors, Done(a)
    PROVE  NoNewWrites
<1>0. TypeOK /\ Roles /\ Origins
  BY DEF SInv, Inv
<1>1. CASE a = Main /\ todo # <<>>
  <2>1. todo = <<"TERMINATE">>
    BY <1>0, <1>1 DEF Roles
  <2>2. PICK j : j = [job[a] EXCEPT !.type = "TERMINATE"]
    OBVIOUS
  <2>3. Moves(a, "request", j)
    BY <1>1, <2>1, <2>2 DEF Done, Ask, Goto, Moves
  <2>4. j.type = "TERMINATE" /\ a # Tx
    BY <1>0, <1>1, <2>2, JobFacts, ActorFacts DEF Job
  <2> QED
    BY <1>0, <2>3, <2>4, MoveWrites
<1>2. CASE ~(a = Main /\ todo # <<>>)
  <2>1. Back(a)
    BY <1>2 DEF Done
  <2> QED
    BY <1>0, <2>1, BackWrites
<1> QED
  BY <1>1, <1>2

LEMMA QuietCalls ==
    ASSUME SInv, NEW a \in Actors, RequestGone(a) \/ Signal(a)
    PROVE  Serving' /\ Origins'
<1>1. Done(a) /\ UNCHANGED <<conn, accepted, sock, buf, rcvd, sent, unread, txq, queue>>
  BY DEF RequestGone, Signal, table, peers, io
<1>2. NoNewWrites
  BY <1>1, DoneWrites
<1> QED
  BY <1>1, <1>2, QuietMoves

\* Publishing a job changes none.
LEMMA PublishedJobs ==
    ASSUME TypeOK, NEW a \in Actors, Publish(a)
    PROVE  \A t \in Threads : \A i \in DOMAIN queue'[t] :
              i \in DOMAIN queue[t] /\ queue[t][i].job = queue'[t][i].job
<1> SUFFICES ASSUME NEW t \in Threads, NEW i \in DOMAIN queue'[t]
             PROVE  i \in DOMAIN queue[t] /\ queue[t][i].job = queue'[t][i].job
  OBVIOUS
<1>1. PICK q : q = [h \in DOMAIN queue[sel[a]] |-> IF queue[sel[a]][h].by = a
                      THEN [queue[sel[a]][h] EXCEPT !.by = Published] ELSE queue[sel[a]][h]]
  OBVIOUS
<1>2. queue' = [queue EXCEPT ![sel[a]] = q]
  BY <1>1 DEF Publish
<1>3. CASE t = sel[a]
  <2>1. queue'[t] = q
    BY <1>2, <1>3 DEF TypeOK
  <2>2. i \in DOMAIN queue[t]
    BY <1>1, <1>3, <2>1
  <2>3. queue[t][i] \in [job : Job, by : Actors \cup {Published}]
    <3>1. PICK E, o : E = [job : Job, by : Actors \cup {Published}] /\ o = queue[t]
      OBVIOUS
    <3>2. o \in Seq(E) /\ i \in DOMAIN o
      BY <2>2, <3>1 DEF TypeOK
    <3>3. o[i] \in E
      BY ONLY <3>2
    <3> QED
      BY <3>1, <3>3
  <2>4. q[i] = IF queue[t][i].by = a THEN [queue[t][i] EXCEPT !.by = Published] ELSE queue[t][i]
    BY <1>1, <1>3, <2>2
  <2>5. q[i].job = queue[t][i].job
    BY <2>3, <2>4
  <2> QED
    BY <2>1, <2>2, <2>5
<1>4. CASE t # sel[a]
  <2>1. queue'[t] = queue[t]
    BY <1>2, <1>4 DEF TypeOK
  <2> QED
    BY <2>1
<1> QED
  BY <1>3, <1>4

LEMMA QuietPublish ==
    ASSUME SInv, NEW a \in Actors, Publish(a)
    PROVE  Serving' /\ Origins'
<1>0. TypeOK /\ Serving /\ Origins
  BY DEF SInv, Inv
<1>1. /\ pc' = [pc EXCEPT ![a] = "signal"]
      /\ UNCHANGED <<conn, accepted, sock, buf, rcvd, sent, unread, txq, job>>
  BY DEF Publish, table, peers, Goto
<1>2. Moves(a, "signal", job[a])
  BY <1>0, <1>1 DEF Moves, TypeOK
<1>3. NoNewWrites
  BY <1>0, <1>2, MoveWrites
<1>4. NoNewJobs
  BY <1>0, PublishedJobs DEF NoNewJobs
<1> QED
  BY <1>0, <1>1, <1>3, <1>4, QuietServes

LEMMA QuietThreads ==
    ASSUME SInv, NEW t \in Threads, Consume(t) \/ EndLoop(t)
    PROVE  Serving' /\ Origins'
<1>0. TypeOK /\ Origins /\ t \in Actors
  BY ActorFacts DEF SInv, Inv
<1>1. PICK l \in {"idle", "loop"} : pc' = [pc EXCEPT ![t] = l]
  BY DEF Consume, EndLoop, Goto
<1>2. UNCHANGED <<conn, accepted, sock, buf, rcvd, sent, unread, txq, queue, job>>
  BY DEF Consume, EndLoop, table, peers
<1>3. Moves(t, l, job[t])
  BY <1>0, <1>1, <1>2 DEF Moves, TypeOK
<1>4. NoNewWrites
  BY <1>0, <1>1, <1>3, MoveWrites
<1> QED
  BY <1>2, <1>4, QuietMoves

LEMMA QuietEnds ==
    ASSUME SInv, NEW a \in Workers, Ends(a)
    PROVE  Serving' /\ Origins'
<1>0. TypeOK /\ Origins /\ a \in Actors
  BY ActorFacts DEF SInv, Inv
<1>1. UNCHANGED <<conn, accepted, buf, rcvd, sent, unread, txq, queue>>
  BY DEF Ends, Close, Remove, Uncount, table, peers, io
<1>2. \A k \in Conns : sock'[k] = "open" => sock[k] = "open"
  BY <1>0 DEF Ends, Close, Remove, Uncount, peers, TypeOK
<1>3. Back(a) \/ (UNCHANGED job /\ \E l \in {"remove", "uncount"} : pc' = [pc EXCEPT ![a] = l])
  BY DEF Ends, Close, Remove, Uncount, Goto
<1>4. NoNewWrites
  <2>1. CASE Back(a)
    BY <1>0, <2>1, BackWrites
  <2>2. CASE UNCHANGED job /\ \E l \in {"remove", "uncount"} : pc' = [pc EXCEPT ![a] = l]
    <3>1. PICK l \in {"remove", "uncount"} : pc' = [pc EXCEPT ![a] = l]
      BY <2>2
    <3>2. Moves(a, l, job[a])
      BY <1>0, <2>2, <3>1 DEF Moves, TypeOK
    <3> QED
      BY <1>0, <3>1, <3>2, MoveWrites
  <2> QED
    BY <1>3, <2>1, <2>2
<1> QED
  BY <1>1, <1>2, <1>4, QuietMoves

LEMMA QuietKill ==
    ASSUME SInv, NEW s \in Slots, Kill(s)
    PROVE  Serving' /\ Origins'
<1>0. TypeOK /\ Origins /\ Tx \in Actors
  BY ActorFacts DEF SInv, Inv
<1>1. UNCHANGED <<conn, accepted, sock, buf, rcvd, sent, unread, txq, queue>>
  BY DEF Kill, table, peers, io
<1>2. PICK j : Moves(Tx, "terminate", j)
  BY DEF Kill, Goto, Moves
<1>3. NoNewWrites
  BY <1>0, <1>2, MoveWrites
<1> QED
  BY <1>1, <1>3, QuietMoves

LEMMA QuietEvents ==
    ASSUME SInv, NEW k \in Conns, PeerHangUp(k) \/ TakeEvent(k)
    PROVE  Serving' /\ Origins'
<1>0. TypeOK /\ Origins /\ Main \in Actors /\ Main # Tx
  BY ActorFacts DEF SInv, Inv
<1>1. CASE PeerHangUp(k)
  <2>1. UNCHANGED <<conn, accepted, buf, rcvd, sent, unread, txq, queue, pc, job>>
    BY <1>1 DEF PeerHangUp, table, io
  <2>2. \A c \in Conns : sock'[c] = "open" => sock[c] = "open"
    BY <1>0, <1>1 DEF PeerHangUp, TypeOK
  <2>3. NoNewWrites
    BY <1>0, <2>1 DEF NoNewWrites, Origins
  <2> QED
    BY <2>1, <2>2, <2>3, QuietMoves
<1>2. CASE TakeEvent(k)
  <2>1. UNCHANGED <<conn, accepted, sock, buf, rcvd, sent, unread, txq, queue>>
    BY <1>2 DEF TakeEvent, table, io
  <2>2. PICK s \in Slots : Ask(Main, [type |-> "READ", slot |-> s, of |-> k])
    BY <1>2 DEF TakeEvent
  <2>3. PICK j : j = [type |-> "READ", slot |-> s, of |-> k]
    OBVIOUS
  <2>4. Moves(Main, "request", j) /\ j.type # "WRITE"
    BY <2>2, <2>3 DEF Ask, Goto, Moves
  <2>5. NoNewWrites
    BY <1>0, <2>4, MoveWrites
  <2> QED
    BY <2>1, <2>5, QuietMoves
<1> QED
  BY <1>1, <1>2

LEMMA QuietRequest ==
    ASSUME SInv, NEW a \in Actors, a # Tx, Request(a)
    PROVE  Serving' /\ Origins'
<1>0. TypeOK /\ Serving /\ Origins
  BY DEF SInv, Inv
<1>1. /\ pc[a] = "request"
      /\ UNCHANGED <<conn, accepted, sock, buf, rcvd, sent, unread, txq, job>>
  BY DEF Request, table, peers
<1>2. job[a].type # "WRITE"
  BY <1>0, <1>1 DEF Origins
<1>a. PICK t : t = id[job[a].slot] % NThreads
  OBVIOUS
<1>3. PICK l \in {"publish", "signal"} :
         /\ pc' = [pc EXCEPT ![a] = l]
         /\ UNCHANGED queue \/ queue' = [queue EXCEPT ![t] = Append(@, [job |-> job[a], by |-> a])]
  <2>1. CASE Len(queue[t]) < QueueSize
    BY <1>a, <2>1 DEF Request, Goto
  <2>2. CASE ~(Len(queue[t]) < QueueSize)
    BY <1>a, <2>2 DEF Request, Goto
  <2> QED
    BY <2>1, <2>2
<1>4. Moves(a, l, job[a])
  BY <1>0, <1>1, <1>3 DEF Moves, TypeOK
<1>5. NoNewWrites
  BY <1>0, <1>3, <1>4, MoveWrites
<1>6. NoNewJobs
  <2> SUFFICES ASSUME NEW u \in Threads, NEW i \in DOMAIN queue'[u], queue'[u][i].job.type = "WRITE"
               PROVE  i \in DOMAIN queue[u] /\ queue[u][i].job = queue'[u][i].job
    BY DEF NoNewJobs
  <2>1. CASE queue'[u] = queue[u]
    BY <2>1
  <2>2. CASE queue'[u] # queue[u]
    <3>1. PICK E, q, e : /\ E = [job : Job, by : Actors \cup {Published}] /\ q = queue[u]
                         /\ e = [job |-> job[a], by |-> a]
      OBVIOUS
    <3>2. q \in Seq(E) /\ e.job.type # "WRITE"
      BY <1>0, <1>2, <3>1 DEF TypeOK
    <3>3. queue'[u] = Append(q, e)
      BY <1>0, <1>3, <2>2, <3>1 DEF TypeOK
    <3>4. i \in 1..(Len(q) + 1) /\ Append(q, e)[Len(q) + 1] = e
          /\ \A h \in 1..Len(q) : Append(q, e)[h] = q[h]
      BY <3>2, <3>3
    <3>5. i # Len(q) + 1
      BY <3>2, <3>3, <3>4
    <3>6. i \in DOMAIN q /\ q[i] = Append(q, e)[i]
      BY <3>2, <3>4, <3>5
    <3> QED
      BY <3>1, <3>3, <3>6
  <2> QED
    BY <2>1, <2>2
<1> QED
  BY <1>0, <1>1, <1>5, <1>6, QuietServes

-----------------------------------------------------------------------------
(***************************************************************************)
(* Steps that carry the command or its response on: what is at place i was *)
(* at place h before.                                                      *)
(***************************************************************************)
TxqFrom(k, w, a, w2, a2) ==
    \A i \in DOMAIN txq' : conn'[txq'[i].slot] = k =>
        \E h \in DOMAIN txq : /\ txq[h] = txq'[i] /\ conn[txq[h].slot] = k
                              /\ (w = "txq" /\ a = h) => (w2 = "txq" /\ a2 = i)

TxFrom(k, w, w2) ==
    (pc'[Tx] = "request" /\ conn'[job'[Tx].slot] = k) =>
        /\ pc[Tx] = "request" /\ conn[job[Tx].slot] = k
        /\ w = "tx" => w2 = "tx"

QueueFrom(k, w, a, b, w2, a2, b2) ==
    \A t \in Threads : \A i \in DOMAIN queue'[t] :
        (queue'[t][i].job.type = "WRITE" /\ conn'[queue'[t][i].job.slot] = k) =>
            \E h \in DOMAIN queue[t] :
                /\ Writes(queue[t][h].job, k)
                /\ (w = "queue" /\ a = t /\ b = h) => (w2 = "queue" /\ a2 = t /\ b2 = i)

ThreadFrom(k, w, a, b, w2, a2) ==
    \A t \in Threads : (pc'[t] = "write" /\ conn'[job'[t].slot] = k) =>
        \/ /\ pc[t] = "write" /\ conn[job[t].slot] = k
           /\ (w = "thread" /\ a = t) => (w2 = "thread" /\ a2 = t)
        \/ \E h \in DOMAIN queue[t] :
              /\ Writes(queue[t][h].job, k)
              /\ (w = "queue" /\ a = t /\ b = h) => (w2 = "thread" /\ a2 = t)

LEMMA OnlyCarried ==
    ASSUME NEW k, NEW w, NEW a, NEW b, NEW w2, NEW a2, NEW b2, Only(k, w, a, b),
           rcvd'[k] = rcvd[k], sent'[k] = sent[k], buf'[k] = buf[k],
           unread'[k] # 0 => (unread'[k] = unread[k] /\ (w = "socket" => w2 = "socket")),
           TxqFrom(k, w, a, w2, a2), TxFrom(k, w, w2), QueueFrom(k, w, a, b, w2, a2, b2),
           ThreadFrom(k, w, a, b, w2, a2)
    PROVE  Only(k, w2, a2, b2)'
<1>1. Waits(k) => Waits(k)'
  BY DEF Waits
<1>2. Ready(k) => Ready(k)'
  BY <1>1 DEF Ready
<1>3. unread'[k] # 0 => w2 = "socket" /\ unread'[k] = 1 /\ Waits(k)'
  BY <1>1 DEF Only
<1>4. ASSUME NEW i \in DOMAIN txq', conn'[txq'[i].slot] = k
      PROVE  w2 = "txq" /\ a2 = i /\ txq'[i].cmd = <<k, sent'[k]>> /\ Waits(k)'
  <2>1. PICK h \in DOMAIN txq : /\ txq[h] = txq'[i] /\ conn[txq[h].slot] = k
                                /\ (w = "txq" /\ a = h) => (w2 = "txq" /\ a2 = i)
    BY <1>4 DEF TxqFrom
  <2>2. w = "txq" /\ a = h /\ txq[h].cmd = <<k, sent[k]>> /\ Waits(k)
    BY <2>1 DEF Only
  <2> QED
    BY <1>1, <2>1, <2>2
<1>5. (pc'[Tx] = "request" /\ conn'[job'[Tx].slot] = k) => w2 = "tx" /\ Ready(k)'
  BY <1>2 DEF Only, TxFrom
<1>6. ASSUME NEW t \in Threads, NEW i \in DOMAIN queue'[t],
             queue'[t][i].job.type = "WRITE" /\ conn'[queue'[t][i].job.slot] = k
      PROVE  w2 = "queue" /\ a2 = t /\ b2 = i /\ Ready(k)'
  <2>1. PICK h \in DOMAIN queue[t] :
           /\ Writes(queue[t][h].job, k)
           /\ (w = "queue" /\ a = t /\ b = h) => (w2 = "queue" /\ a2 = t /\ b2 = i)
    BY <1>6 DEF QueueFrom
  <2>2. w = "queue" /\ a = t /\ b = h /\ Ready(k)
    BY <2>1 DEF Only
  <2> QED
    BY <1>2, <2>1, <2>2
<1>7. ASSUME NEW t \in Threads, pc'[t] = "write" /\ conn'[job'[t].slot] = k
      PROVE  w2 = "thread" /\ a2 = t /\ Ready(k)'
  <2>1. CASE /\ pc[t] = "write" /\ conn[job[t].slot] = k
             /\ (w = "thread" /\ a = t) => (w2 = "thread" /\ a2 = t)
    BY <1>2, <2>1 DEF Only
  <2>2. CASE \E h \in DOMAIN queue[t] :
               /\ Writes(queue[t][h].job, k)
               /\ (w = "queue" /\ a = t /\ b = h) => (w2 = "thread" /\ a2 = t)
    <3>1. PICK h \in DOMAIN queue[t] :
               /\ Writes(queue[t][h].job, k)
               /\ (w = "queue" /\ a = t /\ b = h) => (w2 = "thread" /\ a2 = t)
      BY <2>2
    <3>2. w = "queue" /\ a = t /\ b = h /\ Ready(k)
      BY <3>1 DEF Only
    <3> QED
      BY <1>2, <3>1, <3>2
  <2> QED
    BY <1>7, <2>1, <2>2 DEF ThreadFrom
<1> QED
  BY <1>3, <1>4, <1>5, <1>6, <1>7 DEF Only, Writes

\* The slots of queued jobs and commands.
LEMMA TxqSlots ==
    ASSUME TypeOK, NEW i \in DOMAIN txq
    PROVE  txq[i].slot \in Slots /\ txq[i].cmd \in Cmd
<1>1. PICK E : E = [slot : Slots, cmd : Cmd]
  OBVIOUS
<1>2. txq \in Seq(E)
  BY <1>1 DEF TypeOK
<1>3. txq[i] \in E
  BY ONLY <1>2
<1> QED
  BY <1>1, <1>3

\* The transaction thread's WRITE job enters a queue.
LEMMA TxRequestServes ==
    ASSUME SInv, Request(Tx)
    PROVE  Serving' /\ Origins'
<1>0. TypeOK /\ Serving /\ Origins /\ Tx \in Actors /\ Tx \notin Threads
  BY ActorFacts DEF SInv, Inv
<1>1. /\ pc[Tx] = "request"
      /\ UNCHANGED <<conn, accepted, sock, buf, rcvd, sent, unread, txq, job>>
  BY DEF Request, table, peers
<1>2. PICK t : t = id[job[Tx].slot] % NThreads
  OBVIOUS
<1>3. PICK l \in {"publish", "signal"} :
         /\ pc' = [pc EXCEPT ![Tx] = l]
         /\ UNCHANGED queue \/ queue' = [queue EXCEPT ![t] = Append(@, [job |-> job[Tx], by |-> Tx])]
  <2>1. CASE Len(queue[t]) < QueueSize
    BY <1>2, <2>1 DEF Request, Goto
  <2>2. CASE ~(Len(queue[t]) < QueueSize)
    BY <1>2, <2>2 DEF Request, Goto
  <2> QED
    BY <2>1, <2>2
<1>4. Moves(Tx, l, job[Tx])
  BY <1>0, <1>1, <1>3 DEF Moves, TypeOK
<1>5. NoNewWrites
  BY <1>0, <1>3, <1>4, MoveWrites
<1>6. CASE UNCHANGED queue
  BY <1>1, <1>5, <1>6, QuietMoves
<1>7. CASE queue' = [queue EXCEPT ![t] = Append(@, [job |-> job[Tx], by |-> Tx])]
  <2>1. PICK E, q, e : /\ E = [job : Job, by : Actors \cup {Published}] /\ q = queue[t]
                       /\ e = [job |-> job[Tx], by |-> Tx]
    OBVIOUS
  <2>2. t \in Threads
    <3>1. job[Tx].slot \in Slots
      BY <1>0, JobFacts
    <3>2. id[job[Tx].slot] \in 0..MaxConns
      BY <1>0, <3>1 DEF TypeOK
    <3>3. id[job[Tx].slot] \in Nat
      BY <3>2, BoundsAssumption
    <3> QED
      BY <1>2, <3>3, SelectedThread
  <2>3. q \in Seq(E) /\ e.job = job[Tx]
    BY <1>0, <2>1, <2>2 DEF TypeOK
  <2>4. queue'[t] = Append(q, e) /\ \A u \in Threads : u # t => queue'[u] = queue[u]
    BY <1>0, <1>7, <2>1, <2>2 DEF TypeOK
  <2>5. /\ DOMAIN Append(q, e) = 1..(Len(q) + 1) /\ Append(q, e)[Len(q) + 1] = e
        /\ DOMAIN q = 1..Len(q) /\ Len(q) \in Nat
        /\ \A h \in 1..Len(q) : Append(q, e)[h] = q[h]
    BY ONLY <2>3
  <2>6. /\ pc'[Tx] = l
        /\ \A b \in Actors : b # Tx => pc'[b] = pc[b] /\ job'[b] = job[b]
    BY <1>0, <1>4, MovesAre
  <2>7. ASSUME NEW k \in Conns, k <= MaxClients PROVE OwnResponses(k)' /\ Tracked(k)'
    <3>1. OwnResponses(k)'
      BY <1>0, <1>1, <2>7 DEF Serving, OwnResponses
    <3>2. ASSUME sock'[k] = "open"
          PROVE  \E w \in Kinds, a \in Int, b \in Int : Only(k, w, a, b)'
      <4>1. PICK w \in Kinds, a \in Int, b \in Int : Only(k, w, a, b)
        BY <1>0, <1>1, <2>7, <3>2 DEF Serving, Tracked
      <4>2. CASE conn[job[Tx].slot] # k
        <5>1. TxqFrom(k, w, a, w, a) /\ TxFrom(k, w, w)
          BY <1>1, <1>3, <2>6 DEF TxqFrom, TxFrom
        <5>2. ThreadFrom(k, w, a, b, w, a)
          BY <1>0, <1>1, <2>6, ActorFacts DEF ThreadFrom
        <5>3. QueueFrom(k, w, a, b, w, a, b)
          <6> SUFFICES ASSUME NEW u \in Threads, NEW i \in DOMAIN queue'[u],
                              queue'[u][i].job.type = "WRITE", conn'[queue'[u][i].job.slot] = k
                       PROVE  i \in DOMAIN queue[u] /\ Writes(queue[u][i].job, k)
            BY DEF QueueFrom
          <6>1. CASE u # t
            BY <1>1, <2>4, <6>1 DEF Writes
          <6>2. CASE u = t
            <7>1. i # Len(q) + 1
              BY <1>1, <2>3, <2>4, <2>5, <4>2, <6>2
            <7>2. i \in 1..Len(q)
              BY <2>4, <2>5, <6>2, <7>1
            <7> QED
              BY <1>1, <2>1, <2>4, <2>5, <6>2, <7>2 DEF Writes
          <6> QED
            BY <6>1, <6>2
        <5>4. Only(k, w, a, b)'
          BY <1>1, <4>1, <5>1, <5>2, <5>3, OnlyCarried
        <5> QED
          BY <5>4
      <4>3. CASE conn[job[Tx].slot] = k
        <5>1. w = "tx" /\ Ready(k)
          BY <1>1, <4>1, <4>3 DEF Only
        <5>2. PICK n : n = Len(q) + 1
          OBVIOUS
        <5>3. Ready(k)' /\ n \in Int /\ t \in Int
          BY <1>1, <2>2, <2>5, <5>1, <5>2, SizesAssumption DEF Ready, Waits, Threads
        <5>4. unread'[k] = 0 /\ \A i \in DOMAIN txq' : conn'[txq'[i].slot] # k
          BY <1>1, <4>1, <5>1 DEF Only
        <5>5. ~(pc'[Tx] = "request")
          BY <1>3, <2>6
        <5>6. ASSUME NEW u \in Threads, NEW i \in DOMAIN queue'[u],
                     queue'[u][i].job.type = "WRITE" /\ conn'[queue'[u][i].job.slot] = k
              PROVE  u = t /\ i = n
          <6>1. ASSUME i \in DOMAIN queue[u], queue[u][i] = queue'[u][i] PROVE FALSE
            BY <1>1, <4>1, <5>1, <5>6, <6>1 DEF Only, Writes
          <6>2. u = t
            BY <2>4, <5>6, <6>1
          <6>3. i \notin 1..Len(q)
            BY <2>1, <2>4, <2>5, <6>1, <6>2
          <6> QED
            BY <2>4, <2>5, <5>2, <6>2, <6>3
        <5>7. \A u \in Threads : ~(pc'[u] = "write" /\ conn'[job'[u].slot] = k)
          BY <1>0, <1>1, <2>6, <4>1, <5>1, ActorFacts DEF Only
        <5>8. PICK w2 : w2 = "queue" /\ w2 \in Kinds
          BY DEF Kinds
        <5>9. Only(k, w2, t, n)'
          BY <5>3, <5>4, <5>5, <5>6, <5>7, <5>8 DEF Only, Writes
        <5> QED
          BY <5>3, <5>8, <5>9
      <4> QED
        BY <4>2, <4>3
    <3> QED
      BY <3>1, <3>2 DEF Tracked
  <2>8. Serving'
    BY <2>7 DEF Serving
  <2>9. Origins'
    BY <1>0, <1>1, <1>5 DEF Origins, NoNewWrites
  <2> QED
    BY <2>8, <2>9
<1> QED
  BY <1>3, <1>6, <1>7

\* An I/O thread takes the first job of its queue.
LEMMA CatchServes ==
    ASSUME SInv, NEW t \in Threads, Catch(t)
    PROVE  Serving' /\ Origins'
<1>0. TypeOK /\ Serving /\ Origins /\ t \in Actors /\ t # Tx /\ Tx \in Actors
  BY ActorFacts DEF SInv, Inv
<1>1. /\ queue[t] # <<>> /\ queue' = [queue EXCEPT ![t] = Tail(@)]
      /\ UNCHANGED <<conn, accepted, sock, buf, rcvd, sent, unread, txq>>
  BY DEF Catch, table, peers, PopReady
<1>2. PICK E, q : E = [job : Job, by : Actors \cup {Published}] /\ q = queue[t]
  OBVIOUS
<1>3. q \in Seq(E) /\ q # <<>>
  BY <1>0, <1>1, <1>2 DEF TypeOK
<1>4. /\ Head(q) \in E /\ Head(q) = q[1] /\ 1 \in DOMAIN q
      /\ \A i \in DOMAIN Tail(q) : i + 1 \in DOMAIN q /\ Tail(q)[i] = q[i + 1]
      /\ DOMAIN Tail(q) \subseteq Nat \ {0}
  BY ONLY <1>3
<1>5. queue'[t] = Tail(q) /\ \A u \in Threads : u # t => queue'[u] = queue[u]
  BY <1>0, <1>1, <1>2 DEF TypeOK
<1>6. PICK j : j = Head(queue[t]).job
  OBVIOUS
<1>7. j = queue[t][1].job /\ j \in Job
  BY <1>2, <1>4, <1>6
<1>8. PICK l, j2 : Moves(t, l, j2) /\ l # "request" /\ (l = "write" => (j2 = j /\ j.type = "WRITE"))
  <2>1. CASE id[j.slot] = 0
    <3>1. Back(t)
      BY <1>6, <2>1 DEF Catch
    <3>2. PICK l \in {"idle", "loop"} : Moves(t, l, NoJob)
      BY <1>0, <3>1, BackMoves
    <3> QED
      BY <3>2
  <2>2. CASE id[j.slot] # 0
    <3>1. PICK l : l = CASE j.type = "READ" -> "read" [] j.type = "WRITE" -> "write"
                         [] j.type = "TERMINATE" -> "terminate"
      OBVIOUS
    <3>2. Moves(t, l, j)
      BY <1>6, <2>2, <3>1 DEF Catch, Goto, Moves
    <3>3. l # "request" /\ (l = "write" => j.type = "WRITE")
      BY <1>7, <3>1 DEF Job, Types
    <3> QED
      BY <3>2, <3>3
  <2> QED
    BY <2>1, <2>2
<1>9. /\ pc'[t] = l /\ job'[t] = j2
      /\ \A b \in Actors : b # t => pc'[b] = pc[b] /\ job'[b] = job[b]
  BY <1>0, <1>8, MovesAre
<1>10. ASSUME NEW k \in Conns, k <= MaxClients PROVE OwnResponses(k)' /\ Tracked(k)'
  <2>1. OwnResponses(k)'
    BY <1>0, <1>1, <1>10 DEF Serving, OwnResponses
  <2>2. ASSUME sock'[k] = "open"
        PROVE  \E w \in Kinds, a \in Int, b \in Int : Only(k, w, a, b)'
    <3>1. PICK w \in Kinds, a \in Int, b \in Int : Only(k, w, a, b)
      BY <1>0, <1>1, <1>10, <2>2 DEF Serving, Tracked
    <3>2. PICK w2 \in Kinds, b2 \in Int :
             /\ w2 = IF w = "queue" /\ a = t /\ b = 1 THEN "thread" ELSE w
             /\ b2 = IF w = "queue" /\ a = t THEN b - 1 ELSE b
      BY DEF Kinds
    <3>3. TxqFrom(k, w, a, w2, a)
      BY <1>1, <3>2 DEF TxqFrom
    <3>4. TxFrom(k, w, w2)
      BY <1>0, <1>1, <1>9, <3>2 DEF TxFrom
    <3>5. QueueFrom(k, w, a, b, w2, a, b2)
      <4> SUFFICES ASSUME NEW u \in Threads, NEW i \in DOMAIN queue'[u],
                          queue'[u][i].job.type = "WRITE", conn'[queue'[u][i].job.slot] = k
                   PROVE  \E h \in DOMAIN queue[u] :
                             /\ Writes(queue[u][h].job, k)
                             /\ (w = "queue" /\ a = u /\ b = h) => (w2 = "queue" /\ a = u /\ b2 = i)
        BY DEF QueueFrom
      <4>1. CASE u # t
        <5>1. i \in DOMAIN queue[u] /\ Writes(queue[u][i].job, k)
          BY <1>1, <1>5, <4>1 DEF Writes
        <5>2. (w = "queue" /\ a = u /\ b = i) => (w2 = "queue" /\ a = u /\ b2 = i)
          BY <3>2, <4>1
        <5> QED
          BY <5>1, <5>2
      <4>2. CASE u = t
        <5>1. i \in DOMAIN Tail(q) /\ i \in Nat \ {0} /\ i + 1 \in DOMAIN queue[u]
              /\ queue'[u][i] = queue[u][i + 1]
          BY <1>2, <1>4, <1>5, <4>2
        <5>2. Writes(queue[u][i + 1].job, k)
          BY <1>1, <5>1 DEF Writes
        <5>3. (w = "queue" /\ a = u /\ b = i + 1) => (w2 = "queue" /\ a = u /\ b2 = i)
          BY <3>2, <4>2, <5>1
        <5> QED
          BY <5>1, <5>2, <5>3
      <4> QED
        BY <4>1, <4>2
    <3>6. ThreadFrom(k, w, a, b, w2, a)
      <4>1. ASSUME NEW u \in Threads, u # t, pc'[u] = "write" /\ conn'[job'[u].slot] = k
            PROVE  /\ pc[u] = "write" /\ conn[job[u].slot] = k
                   /\ (w = "thread" /\ a = u) => (w2 = "thread" /\ a = u)
        BY <1>1, <1>9, <3>2, <4>1, ActorFacts
      <4>2. ASSUME pc'[t] = "write" /\ conn'[job'[t].slot] = k
            PROVE  \E h \in DOMAIN queue[t] :
                      /\ Writes(queue[t][h].job, k)
                      /\ (w = "queue" /\ a = t /\ b = h) => (w2 = "thread" /\ a = t)
        <5>1. Writes(queue[t][1].job, k) /\ 1 \in DOMAIN queue[t]
          BY <1>1, <1>2, <1>4, <1>7, <1>8, <1>9, <4>2 DEF Writes
        <5> QED
          BY <3>2, <5>1
      <4> QED
        BY <4>1, <4>2 DEF ThreadFrom
    <3>7. unread'[k] # 0 => (unread'[k] = unread[k] /\ (w = "socket" => w2 = "socket"))
      BY <1>1, <3>2
    <3>8. Only(k, w2, a, b2)'
      BY <1>1, <3>1, <3>3, <3>4, <3>5, <3>6, <3>7, OnlyCarried
    <3> QED
      BY <3>2, <3>8
  <2> QED
    BY <2>1, <2>2 DEF Tracked
<1>11. Serving'
  BY <1>10 DEF Serving
<1>12. Origins'
  <2>1. \A a \in Actors : (a # Tx /\ pc'[a] = "request") => job'[a].type # "WRITE"
    BY <1>0, <1>8, <1>9 DEF Origins
  <2> QED
    BY <1>0, <1>1, <2>1 DEF Origins
<1> QED
  BY <1>11, <1>12

\* An I/O thread reads what the socket holds.
LEMMA WaitingOne ==
    ASSUME Inv, NEW s \in Slots, NEW k \in Conns, NEW w, w = txq \o Waiting(s, k)
    PROVE  /\ \A i \in DOMAIN txq : i \in DOMAIN w /\ w[i] = txq[i]
           /\ \A i \in DOMAIN w : i \notin DOMAIN txq => w[i].slot = s
           /\ unread[k] = 0 => DOMAIN w = DOMAIN txq
           /\ unread[k] = 1 =>
                 /\ \A i \in DOMAIN w : i \notin DOMAIN txq => i = Len(txq) + 1
                 /\ \A i \in DOMAIN w : i \notin DOMAIN txq => w[i].cmd = <<k, sent[k]>>
<1>1. PICK E, v : E = [slot : Slots, cmd : Cmd] /\ v = Waiting(s, k)
  OBVIOUS
<1>2. txq \in Seq(E) /\ v \in Seq(E) /\ w = txq \o v /\ Len(v) = unread[k]
  BY <1>1, WaitingTyped DEF Inv, TypeOK
<1>3. /\ Len(txq) \in Nat /\ Len(v) \in Nat /\ DOMAIN txq = 1..Len(txq)
      /\ DOMAIN w = 1..(Len(txq) + Len(v))
      /\ \A i \in 1..Len(txq) : w[i] = txq[i]
      /\ \A i \in (Len(txq) + 1)..(Len(txq) + Len(v)) : w[i] = v[i - Len(txq)]
  BY ONLY <1>2
<1>4. sent[k] \in Nat /\ unread[k] \in Nat
  BY DEF Inv, TypeOK
<1>5. \A i \in 1..unread[k] : v[i] = [slot |-> s, cmd |-> <<k, (sent[k] - unread[k]) + i>>]
  BY <1>1, <1>4 DEF Waiting
<1>6. ASSUME NEW i \in DOMAIN w, i \notin DOMAIN txq
      PROVE  /\ w[i].slot = s
             /\ unread[k] = 1 => i = Len(txq) + 1 /\ w[i].cmd = <<k, sent[k]>>
  <2>1. i - Len(txq) \in 1..unread[k] /\ w[i] = v[i - Len(txq)]
    BY <1>2, <1>3, <1>6
  <2>2. PICK n : n = i - Len(txq)
    OBVIOUS
  <2>3. w[i] = [slot |-> s, cmd |-> <<k, (sent[k] - unread[k]) + n>>]
    BY <1>5, <2>1, <2>2
  <2>4. w[i].slot = s /\ w[i].cmd = <<k, (sent[k] - unread[k]) + n>>
    BY <2>3
  <2>5. ASSUME unread[k] = 1 PROVE i = Len(txq) + 1 /\ w[i].cmd = <<k, sent[k]>>
    <3>1. n = 1 /\ i = Len(txq) + 1
      BY <1>3, <2>1, <2>2, <2>5
    <3>2. (sent[k] - unread[k]) + n = sent[k]
      BY <1>4, <2>5, <3>1
    <3> QED
      BY <2>4, <3>1, <3>2
  <2> QED
    BY <2>4, <2>5
<1>7. \A i \in DOMAIN txq : i \in DOMAIN w /\ w[i] = txq[i]
  BY <1>3
<1>8. unread[k] = 0 => DOMAIN w = DOMAIN txq
  BY <1>2, <1>3
<1> QED
  BY <1>6, <1>7, <1>8

LEMMA ReadServes ==
    ASSUME SInv, NEW t \in Threads, Read(t)
    PROVE  Serving' /\ Origins'
<1>0. Inv /\ TypeOK /\ Serving /\ Origins /\ t \in Actors /\ t # Tx
  BY ActorFacts DEF SInv, Inv
<1>1. /\ pc[t] = "read"
      /\ UNCHANGED <<conn, accepted, sock, buf, rcvd, sent, queue>>
  BY DEF Read, table, io
<1>2. PICK s, c : s = job[t].slot /\ c = conn[s]
  OBVIOUS
<1>3. s \in Slots /\ c \in Conns
  BY <1>0, <1>1, <1>2, JobConn
<1>4. NoNewWrites
  <2>1. CASE Back(t)
    BY <1>0, <2>1, BackWrites
  <2>2. CASE Ask(t, [job[t] EXCEPT !.type = "TERMINATE"])
    <3>1. PICK j : j = [job[t] EXCEPT !.type = "TERMINATE"]
      OBVIOUS
    <3>2. Moves(t, "request", j)
      BY <2>2, <3>1 DEF Ask, Goto, Moves
    <3>3. j.type = "TERMINATE"
      BY <1>0, <3>1, JobFacts DEF Job
    <3> QED
      BY <1>0, <3>2, <3>3, MoveWrites
  <2> QED
    BY <2>1, <2>2 DEF Read
<1>5. NoNewJobs
  BY <1>1 DEF NoNewJobs
<1>6. unread' = unread \/ unread' = [unread EXCEPT ![c] = 0]
  BY <1>2 DEF Read
<1>7. \A k \in Conns : unread'[k] = unread[k] \/ unread'[k] = 0
  BY <1>0, <1>6 DEF TypeOK
<1>8. txq' = txq \/ (txq' = txq \o Waiting(s, c) /\ unread' = [unread EXCEPT ![c] = 0])
  BY <1>2 DEF Read
<1>9. /\ \A i \in DOMAIN txq : i \in DOMAIN txq' /\ txq'[i] = txq[i]
      /\ \A i \in DOMAIN txq' : i \notin DOMAIN txq => txq'[i].slot = s
      /\ unread[c] = 0 => DOMAIN txq' = DOMAIN txq
      /\ unread[c] = 1 =>
            /\ \A i \in DOMAIN txq' : i \notin DOMAIN txq => i = Len(txq) + 1
            /\ \A i \in DOMAIN txq' : i \notin DOMAIN txq => txq'[i].cmd = <<c, sent[c]>>
  <2>1. CASE txq' = txq
    BY <2>1
  <2>2. CASE txq' = txq \o Waiting(s, c)
    <3>1. PICK v : v = txq'
      OBVIOUS
    <3>2. v = txq \o Waiting(s, c)
      BY <2>2, <3>1
    <3>3. /\ \A i \in DOMAIN txq : i \in DOMAIN v /\ v[i] = txq[i]
          /\ \A i \in DOMAIN v : i \notin DOMAIN txq => v[i].slot = s
          /\ unread[c] = 0 => DOMAIN v = DOMAIN txq
          /\ unread[c] = 1 =>
               /\ \A i \in DOMAIN v : i \notin DOMAIN txq => i = Len(txq) + 1
               /\ \A i \in DOMAIN v : i \notin DOMAIN txq => v[i].cmd = <<c, sent[c]>>
      BY <1>0, <1>3, <3>2, WaitingOne
    <3> QED
      BY <3>1, <3>3
  <2> QED
    BY <1>8, <2>1, <2>2
<1>10. ASSUME NEW k \in Conns, k <= MaxClients PROVE OwnResponses(k)' /\ Tracked(k)'
  <2>1. OwnResponses(k)'
    BY <1>0, <1>1, <1>10 DEF Serving, OwnResponses
  <2>2. ASSUME sock'[k] = "open"
        PROVE  \E w \in Kinds, a \in Int, b \in Int : Only(k, w, a, b)'
    <3>1. PICK w \in Kinds, a \in Int, b \in Int : Only(k, w, a, b)
      BY <1>0, <1>1, <1>10, <2>2 DEF Serving, Tracked
    <3>a. TxFrom(k, w, w) /\ QueueFrom(k, w, a, b, w, a, b) /\ ThreadFrom(k, w, a, b, w, a)
      <4>1. TxFrom(k, w, w) /\ ThreadFrom(k, w, a, b, w, a)
        BY <1>1, <1>4 DEF TxFrom, ThreadFrom, NoNewWrites
      <4>2. QueueFrom(k, w, a, b, w, a, b)
        BY <1>1 DEF QueueFrom, Writes
      <4> QED
        BY <4>1, <4>2
    <3>2. CASE \A i \in DOMAIN txq' : conn[txq'[i].slot] = k => i \in DOMAIN txq
      <4>1. TxqFrom(k, w, a, w, a)
        BY <1>1, <1>9, <3>2 DEF TxqFrom
      <4>2. unread'[k] # 0 => unread'[k] = unread[k]
        BY <1>7
      <4>3. Only(k, w, a, b)'
        BY <1>1, <3>1, <3>a, <4>1, <4>2, OnlyCarried
      <4> QED
        BY <4>3
    <3>3. CASE ~ \A i \in DOMAIN txq' : conn[txq'[i].slot] = k => i \in DOMAIN txq
      <4>1. PICK i \in DOMAIN txq' : conn[txq'[i].slot] = k /\ i \notin DOMAIN txq
        BY <3>3
      <4>2. c = k /\ unread[k] # 0
        BY <1>2, <1>9, <4>1
      <4>3. w = "socket" /\ unread[k] = 1 /\ Waits(k)
        BY <3>1, <4>2 DEF Only
      <4>4. Waits(k)'
        BY <1>1, <4>3 DEF Waits
      <4>5. PICK n : n = Len(txq) + 1
        OBVIOUS
      <4>6. n \in Int
        BY <1>0, <4>5 DEF TypeOK
      <4>7. unread'[k] = 0
        <5>1. txq' # txq
          BY <4>1
        <5> QED
          BY <1>0, <1>3, <1>8, <4>2, <5>1 DEF TypeOK
      <4>8. ASSUME NEW h \in DOMAIN txq', conn'[txq'[h].slot] = k
            PROVE  h = n /\ txq'[h].cmd = <<k, sent'[k]>>
        <5>1. h \notin DOMAIN txq
          BY <1>1, <1>9, <3>1, <4>3, <4>8 DEF Only
        <5> QED
          BY <1>1, <1>9, <4>2, <4>3, <4>5, <5>1
      <4>9. ~(pc'[Tx] = "request" /\ conn'[job'[Tx].slot] = k)
        BY <1>1, <1>4, <3>1, <4>3 DEF Only, NoNewWrites
      <4>10. \A u \in Threads : ~(pc'[u] = "write" /\ conn'[job'[u].slot] = k)
        BY <1>1, <1>4, <3>1, <4>3 DEF Only, NoNewWrites
      <4>11. \A u \in Threads : \A h \in DOMAIN queue'[u] :
                ~(queue'[u][h].job.type = "WRITE" /\ conn'[queue'[u][h].job.slot] = k)
        BY <1>1, <3>1, <4>3 DEF Only, Writes
      <4>12. PICK w2 : w2 = "txq" /\ w2 \in Kinds
        BY DEF Kinds
      <4>13. Only(k, w2, n, n)'
        BY <4>4, <4>7, <4>8, <4>9, <4>10, <4>11, <4>12 DEF Only, Writes
      <4> QED
        BY <4>6, <4>12, <4>13
    <3> QED
      BY <3>2, <3>3
  <2> QED
    BY <2>1, <2>2 DEF Tracked
<1>11. Serving'
  BY <1>10 DEF Serving
<1>12. Origins'
  <2>1. ASSUME NEW i \in DOMAIN txq' PROVE conn'[txq'[i].slot] # 0
    <3>1. c # 0
      BY <1>3 DEF Conns
    <3>2. CASE i \in DOMAIN txq
      BY <1>0, <1>1, <1>9, <3>2 DEF Origins
    <3>3. CASE i \notin DOMAIN txq
      BY <1>1, <1>2, <1>9, <3>1, <3>3
    <3> QED
      BY <3>2, <3>3
  <2>2. \A k \in Conns : k > accepted' => unread'[k] = 0
    BY <1>0, <1>1, <1>7 DEF Origins
  <2> QED
    BY <1>4, <2>1, <2>2 DEF Origins, NoNewWrites
<1> QED
  BY <1>11, <1>12

\* An I/O thread writes a response.
LEMMA WriteServes ==
    ASSUME SInv, NEW t \in Threads, Write(t)
    PROVE  Serving' /\ Origins'
<1>0. Inv /\ TypeOK /\ Serving /\ Origins /\ t \in Actors /\ t # Tx
  BY ActorFacts DEF SInv, Inv
<1>1. /\ pc[t] = "write" /\ Back(t)
      /\ UNCHANGED <<conn, accepted, sock, sent, unread, buf, queue, txq>>
  BY DEF Write, table, peers, io
<1>2. PICK c, r : c = conn[job[t].slot] /\ r = buf[job[t].of]
  OBVIOUS
<1>3. c \in Conns
  BY <1>0, <1>1, <1>2, JobConn
<1>4. NoNewWrites /\ NoNewJobs
  BY <1>0, <1>1, BackWrites DEF NoNewJobs
<1>5. rcvd' = rcvd \/ (sock[c] = "open" /\ rcvd' = [rcvd EXCEPT ![c] = Append(@, r)])
  BY <1>2 DEF Write
<1>6. \A k \in Conns : (k # c \/ sock[k] # "open") => rcvd'[k] = rcvd[k]
  BY <1>0, <1>5 DEF TypeOK
<1>7. ASSUME NEW k \in Conns, k <= MaxClients PROVE OwnResponses(k)' /\ Tracked(k)'
  <2>0. OwnResponses(k)
    BY <1>0, <1>7 DEF Serving
  <2>1. CASE sock[k] # "open"
    <3>1. rcvd'[k] = rcvd[k]
      BY <1>6, <2>1
    <3> QED
      BY <1>1, <2>0, <2>1, <3>1 DEF OwnResponses, Tracked
  <2>2. CASE sock[k] = "open"
    <3>1. PICK w \in Kinds, a \in Int, b \in Int : Only(k, w, a, b)
      BY <1>0, <1>7, <2>2 DEF Serving, Tracked
    <3>2. CASE rcvd'[k] = rcvd[k]
      <4>1. Only(k, w, a, b)'
        BY <1>1, <1>4, <3>1, <3>2, OnlyStays
      <4> QED
        BY <2>0, <3>2, <4>1 DEF OwnResponses, Tracked
    <3>3. CASE k = c /\ rcvd' # rcvd
      <4>1. w = "thread" /\ a = t /\ Ready(k)
        BY <1>1, <1>2, <3>1, <3>3 DEF Only
      <4>2. job[t].of = k
        <5>1. Made(job[t])
          BY <1>0, <1>1 DEF Inv, Held
        <5> QED
          BY <1>2, <1>7, <3>3, <5>1 DEF Made
      <4>3. r = <<k, Len(rcvd[k]) + 1>>
        BY <1>2, <4>1, <4>2 DEF Ready, Waits
      <4>4. rcvd'[k] = Append(rcvd[k], r)
        BY <1>0, <1>5, <2>2, <3>3 DEF TypeOK
      <4>5. OwnResponses(k)'
        <5>1. rcvd[k] \in Seq(Cmd)
          BY <1>0 DEF TypeOK
        <5>2. PICK q : q = rcvd[k]
          OBVIOUS
        <5>3. q \in Seq(Cmd) /\ \A i \in DOMAIN q : q[i] = <<k, i>>
          BY <2>0, <5>1, <5>2 DEF OwnResponses
        <5>4. \A i \in DOMAIN Append(q, r) : Append(q, r)[i] = IF i = Len(q) + 1 THEN r ELSE q[i]
          BY <5>3
        <5>5. \A i \in DOMAIN Append(q, r) : i # Len(q) + 1 => i \in DOMAIN q
          BY <5>3
        <5>6. \A i \in DOMAIN Append(q, r) : Append(q, r)[i] = <<k, i>>
          BY <4>3, <5>2, <5>3, <5>4, <5>5
        <5> QED
          BY <4>4, <5>2, <5>6 DEF OwnResponses
      <4>6. Only(k, w, a, b)'
        <5>1. \A u \in Threads : ~(pc'[u] = "write" /\ conn'[job'[u].slot] = k)
          <6>1. pc'[t] # "write"
            <7>1. PICK l \in {"idle", "loop"} : Moves(t, l, NoJob)
              BY <1>0, <1>1, BackMoves
            <7> QED
              BY <1>0, <7>1, MovesAre
          <6> QED
            BY <1>1, <1>4, <3>1, <4>1, <6>1 DEF Only, NoNewWrites
        <5>2. unread'[k] = 0 /\ \A i \in DOMAIN txq' : conn'[txq'[i].slot] # k
          BY <1>1, <3>1, <4>1 DEF Only
        <5>3. ~(pc'[Tx] = "request" /\ conn'[job'[Tx].slot] = k)
          BY <1>1, <1>4, <3>1, <4>1 DEF Only, NoNewWrites
        <5>4. \A u \in Threads : \A h \in DOMAIN queue'[u] :
                 ~(queue'[u][h].job.type = "WRITE" /\ conn'[queue'[u][h].job.slot] = k)
          BY <1>1, <3>1, <4>1 DEF Only, Writes
        <5> QED
          BY <5>1, <5>2, <5>3, <5>4 DEF Only, Writes
      <4> QED
        BY <4>5, <4>6 DEF Tracked
    <3> QED
      BY <1>6, <3>2, <3>3
  <2> QED
    BY <2>1, <2>2
<1>8. Serving'
  BY <1>7 DEF Serving
<1>9. Origins'
  BY <1>0, <1>1, <1>4 DEF Origins, NoNewWrites
<1> QED
  BY <1>8, <1>9

\* The transaction thread executes the first command and formats its response.
LEMMA ExecuteServes ==
    ASSUME SInv, Execute
    PROVE  Serving' /\ Origins'
<1>0. TypeOK /\ Serving /\ Origins /\ Tx \in Actors /\ Tx \notin Threads
  BY ActorFacts DEF SInv, Inv
<1>1. /\ pc[Tx] = "idle" /\ txq # <<>> /\ txq' = Tail(txq)
      /\ UNCHANGED <<conn, accepted, sock, sent, unread, rcvd, queue>>
  BY DEF Execute, table, peers, io
<1>2. PICK E, c : E = [slot : Slots, cmd : Cmd] /\ c = Head(txq)
  OBVIOUS
<1>3. txq \in Seq(E)
  BY <1>0, <1>2 DEF TypeOK
<1>4. /\ c = txq[1] /\ 1 \in DOMAIN txq
      /\ \A i \in DOMAIN Tail(txq) : i + 1 \in DOMAIN txq /\ Tail(txq)[i] = txq[i + 1]
      /\ DOMAIN Tail(txq) \subseteq Nat \ {0}
  BY ONLY <1>1, <1>2, <1>3
<1>5. \A i \in DOMAIN txq' : i \in Nat \ {0} /\ i + 1 \in DOMAIN txq /\ txq'[i] = txq[i + 1]
  BY <1>1, <1>4
<1>6. c.slot \in Slots /\ conn[c.slot] \in Conns
  <2>1. c.slot \in Slots
    BY <1>0, <1>4, TxqSlots
  <2>2. conn[c.slot] \in 0..MaxConns /\ conn[c.slot] # 0
    BY <1>0, <1>4, <2>1 DEF TypeOK, Origins
  <2> QED
    BY <2>1, <2>2, BoundsAssumption DEF Conns
<1>7. ASSUME NEW k \in Conns, NEW w \in Kinds, NEW a \in Int, NEW b \in Int, Only(k, w, a, b),
             buf'[k] = buf[k], \A t \in Threads : pc'[t] = pc[t] /\ job'[t] = job[t],
             UNCHANGED <<pc, job>> \/ conn'[job'[Tx].slot] # k
      PROVE  \E w2 \in Kinds, a2 \in Int, b2 \in Int : Only(k, w2, a2, b2)'
  <2>1. PICK a2 \in Int : a2 = IF w = "txq" THEN a - 1 ELSE a
    OBVIOUS
  <2>2. TxqFrom(k, w, a, w, a2)
    <3> SUFFICES ASSUME NEW i \in DOMAIN txq', conn'[txq'[i].slot] = k
                 PROVE  \E h \in DOMAIN txq : /\ txq[h] = txq'[i] /\ conn[txq[h].slot] = k
                                              /\ (w = "txq" /\ a = h) => (w = "txq" /\ a2 = i)
      BY DEF TxqFrom
    <3>1. i \in Nat \ {0} /\ i + 1 \in DOMAIN txq /\ txq'[i] = txq[i + 1]
      BY <1>5
    <3>2. (w = "txq" /\ a = i + 1) => a2 = i
      BY <2>1, <3>1
    <3> QED
      BY <1>1, <3>1, <3>2
  <2>3. TxFrom(k, w, w)
    BY <1>1, <1>7 DEF TxFrom
  <2>4. QueueFrom(k, w, a, b, w, a2, b)
    BY <1>1, <2>1 DEF QueueFrom, Writes
  <2>5. ThreadFrom(k, w, a, b, w, a2)
    BY <1>1, <1>7, <2>1, ActorFacts DEF ThreadFrom
  <2>6. Only(k, w, a2, b)'
    BY <1>1, <1>7, <2>2, <2>3, <2>4, <2>5, OnlyCarried
  <2> QED
    BY <2>6
<1>8. ASSUME NEW k \in Conns, k <= MaxClients PROVE OwnResponses(k)'
  BY <1>0, <1>1, <1>8 DEF Serving, OwnResponses
<1>9. \A i \in DOMAIN txq' : conn'[txq'[i].slot] # 0
  BY <1>0, <1>1, <1>5 DEF Origins
<1>10. CASE id[c.slot] = 0
  <2>1. UNCHANGED <<buf, pc, job>>
    BY <1>2, <1>10 DEF Execute
  <2>2. ASSUME NEW k \in Conns, k <= MaxClients PROVE Tracked(k)'
    <3> SUFFICES ASSUME sock'[k] = "open"
                 PROVE  \E w2 \in Kinds, a2 \in Int, b2 \in Int : Only(k, w2, a2, b2)'
      BY DEF Tracked
    <3>1. PICK w \in Kinds, a \in Int, b \in Int : Only(k, w, a, b)
      BY <1>0, <1>1, <2>2 DEF Serving, Tracked
    <3> QED
      BY <1>7, <2>1, <3>1
  <2>3. Origins'
    BY <1>0, <1>1, <1>9, <2>1 DEF Origins
  <2> QED
    BY <1>8, <2>2, <2>3 DEF Serving
<1>11. CASE id[c.slot] # 0
  <2>1. PICK x, j : x = conn[c.slot] /\ j = [type |-> "WRITE", slot |-> c.slot, of |-> conn[c.slot]]
    OBVIOUS
  <2>2. buf' = [buf EXCEPT ![x] = c.cmd] /\ Moves(Tx, "request", j) /\ j.slot = c.slot
    BY <1>2, <1>11, <2>1 DEF Execute, Ask, Goto, Moves
  <2>3. /\ pc'[Tx] = "request" /\ job'[Tx] = j
        /\ \A b \in Actors : b # Tx => pc'[b] = pc[b] /\ job'[b] = job[b]
    BY <1>0, <2>2, MovesAre
  <2>4. \A t \in Threads : pc'[t] = pc[t] /\ job'[t] = job[t]
    BY <1>0, <2>3, ActorFacts
  <2>5. \A k \in Conns : buf'[k] = IF k = x THEN c.cmd ELSE buf[k]
    BY <1>0, <2>2 DEF TypeOK
  <2>6. ASSUME NEW k \in Conns, k <= MaxClients PROVE Tracked(k)'
    <3> SUFFICES ASSUME sock'[k] = "open"
                 PROVE  \E w2 \in Kinds, a2 \in Int, b2 \in Int : Only(k, w2, a2, b2)'
      BY DEF Tracked
    <3>1. PICK w \in Kinds, a \in Int, b \in Int : Only(k, w, a, b)
      BY <1>0, <1>1, <2>6 DEF Serving, Tracked
    <3>2. CASE k # x
      <4>1. buf'[k] = buf[k] /\ conn'[job'[Tx].slot] # k
        BY <1>1, <2>1, <2>2, <2>3, <2>5, <3>2
      <4> QED
        BY <1>7, <2>4, <3>1, <4>1
    <3>3. CASE k = x
      <4>1. w = "txq" /\ a = 1 /\ c.cmd = <<k, sent[k]>> /\ Waits(k)
        BY <1>4, <2>1, <3>1, <3>3 DEF Only
      <4>2. Ready(k)'
        BY <1>1, <2>5, <3>3, <4>1 DEF Ready, Waits
      <4>3. unread'[k] = 0
        BY <1>1, <3>1, <4>1 DEF Only
      <4>4. ASSUME NEW i \in DOMAIN txq' PROVE conn'[txq'[i].slot] # k
        <5>1. i \in Nat \ {0} /\ i + 1 \in DOMAIN txq /\ txq'[i] = txq[i + 1]
          BY <1>5
        <5>2. i + 1 # a
          BY <4>1, <5>1
        <5> QED
          BY <1>1, <3>1, <5>1, <5>2 DEF Only
      <4>5. \A u \in Threads : ~(pc'[u] = "write" /\ conn'[job'[u].slot] = k)
        BY <1>1, <2>4, <3>1, <4>1 DEF Only
      <4>6. \A u \in Threads : \A h \in DOMAIN queue'[u] :
               ~(queue'[u][h].job.type = "WRITE" /\ conn'[queue'[u][h].job.slot] = k)
        BY <1>1, <3>1, <4>1 DEF Only, Writes
      <4>7. PICK w2 : w2 = "tx" /\ w2 \in Kinds
        BY DEF Kinds
      <4>8. Only(k, w2, a, b)'
        BY <4>2, <4>3, <4>4, <4>5, <4>6, <4>7 DEF Only, Writes
      <4> QED
        BY <4>7, <4>8
    <3> QED
      BY <3>2, <3>3
  <2>7. Origins'
    BY <1>0, <1>1, <1>9, <2>3 DEF Origins
  <2> QED
    BY <1>8, <2>6, <2>7 DEF Serving
<1> QED
  BY <1>10, <1>11

\* A peer that has all its responses sends its next command.
LEMMA PeerSendServes ==
    ASSUME SInv, NEW c \in Conns, PeerSend(c), Pipelined = FALSE
    PROVE  Serving' /\ Origins'
<1>0. TypeOK /\ Tenants /\ Serving /\ Origins
  BY DEF SInv, Inv
<1>1. /\ sock[c] = "open" /\ Len(rcvd[c]) = sent[c]
      /\ sent' = [sent EXCEPT ![c] = @ + 1] /\ unread' = [unread EXCEPT ![c] = @ + 1]
      /\ UNCHANGED <<conn, accepted, sock, buf, rcvd, queue, pc, job, txq>>
  BY DEF PeerSend, table, io
<1>2. /\ \A k \in Conns : k # c => sent'[k] = sent[k] /\ unread'[k] = unread[k]
      /\ sent'[c] = sent[c] + 1 /\ unread'[c] = unread[c] + 1
      /\ sent[c] \in Nat /\ unread[c] \in Nat
  BY <1>0, <1>1 DEF TypeOK
<1>3. NoNewWrites /\ NoNewJobs
  BY <1>0, <1>1 DEF NoNewWrites, NoNewJobs, Origins
<1>4. ASSUME NEW k \in Conns, k <= MaxClients PROVE OwnResponses(k)' /\ Tracked(k)'
  <2>1. OwnResponses(k)'
    BY <1>0, <1>1, <1>4 DEF Serving, OwnResponses
  <2>2. ASSUME sock'[k] = "open"
        PROVE  \E w \in Kinds, a \in Int, b \in Int : Only(k, w, a, b)'
    <3>1. PICK w \in Kinds, a \in Int, b \in Int : Only(k, w, a, b)
      BY <1>0, <1>1, <1>4, <2>2 DEF Serving, Tracked
    <3>2. CASE k # c
      <4>1. Only(k, w, a, b)'
        BY <1>1, <1>2, <1>3, <3>1, <3>2, OnlyStays
      <4> QED
        BY <4>1
    <3>3. CASE k = c
      <4>1. ~Waits(k)
        BY <1>1, <1>2, <3>3 DEF Waits
      <4>2. unread[k] = 0
        BY <3>1, <4>1 DEF Only
      <4>3. unread'[k] = 1 /\ Waits(k)'
        BY <1>1, <1>2, <3>3, <4>2 DEF Waits
      <4>4. \A i \in DOMAIN txq' : conn'[txq'[i].slot] # k
        BY <1>1, <3>1, <4>1 DEF Only
      <4>5. ~(pc'[Tx] = "request" /\ conn'[job'[Tx].slot] = k)
        BY <1>1, <3>1, <4>1 DEF Only, Ready
      <4>6. \A u \in Threads : ~(pc'[u] = "write" /\ conn'[job'[u].slot] = k)
        BY <1>1, <3>1, <4>1 DEF Only, Ready
      <4>7. \A u \in Threads : \A h \in DOMAIN queue'[u] :
               ~(queue'[u][h].job.type = "WRITE" /\ conn'[queue'[u][h].job.slot] = k)
        BY <1>1, <3>1, <4>1 DEF Only, Ready, Writes
      <4>8. PICK w2 : w2 = "socket" /\ w2 \in Kinds
        BY DEF Kinds
      <4>9. Only(k, w2, a, b)'
        BY <4>3, <4>4, <4>5, <4>6, <4>7, <4>8 DEF Only, Writes
      <4> QED
        BY <4>8, <4>9
    <3> QED
      BY <3>2, <3>3
  <2> QED
    BY <2>1, <2>2 DEF Tracked
<1>5. Serving'
  BY <1>4 DEF Serving
<1>6. Origins'
  <2>1. ~(c > accepted)
    BY <1>0, <1>1 DEF Tenants
  <2>2. \A k \in Conns : k > accepted' => unread'[k] = 0
    BY <1>0, <1>1, <1>2, <2>1 DEF Origins
  <2> QED
    BY <1>0, <1>1, <2>2 DEF Origins
<1> QED
  BY <1>5, <1>6

\* A connection is accepted: a first tenant's slot has no earlier jobs.
LEMMA AcceptServes ==
    ASSUME SInv, Accept
    PROVE  Serving' /\ Origins'
<1>0. /\ Inv /\ TypeOK /\ Tenants /\ Counted /\ Queued /\ Held /\ Serving /\ Origins
      /\ Tx \in Actors /\ Threads \subseteq Actors
  BY ActorFacts DEF SInv, Inv
<1>1. PICK c, s : c = accepted + 1 /\ s = FreeSlot(c)
  OBVIOUS
<1>2. /\ accepted < MaxConns /\ count # MaxClients
      /\ conn' = [conn EXCEPT ![s] = c] /\ sock' = [sock EXCEPT ![c] = "open"] /\ accepted' = c
      /\ UNCHANGED <<sent, unread, buf, rcvd, queue, pc, job, txq>>
  BY <1>1 DEF Accept, AtLimit, io
<1>3. c \in Conns /\ c \in Nat /\ c # 0 /\ accepted \in Nat /\ c > accepted
  BY <1>0, <1>1, <1>2, BoundsAssumption DEF TypeOK, Conns
<1>4. \E x \in Slots : id[x] = 0
  BY <1>0, <1>2, CountRoom
<1>5. s \in Slots /\ (id[c % MaxClients] = 0 => s = c % MaxClients)
  BY <1>0, <1>1, <1>3, <1>4, FreeSlotIs
<1>6. c <= MaxClients => conn[s] = 0
  BY <1>0, <1>1, <1>3, <1>5, FirstSlot
<1>7. /\ \A x \in Slots : conn'[x] = IF x = s THEN c ELSE conn[x]
      /\ \A k \in Conns : sock'[k] = IF k = c THEN "open" ELSE sock[k]
  BY <1>0, <1>2 DEF TypeOK
<1>8. \A x \in Slots : conn[x] # c
  BY <1>0, <1>1, <1>3 DEF TypeOK, Tenants
<1>9. \A k \in Conns, x \in Slots : (k # c /\ conn'[x] = k) => conn[x] = k
  BY <1>7
<1>a. \A x \in Slots : (c <= MaxClients /\ conn'[x] = c) => conn[x] = 0
  BY <1>6, <1>7, <1>8
<1>10. /\ \A i \in DOMAIN txq : txq[i].slot \in Slots
       /\ \A a \in Actors : job[a].slot \in Slots
       /\ \A t \in Threads : \A i \in DOMAIN queue[t] : queue[t][i].job.slot \in Slots
  BY <1>0, TxqSlots, JobFacts, QueueJobs DEF Job
<1>11. /\ \A i \in DOMAIN txq : conn[txq[i].slot] # 0
       /\ \A a \in Actors : pc[a] \in {"request", "write"} => conn[job[a].slot] # 0
       /\ \A t \in Threads : \A i \in DOMAIN queue[t] : conn[queue[t][i].job.slot] # 0
  BY <1>0 DEF Origins, Held, Queued, Made
<1>12. ASSUME NEW k \in Conns, k <= MaxClients PROVE OwnResponses(k)' /\ Tracked(k)'
  <2>1. OwnResponses(k)'
    BY <1>0, <1>2, <1>12 DEF Serving, OwnResponses
  <2>2. ASSUME sock'[k] = "open"
        PROVE  \E w \in Kinds, a \in Int, b \in Int : Only(k, w, a, b)'
    <3>1. CASE k # c
      <4>1. PICK w \in Kinds, a \in Int, b \in Int : Only(k, w, a, b)
        BY <1>0, <1>7, <1>12, <2>2, <3>1 DEF Serving, Tracked
      <4>2. TxqFrom(k, w, a, w, a)
        BY <1>2, <1>9, <1>10, <3>1 DEF TxqFrom
      <4>3. TxFrom(k, w, w) /\ ThreadFrom(k, w, a, b, w, a)
        BY <1>0, <1>2, <1>9, <1>10, <3>1 DEF TxFrom, ThreadFrom
      <4>4. QueueFrom(k, w, a, b, w, a, b)
        <5> SUFFICES ASSUME NEW u \in Threads, NEW i \in DOMAIN queue'[u],
                            queue'[u][i].job.type = "WRITE", conn'[queue'[u][i].job.slot] = k
                     PROVE  i \in DOMAIN queue[u] /\ Writes(queue[u][i].job, k)
          BY DEF QueueFrom
        <5> QED
          BY <1>2, <1>9, <1>10, <3>1 DEF Writes
      <4>5. Only(k, w, a, b)'
        BY <1>2, <4>1, <4>2, <4>3, <4>4, OnlyCarried
      <4> QED
        BY <4>5
    <3>2. CASE k = c
      <4>1. unread'[k] = 0
        BY <1>0, <1>2, <1>3, <3>2 DEF Origins
      <4>2. \A i \in DOMAIN txq' : conn'[txq'[i].slot] # k
        BY <1>2, <1>a, <1>10, <1>11, <1>12, <3>2
      <4>3. ~(pc'[Tx] = "request" /\ conn'[job'[Tx].slot] = k)
        BY <1>0, <1>2, <1>a, <1>10, <1>11, <1>12, <3>2
      <4>4. \A u \in Threads : ~(pc'[u] = "write" /\ conn'[job'[u].slot] = k)
        BY <1>0, <1>2, <1>a, <1>10, <1>11, <1>12, <3>2
      <4>5. \A u \in Threads : \A h \in DOMAIN queue'[u] :
               ~(queue'[u][h].job.type = "WRITE" /\ conn'[queue'[u][h].job.slot] = k)
        BY <1>2, <1>a, <1>10, <1>11, <1>12, <3>2
      <4>6. PICK w \in Kinds, a \in Int : a = 0
        BY DEF Kinds
      <4>7. Only(k, w, a, a)'
        BY <4>1, <4>2, <4>3, <4>4, <4>5 DEF Only, Writes
      <4> QED
        BY <4>6, <4>7
    <3> QED
      BY <3>1, <3>2
  <2> QED
    BY <2>1, <2>2 DEF Tracked
<1>13. Serving'
  BY <1>12 DEF Serving
<1>14. Origins'
  <2>1. \A i \in DOMAIN txq' : conn'[txq'[i].slot] # 0
    BY <1>2, <1>3, <1>7, <1>10, <1>11
  <2>2. \A k \in Conns : k > accepted' => unread'[k] = 0
    <3>1. \A k \in Conns : k > c => k > accepted
      BY <1>1, <1>3, BoundsAssumption DEF Conns
    <3> QED
      BY <1>0, <1>2, <3>1 DEF Origins
  <2> QED
    BY <1>0, <1>2, <2>1, <2>2 DEF Origins
<1> QED
  BY <1>13, <1>14

-----------------------------------------------------------------------------
LEMMA InitServes ==
    ASSUME Init
    PROVE  SInv
<1>1. Inv
  BY InitKeeps
<1>2. Origins
  BY ActorFacts DEF Init, Origins
<1>3. ASSUME NEW k \in Conns PROVE OwnResponses(k) /\ Tracked(k)
  BY <1>3 DEF Init, OwnResponses, Tracked
<1> QED
  BY <1>1, <1>2, <1>3 DEF SInv, Serving

LEMMA NextServes ==
    ASSUME SInv, Fed, [Next]_vars, Pipelined = FALSE
    PROVE  SInv'
<1>0. Inv'
  BY NextKeeps DEF SInv
<1>a. ASSUME NEW a \in Actors, Calls(a) PROVE Serving' /\ Origins'
  BY <1>a, QuietCalls, QuietPublish, QuietRequest, TxRequestServes DEF Calls
<1>1. CASE \E k \in Conns : PeerSend(k) \/ PeerHangUp(k)
  BY <1>0, <1>1, PeerSendServes, QuietEvents DEF SInv
<1>2. CASE \E s \in Slots : Kill(s)
  BY <1>0, <1>2, QuietKill DEF SInv
<1>3. CASE Accept
  BY <1>0, <1>3, AcceptServes DEF SInv
<1>4. CASE MainStep
  BY <1>0, <1>a, <1>4, QuietEvents, ActorFacts DEF MainStep, SInv
<1>5. CASE TxStep
  BY <1>0, <1>a, <1>5, ExecuteServes, QuietEnds, ActorFacts DEF TxStep, SInv
<1>6. CASE \E t \in Threads : IOStep(t)
  <2>1. PICK t \in Threads : IOStep(t)
    BY <1>6
  <2>2. t \in Workers /\ t \in Actors
    BY ActorFacts
  <2>3. Serving' /\ Origins'
    BY <1>a, <2>1, <2>2, QuietThreads, CatchServes, ReadServes, WriteServes, QuietEnds DEF IOStep
  <2> QED
    BY <1>0, <2>3 DEF SInv
<1>7. CASE UNCHANGED vars
  <2>1. UNCHANGED <<conn, accepted, sock, buf, rcvd, sent, unread, txq, queue, pc, job>>
    BY <1>7 DEF vars, table, peers, io
  <2>2. NoNewWrites
    BY <2>1 DEF NoNewWrites, SInv, Origins
  <2> QED
    BY <1>0, <2>1, <2>2, QuietMoves DEF SInv
<1> QED
  BY <1>1, <1>2, <1>3, <1>4, <1>5, <1>6, <1>7 DEF Next

-----------------------------------------------------------------------------
(***************************************************************************)
(* Reads.  Where the one READ job of a connection is whose peer waits: an  *)
(* event the main thread has not taken, a thread that asks for the job or  *)
(* executes it, or a queue.  There is none when the socket is empty.       *)
(***************************************************************************)
Asks(p, j, k) == (p = "read" \/ (p = "request" /\ j.type = "READ")) /\ conn[j.slot] = k
Reads(j, k)   == j.type = "READ" /\ conn[j.slot] = k

Sole(k, w, a, b) ==
    /\ k \in event => w = "event" /\ unread[k] # 0
    /\ \A x \in Actors : Asks(pc[x], job[x], k) => w = "actor" /\ a = x /\ unread[k] # 0
    /\ \A t \in Threads : \A i \in DOMAIN queue[t] :
          Reads(queue[t][i].job, k) => w = "queue" /\ a = t /\ b = i /\ unread[k] # 0

Spots == {"event", "actor", "queue"}
Single(k) == sock[k] = "open" => \E w \in Spots, a \in Int, b \in Int : Sole(k, w, a, b)

Reading ==
    /\ \A k \in Conns : k <= MaxClients => Single(k)
    /\ \A k \in Conns : k > accepted => k \notin event

RInv == SInv /\ Reading

LEMMA ReadingFed ==
    ASSUME Inv, Reading
    PROVE  Fed
<1> SUFFICES ASSUME NEW t \in Threads, pc[t] = "read", conn[job[t].slot] <= MaxClients,
                    sock[conn[job[t].slot]] = "open"
             PROVE  unread[conn[job[t].slot]] # 0
  BY DEF Fed
<1>1. PICK k : k = conn[job[t].slot]
  OBVIOUS
<1>2. t \in Actors
  BY ActorFacts
<1>3. k \in Conns
  BY <1>1, <1>2, JobConn
<1>4. PICK w \in Spots, a \in Int, b \in Int : Sole(k, w, a, b)
  BY <1>1, <1>3 DEF Reading, Single
<1>5. Asks(pc[t], job[t], k)
  BY <1>1 DEF Asks
<1> QED
  BY <1>1, <1>2, <1>4, <1>5 DEF Sole

\* What asks for a READ job of k after a step did so, or carried one, before it.
EventFrom(k, w, w2) == k \in event' => k \in event /\ (w = "event" => w2 = "event")

ActorFrom(k, w, a, b, w2, a2) ==
    \A x \in Actors : Asks(pc[x], job[x], k)' =>
        \/ Asks(pc[x], job[x], k) /\ ((w = "actor" /\ a = x) => (w2 = "actor" /\ a2 = x))
        \/ k \in event /\ (w = "event" => (w2 = "actor" /\ a2 = x))
        \/ /\ x \in Threads
           /\ \E h \in DOMAIN queue[x] :
                 /\ Reads(queue[x][h].job, k)
                 /\ (w = "queue" /\ a = x /\ b = h) => (w2 = "actor" /\ a2 = x)

JobFrom(k, w, a, b, w2, a2, b2) ==
    \A t \in Threads : \A i \in DOMAIN queue'[t] : Reads(queue[t][i].job, k)' =>
        \/ \E h \in DOMAIN queue[t] :
              /\ Reads(queue[t][h].job, k)
              /\ (w = "queue" /\ a = t /\ b = h) => (w2 = "queue" /\ a2 = t /\ b2 = i)
        \/ \E x \in Actors :
              /\ Asks(pc[x], job[x], k)
              /\ (w = "actor" /\ a = x) => (w2 = "queue" /\ a2 = t /\ b2 = i)

LEMMA SoleCarried ==
    ASSUME NEW k, NEW w, NEW a, NEW b, NEW w2, NEW a2, NEW b2, Sole(k, w, a, b),
           unread'[k] = unread[k], EventFrom(k, w, w2), ActorFrom(k, w, a, b, w2, a2),
           JobFrom(k, w, a, b, w2, a2, b2)
    PROVE  Sole(k, w2, a2, b2)'
<1>1. k \in event' => w2 = "event" /\ unread'[k] # 0
  BY DEF Sole, EventFrom
<1>2. ASSUME NEW x \in Actors, Asks(pc[x], job[x], k)'
      PROVE  w2 = "actor" /\ a2 = x /\ unread'[k] # 0
  <2>1. CASE Asks(pc[x], job[x], k) /\ ((w = "actor" /\ a = x) => (w2 = "actor" /\ a2 = x))
    BY <2>1 DEF Sole
  <2>2. CASE k \in event /\ (w = "event" => (w2 = "actor" /\ a2 = x))
    BY <2>2 DEF Sole
  <2>3. CASE /\ x \in Threads
             /\ \E h \in DOMAIN queue[x] :
                   /\ Reads(queue[x][h].job, k)
                   /\ (w = "queue" /\ a = x /\ b = h) => (w2 = "actor" /\ a2 = x)
    BY <2>3 DEF Sole
  <2> QED
    BY <1>2, <2>1, <2>2, <2>3 DEF ActorFrom
<1>3. ASSUME NEW t \in Threads, NEW i \in DOMAIN queue'[t], Reads(queue[t][i].job, k)'
      PROVE  w2 = "queue" /\ a2 = t /\ b2 = i /\ unread'[k] # 0
  <2>1. CASE \E h \in DOMAIN queue[t] :
                /\ Reads(queue[t][h].job, k)
                /\ (w = "queue" /\ a = t /\ b = h) => (w2 = "queue" /\ a2 = t /\ b2 = i)
    BY <2>1 DEF Sole
  <2>2. CASE \E x \in Actors :
                /\ Asks(pc[x], job[x], k)
                /\ (w = "actor" /\ a = x) => (w2 = "queue" /\ a2 = t /\ b2 = i)
    BY <2>2 DEF Sole
  <2> QED
    BY <1>3, <2>1, <2>2 DEF JobFrom
<1> QED
  BY <1>1, <1>2, <1>3 DEF Sole

\* Steps that ask for no READ job.
NoNewAsks == \A x \in Actors, k \in Conns : Asks(pc[x], job[x], k)' => Asks(pc[x], job[x], k)
NoNewReads ==
    \A t \in Threads : \A i \in DOMAIN queue'[t] :
        queue'[t][i].job.type = "READ" => i \in DOMAIN queue[t] /\ queue[t][i].job = queue'[t][i].job

LEMMA SoleStays ==
    ASSUME NEW k \in Conns, NEW w, NEW a, NEW b, Sole(k, w, a, b), UNCHANGED conn,
           unread'[k] = unread[k], k \in event' => k \in event, NoNewAsks, NoNewReads
    PROVE  Sole(k, w, a, b)'
<1>1. EventFrom(k, w, w)
  BY DEF EventFrom
<1>2. ActorFrom(k, w, a, b, w, a)
  BY DEF ActorFrom, NoNewAsks
<1>3. JobFrom(k, w, a, b, w, a, b)
  <2> SUFFICES ASSUME NEW t \in Threads, NEW i \in DOMAIN queue'[t], Reads(queue[t][i].job, k)'
               PROVE  i \in DOMAIN queue[t] /\ Reads(queue[t][i].job, k)
    BY DEF JobFrom
  <2> QED
    BY DEF Reads, NoNewReads
<1> QED
  BY <1>1, <1>2, <1>3, SoleCarried

LEMMA QuietReads ==
    ASSUME Reading, UNCHANGED <<conn, accepted>>, \A k \in Conns : unread'[k] = unread[k],
           \A k \in Conns : sock'[k] = "open" => sock[k] = "open",
           event' \subseteq event, NoNewAsks, NoNewReads
    PROVE  Reading'
<1>1. ASSUME NEW k \in Conns, k <= MaxClients, sock'[k] = "open"
      PROVE  \E w \in Spots, a \in Int, b \in Int : Sole(k, w, a, b)'
  <2>1. PICK w \in Spots, a \in Int, b \in Int : Sole(k, w, a, b)
    BY <1>1 DEF Reading, Single
  <2>2. Sole(k, w, a, b)'
    BY <2>1, SoleStays
  <2> QED
    BY <2>2
<1> QED
  BY <1>1 DEF Reading, Single

\* An actor that moves to l with job j asks for no READ job there.
LEMMA MoveAsks ==
    ASSUME TypeOK, NEW a \in Actors, NEW l, NEW j, Moves(a, l, j), UNCHANGED conn,
           l # "read", l = "request" => j.type # "READ"
    PROVE  NoNewAsks
<1>1. /\ pc'[a] = l /\ job'[a] = j
      /\ \A b \in Actors : b # a => pc'[b] = pc[b] /\ job'[b] = job[b]
  BY MovesAre
<1> QED
  BY <1>1 DEF NoNewAsks, Asks

LEMMA BackAsks ==
    ASSUME TypeOK, NEW a \in Actors, Back(a), UNCHANGED conn
    PROVE  NoNewAsks
<1>1. PICK l \in {"idle", "loop"} : Moves(a, l, NoJob)
  BY BackMoves
<1> QED
  BY <1>1, MoveAsks

LEMMA DoneAsks ==
    ASSUME Inv, NEW a \in Actors, Done(a), UNCHANGED conn
    PROVE  NoNewAsks
<1>0. TypeOK /\ Roles
  BY DEF Inv
<1>1. CASE a = Main /\ todo # <<>>
  <2>1. todo = <<"TERMINATE">>
    BY <1>0, <1>1 DEF Roles
  <2>2. PICK j : j = [job[a] EXCEPT !.type = "TERMINATE"]
    OBVIOUS
  <2>3. Moves(a, "request", j)
    BY <1>1, <2>1, <2>2 DEF Done, Ask, Goto, Moves
  <2>4. j.type = "TERMINATE"
    BY <1>0, <2>2, JobFacts DEF Job
  <2> QED
    BY <1>0, <2>3, <2>4, MoveAsks
<1>2. CASE ~(a = Main /\ todo # <<>>)
  <2>1. Back(a)
    BY <1>2 DEF Done
  <2> QED
    BY <1>0, <2>1, BackAsks
<1> QED
  BY <1>1, <1>2

\* The steps of a caller of add_io_request that queue no job.
LEMMA CallReads ==
    ASSUME RInv, NEW a \in Actors, RequestGone(a) \/ Publish(a) \/ Signal(a)
    PROVE  Reading'
<1>0. Inv /\ TypeOK /\ Reading
  BY DEF RInv, SInv, Inv
<1>1. UNCHANGED <<conn, accepted, sock, unread, event>>
  BY DEF RequestGone, Publish, Signal, table, peers
<1>2. CASE RequestGone(a) \/ Signal(a)
  <2>1. Done(a) /\ UNCHANGED queue
    BY <1>2 DEF RequestGone, Signal, io
  <2>2. NoNewAsks
    BY <1>0, <1>1, <2>1, DoneAsks
  <2>3. NoNewReads
    BY <2>1 DEF NoNewReads
  <2> QED
    BY <1>0, <1>1, <2>2, <2>3, QuietReads
<1>3. CASE Publish(a)
  <2>1. pc' = [pc EXCEPT ![a] = "signal"] /\ UNCHANGED job
    BY <1>3 DEF Publish, Goto
  <2>2. Moves(a, "signal", job[a])
    BY <1>0, <2>1 DEF Moves, TypeOK
  <2>3. NoNewAsks
    BY <1>0, <1>1, <2>2, MoveAsks
  <2>4. NoNewReads
    BY <1>0, <1>3, PublishedJobs DEF NoNewReads
  <2> QED
    BY <1>0, <1>1, <2>3, <2>4, QuietReads
<1> QED
  BY <1>2, <1>3

\* A job enters a queue, and with it perhaps the READ job of k.
LEMMA RequestReads ==
    ASSUME RInv, NEW a \in Actors, Request(a)
    PROVE  Reading'
<1>0. Inv /\ TypeOK /\ Reading
  BY DEF RInv, SInv, Inv
<1>1. /\ pc[a] = "request"
      /\ UNCHANGED <<conn, accepted, sock, unread, event, job>>
  BY DEF Request, table, peers
<1>2. PICK t : t = id[job[a].slot] % NThreads
  OBVIOUS
<1>3. PICK l \in {"publish", "signal"} :
         /\ pc' = [pc EXCEPT ![a] = l]
         /\ UNCHANGED queue \/ queue' = [queue EXCEPT ![t] = Append(@, [job |-> job[a], by |-> a])]
  <2>1. CASE Len(queue[t]) < QueueSize
    BY <1>2, <2>1 DEF Request, Goto
  <2>2. CASE ~(Len(queue[t]) < QueueSize)
    BY <1>2, <2>2 DEF Request, Goto
  <2> QED
    BY <2>1, <2>2
<1>4. Moves(a, l, job[a])
  BY <1>0, <1>1, <1>3 DEF Moves, TypeOK
<1>5. NoNewAsks
  BY <1>0, <1>1, <1>3, <1>4, MoveAsks
<1>6. CASE UNCHANGED queue
  <2>1. NoNewReads
    BY <1>6 DEF NoNewReads
  <2> QED
    BY <1>0, <1>1, <1>5, <2>1, QuietReads
<1>7. CASE queue' = [queue EXCEPT ![t] = Append(@, [job |-> job[a], by |-> a])]
  <2>1. PICK E, q, e : /\ E = [job : Job, by : Actors \cup {Published}] /\ q = queue[t]
                       /\ e = [job |-> job[a], by |-> a]
    OBVIOUS
  <2>2. t \in Threads
    <3>1. job[a].slot \in Slots
      BY <1>0, JobFacts
    <3>2. id[job[a].slot] \in 0..MaxConns
      BY <1>0, <3>1 DEF TypeOK
    <3>3. id[job[a].slot] \in Nat
      BY <3>2, BoundsAssumption
    <3> QED
      BY <1>2, <3>3, SelectedThread
  <2>3. q \in Seq(E) /\ e.job = job[a]
    BY <1>0, <2>1, <2>2 DEF TypeOK
  <2>4. queue'[t] = Append(q, e) /\ \A u \in Threads : u # t => queue'[u] = queue[u]
    BY <1>0, <1>7, <2>1, <2>2 DEF TypeOK
  <2>5. /\ DOMAIN Append(q, e) = 1..(Len(q) + 1) /\ Append(q, e)[Len(q) + 1] = e
        /\ DOMAIN q = 1..Len(q) /\ Len(q) \in Nat
        /\ \A h \in 1..Len(q) : Append(q, e)[h] = q[h]
    BY ONLY <2>3
  <2>6. /\ pc'[a] = l
        /\ \A b \in Actors : b # a => pc'[b] = pc[b] /\ job'[b] = job[b]
    BY <1>0, <1>4, MovesAre
  <2>7. ASSUME NEW k \in Conns, k <= MaxClients, sock'[k] = "open"
        PROVE  \E w \in Spots, c \in Int, b \in Int : Sole(k, w, c, b)'
    <3>1. PICK w \in Spots, c \in Int, b \in Int : Sole(k, w, c, b)
      BY <1>0, <1>1, <2>7 DEF Reading, Single
    <3>2. PICK n : n = Len(q) + 1
      OBVIOUS
    <3>3. n \in Int /\ t \in Int
      BY <2>2, <2>5, <3>2, SizesAssumption DEF Threads
    <3>4. PICK w2 \in Spots, c2 \in Int, b2 \in Int :
             /\ w2 = IF w = "actor" /\ c = a THEN "queue" ELSE w
             /\ c2 = IF w = "actor" /\ c = a THEN t ELSE c
             /\ b2 = IF w = "actor" /\ c = a THEN n ELSE b
      BY <3>3 DEF Spots
    <3>5. EventFrom(k, w, w2)
      BY <1>1, <3>4 DEF EventFrom
    <3>6. ActorFrom(k, w, c, b, w2, c2)
      <4> SUFFICES ASSUME NEW x \in Actors, Asks(pc[x], job[x], k)'
                   PROVE  Asks(pc[x], job[x], k) /\ ((w = "actor" /\ c = x) => (w2 = "actor" /\ c2 = x))
        BY DEF ActorFrom
      <4>1. x # a
        BY <1>3, <2>6 DEF Asks
      <4> QED
        BY <1>5, <3>4, <4>1 DEF NoNewAsks
    <3>7. JobFrom(k, w, c, b, w2, c2, b2)
      <4> SUFFICES ASSUME NEW u \in Threads, NEW i \in DOMAIN queue'[u], Reads(queue[u][i].job, k)'
                   PROVE  \/ \E h \in DOMAIN queue[u] :
                                /\ Reads(queue[u][h].job, k)
                                /\ (w = "queue" /\ c = u /\ b = h) => (w2 = "queue" /\ c2 = u /\ b2 = i)
                          \/ \E x \in Actors :
                                /\ Asks(pc[x], job[x], k)
                                /\ (w = "actor" /\ c = x) => (w2 = "queue" /\ c2 = u /\ b2 = i)
        BY DEF JobFrom
      <4>1. ASSUME i \in DOMAIN queue[u], queue'[u][i] = queue[u][i]
            PROVE  \E h \in DOMAIN queue[u] :
                      /\ Reads(queue[u][h].job, k)
                      /\ (w = "queue" /\ c = u /\ b = h) => (w2 = "queue" /\ c2 = u /\ b2 = i)
        <5>1. Reads(queue[u][i].job, k)
          BY <1>1, <4>1 DEF Reads
        <5>2. (w = "queue" /\ c = u /\ b = i) => (w2 = "queue" /\ c2 = u /\ b2 = i)
          BY <3>4
        <5> QED
          BY <4>1, <5>1, <5>2
      <4>2. CASE u # t
        BY <2>4, <4>1, <4>2
      <4>3. CASE u = t /\ i \in 1..Len(q)
        BY <2>1, <2>4, <2>5, <4>1, <4>3
      <4>4. CASE u = t /\ i = n
        <5>1. queue'[u][i].job = job[a]
          BY <2>3, <2>4, <2>5, <3>2, <4>4
        <5>2. Asks(pc[a], job[a], k)
          BY <1>1, <5>1 DEF Asks, Reads
        <5>3. (w = "actor" /\ c = a) => (w2 = "queue" /\ c2 = u /\ b2 = i)
          BY <3>4, <4>4
        <5> QED
          BY <5>2, <5>3
      <4> QED
        BY <2>4, <2>5, <3>2, <4>2, <4>3, <4>4
    <3>8. Sole(k, w2, c2, b2)'
      BY <1>1, <3>1, <3>5, <3>6, <3>7, SoleCarried
    <3> QED
      BY <3>4, <3>8
  <2> QED
    BY <1>0, <1>1, <2>7 DEF Reading, Single
<1> QED
  BY <1>3, <1>6, <1>7

\* An I/O thread takes the first job of its queue.
LEMMA CatchReads ==
    ASSUME RInv, NEW t \in Threads, Catch(t)
    PROVE  Reading'
<1>0. TypeOK /\ Reading /\ t \in Actors
  BY ActorFacts DEF RInv, SInv, Inv
<1>1. /\ queue[t] # <<>> /\ queue' = [queue EXCEPT ![t] = Tail(@)]
      /\ UNCHANGED <<conn, accepted, sock, unread, event>>
  BY DEF Catch, table, peers, PopReady
<1>2. PICK E, q : E = [job : Job, by : Actors \cup {Published}] /\ q = queue[t]
  OBVIOUS
<1>3. q \in Seq(E) /\ q # <<>>
  BY <1>0, <1>1, <1>2 DEF TypeOK
<1>4. /\ Head(q) \in E /\ Head(q) = q[1] /\ 1 \in DOMAIN q
      /\ \A i \in DOMAIN Tail(q) : i + 1 \in DOMAIN q /\ Tail(q)[i] = q[i + 1]
      /\ DOMAIN Tail(q) \subseteq Nat \ {0}
  BY ONLY <1>3
<1>5. queue'[t] = Tail(q) /\ \A u \in Threads : u # t => queue'[u] = queue[u]
  BY <1>0, <1>1, <1>2 DEF TypeOK
<1>6. PICK j : j = Head(queue[t]).job
  OBVIOUS
<1>7. j = queue[t][1].job /\ j \in Job
  BY <1>2, <1>4, <1>6
<1>8. PICK l, j2 : Moves(t, l, j2) /\ l # "request" /\ (l = "read" => (j2 = j /\ j.type = "READ"))
  <2>1. CASE id[j.slot] = 0
    <3>1. Back(t)
      BY <1>6, <2>1 DEF Catch
    <3>2. PICK l \in {"idle", "loop"} : Moves(t, l, NoJob)
      BY <1>0, <3>1, BackMoves
    <3> QED
      BY <3>2
  <2>2. CASE id[j.slot] # 0
    <3>1. PICK l : l = CASE j.type = "READ" -> "read" [] j.type = "WRITE" -> "write"
                         [] j.type = "TERMINATE" -> "terminate"
      OBVIOUS
    <3>2. Moves(t, l, j)
      BY <1>6, <2>2, <3>1 DEF Catch, Goto, Moves
    <3>3. l # "request" /\ (l = "read" => j.type = "READ")
      BY <1>7, <3>1 DEF Job, Types
    <3> QED
      BY <3>2, <3>3
  <2> QED
    BY <2>1, <2>2
<1>9. /\ pc'[t] = l /\ job'[t] = j2
      /\ \A b \in Actors : b # t => pc'[b] = pc[b] /\ job'[b] = job[b]
  BY <1>0, <1>8, MovesAre
<1>10. ASSUME NEW k \in Conns, k <= MaxClients, sock'[k] = "open"
       PROVE  \E w \in Spots, a \in Int, b \in Int : Sole(k, w, a, b)'
  <2>1. PICK w \in Spots, a \in Int, b \in Int : Sole(k, w, a, b)
    BY <1>0, <1>1, <1>10 DEF Reading, Single
  <2>2. PICK w2 \in Spots, b2 \in Int :
           /\ w2 = IF w = "queue" /\ a = t /\ b = 1 THEN "actor" ELSE w
           /\ b2 = IF w = "queue" /\ a = t THEN b - 1 ELSE b
    BY DEF Spots
  <2>3. EventFrom(k, w, w2)
    BY <1>1, <2>2 DEF EventFrom
  <2>4. JobFrom(k, w, a, b, w2, a, b2)
    <3> SUFFICES ASSUME NEW u \in Threads, NEW i \in DOMAIN queue'[u], Reads(queue[u][i].job, k)'
                 PROVE  \E h \in DOMAIN queue[u] :
                           /\ Reads(queue[u][h].job, k)
                           /\ (w = "queue" /\ a = u /\ b = h) => (w2 = "queue" /\ a = u /\ b2 = i)
      BY DEF JobFrom
    <3>1. CASE u # t
      <4>1. i \in DOMAIN queue[u] /\ Reads(queue[u][i].job, k)
        BY <1>1, <1>5, <3>1 DEF Reads
      <4>2. (w = "queue" /\ a = u /\ b = i) => (w2 = "queue" /\ a = u /\ b2 = i)
        BY <2>2, <3>1
      <4> QED
        BY <4>1, <4>2
    <3>2. CASE u = t
      <4>1. i \in DOMAIN Tail(q) /\ i \in Nat \ {0} /\ i + 1 \in DOMAIN queue[u]
            /\ queue'[u][i] = queue[u][i + 1]
        BY <1>2, <1>4, <1>5, <3>2
      <4>2. Reads(queue[u][i + 1].job, k)
        BY <1>1, <4>1 DEF Reads
      <4>3. (w = "queue" /\ a = u /\ b = i + 1) => (w2 = "queue" /\ a = u /\ b2 = i)
        BY <2>2, <3>2, <4>1
      <4> QED
        BY <4>1, <4>2, <4>3
    <3> QED
      BY <3>1, <3>2
  <2>5. ActorFrom(k, w, a, b, w2, a)
    <3>1. ASSUME NEW x \in Actors, x # t, Asks(pc[x], job[x], k)'
          PROVE  Asks(pc[x], job[x], k) /\ ((w = "actor" /\ a = x) => (w2 = "actor" /\ a = x))
      BY <1>1, <1>9, <2>2, <3>1 DEF Asks
    <3>2. ASSUME Asks(pc[t], job[t], k)'
          PROVE  \E h \in DOMAIN queue[t] :
                    /\ Reads(queue[t][h].job, k)
                    /\ (w = "queue" /\ a = t /\ b = h) => (w2 = "actor" /\ a = t)
      <4>1. Reads(queue[t][1].job, k) /\ 1 \in DOMAIN queue[t]
        BY <1>1, <1>2, <1>4, <1>7, <1>8, <1>9, <3>2 DEF Reads, Asks
      <4> QED
        BY <2>2, <4>1
    <3> QED
      BY <3>1, <3>2 DEF ActorFrom
  <2>6. Sole(k, w2, a, b2)'
    BY <1>1, <2>1, <2>3, <2>4, <2>5, SoleCarried
  <2> QED
    BY <2>2, <2>6
<1> QED
  BY <1>0, <1>1, <1>10 DEF Reading, Single

\* An I/O thread executes the READ job of k, and there is none left.
LEMMA ReadReads ==
    ASSUME RInv, NEW t \in Threads, Read(t)
    PROVE  Reading'
<1>0. Inv /\ TypeOK /\ Reading /\ t \in Actors
  BY ActorFacts DEF RInv, SInv, Inv
<1>1. pc[t] = "read" /\ UNCHANGED <<conn, accepted, sock, event, queue>>
  BY DEF Read, table, io
<1>2. PICK c : c = conn[job[t].slot]
  OBVIOUS
<1>3. c \in Conns
  BY <1>0, <1>1, <1>2, JobConn
<1>4. PICK l, j : Moves(t, l, j) /\ l # "read" /\ (l = "request" => j.type # "READ")
  <2>1. CASE Back(t)
    <3>1. PICK l \in {"idle", "loop"} : Moves(t, l, NoJob)
      BY <1>0, <2>1, BackMoves
    <3> QED
      BY <3>1
  <2>2. CASE Ask(t, [job[t] EXCEPT !.type = "TERMINATE"])
    <3>1. PICK j : j = [job[t] EXCEPT !.type = "TERMINATE"]
      OBVIOUS
    <3>2. Moves(t, "request", j) /\ j.type = "TERMINATE"
      BY <1>0, <2>2, <3>1, JobFacts DEF Ask, Goto, Moves, Job
    <3> QED
      BY <3>2
  <2> QED
    BY <2>1, <2>2 DEF Read
<1>5. NoNewAsks /\ NoNewReads
  BY <1>0, <1>1, <1>4, MoveAsks DEF NoNewReads
<1>6. ~Asks(pc[t], job[t], c)'
  BY <1>0, <1>4, MovesAre DEF Asks
<1>7. \A k \in Conns : k # c => unread'[k] = unread[k]
  BY <1>0, <1>2 DEF Read, TypeOK
<1>8. ASSUME NEW k \in Conns, k <= MaxClients, sock'[k] = "open"
      PROVE  \E w \in Spots, a \in Int, b \in Int : Sole(k, w, a, b)'
  <2>1. PICK w \in Spots, a \in Int, b \in Int : Sole(k, w, a, b)
    BY <1>0, <1>1, <1>8 DEF Reading, Single
  <2>2. CASE k # c
    <3>1. Sole(k, w, a, b)'
      BY <1>1, <1>5, <1>7, <2>1, <2>2, SoleStays
    <3> QED
      BY <3>1
  <2>3. CASE k = c
    <3>1. Asks(pc[t], job[t], k)
      BY <1>1, <1>2, <2>3 DEF Asks
    <3>2. w = "actor" /\ a = t
      BY <1>0, <2>1, <3>1 DEF Sole
    <3>3. k \notin event'
      BY <1>1, <2>1, <3>2 DEF Sole
    <3>4. \A x \in Actors : ~Asks(pc[x], job[x], k)'
      BY <1>5, <1>6, <2>1, <2>3, <3>2 DEF Sole, NoNewAsks
    <3>5. \A u \in Threads : \A i \in DOMAIN queue'[u] : ~Reads(queue[u][i].job, k)'
      BY <1>1, <2>1, <3>2 DEF Sole, Reads
    <3>6. Sole(k, w, a, b)'
      BY <3>3, <3>4, <3>5 DEF Sole
    <3> QED
      BY <3>6
  <2> QED
    BY <2>2, <2>3
<1> QED
  BY <1>0, <1>1, <1>8 DEF Reading, Single

\* The other steps of the threads.
LEMMA ThreadReads ==
    ASSUME RInv, NEW a \in Workers,
           \/ a \in Threads /\ (Consume(a) \/ EndLoop(a) \/ Write(a))
           \/ Ends(a)
           \/ a = Tx /\ (Execute \/ \E s \in Slots : Kill(s))
    PROVE  Reading'
<1>0. TypeOK /\ Reading /\ a \in Actors
  BY ActorFacts DEF RInv, SInv, Inv
<1>1. UNCHANGED <<conn, accepted, unread, queue>>
  BY DEF Consume, EndLoop, Write, Ends, Close, Remove, Uncount, Execute, Kill, table, peers, io
<1>2. \A k \in Conns : sock'[k] = "open" => sock[k] = "open"
  BY <1>0 DEF Consume, EndLoop, Write, Ends, Close, Remove, Uncount, Execute, Kill, peers, TypeOK
<1>3. event' \subseteq event
  BY DEF Consume, EndLoop, Write, Ends, Close, Remove, Uncount, Execute, Kill, peers
<1>4. \/ Back(a)
      \/ UNCHANGED <<pc, job>>
      \/ \E l \in {"idle", "loop", "remove", "uncount"} : pc' = [pc EXCEPT ![a] = l] /\ UNCHANGED job
      \/ \E l, j : Moves(a, l, j) /\ l # "read" /\ (l = "request" => j.type # "READ")
  <2>1. CASE a \in Threads /\ (Consume(a) \/ EndLoop(a) \/ Write(a))
    BY <2>1 DEF Consume, EndLoop, Write, Goto
  <2>2. CASE Ends(a)
    BY <2>2 DEF Ends, Close, Remove, Uncount, Goto
  <2>3. CASE a = Tx /\ Execute
    <3>1. PICK c : c = Head(txq)
      OBVIOUS
    <3>2. CASE id[c.slot] = 0
      BY <2>3, <3>1, <3>2 DEF Execute
    <3>3. CASE id[c.slot] # 0
      <4>1. PICK j : j = [type |-> "WRITE", slot |-> c.slot, of |-> conn[c.slot]]
        OBVIOUS
      <4>2. Moves(a, "request", j) /\ j.type = "WRITE"
        BY <2>3, <3>1, <3>3, <4>1 DEF Execute, Ask, Goto, Moves
      <4> QED
        BY <4>2
    <3> QED
      BY <3>2, <3>3
  <2>4. CASE a = Tx /\ \E s \in Slots : Kill(s)
    <3>1. PICK j : Moves(a, "terminate", j)
      BY <2>4 DEF Kill, Goto, Moves
    <3> QED
      BY <3>1
  <2> QED
    BY <2>1, <2>2, <2>3, <2>4
<1>5. NoNewAsks
  <2>1. CASE Back(a)
    BY <1>0, <1>1, <2>1, BackAsks
  <2>2. CASE UNCHANGED <<pc, job>>
    BY <1>1, <2>2 DEF NoNewAsks, Asks
  <2>3. CASE \E l \in {"idle", "loop", "remove", "uncount"} : pc' = [pc EXCEPT ![a] = l] /\ UNCHANGED job
    <3>1. PICK l \in {"idle", "loop", "remove", "uncount"} : pc' = [pc EXCEPT ![a] = l] /\ UNCHANGED job
      BY <2>3
    <3>2. Moves(a, l, job[a])
      BY <1>0, <3>1 DEF Moves, TypeOK
    <3> QED
      BY <1>0, <1>1, <3>1, <3>2, MoveAsks
  <2>4. CASE \E l, j : Moves(a, l, j) /\ l # "read" /\ (l = "request" => j.type # "READ")
    BY <1>0, <1>1, <2>4, MoveAsks
  <2> QED
    BY <1>4, <2>1, <2>2, <2>3, <2>4
<1>6. NoNewReads
  BY <1>1 DEF NoNewReads
<1> QED
  BY <1>0, <1>1, <1>2, <1>3, <1>5, <1>6, QuietReads

\* A peer that has its last answer has no command in its socket, so no READ job.
LEMMA PeerReads ==
    ASSUME RInv, NEW c \in Conns, PeerSend(c) \/ PeerHangUp(c), Pipelined = FALSE
    PROVE  Reading'
<1>0. TypeOK /\ Tenants /\ Serving /\ Reading
  BY DEF RInv, SInv, Inv
<1>1. /\ sock[c] = "open" /\ event' = event \cup {c}
      /\ UNCHANGED <<conn, accepted, pc, job, queue>>
  BY DEF PeerSend, PeerHangUp, table, io
<1>2. NoNewAsks /\ NoNewReads
  BY <1>1 DEF NoNewAsks, NoNewReads, Asks
<1>3. /\ \A k \in Conns : k # c => unread'[k] = unread[k] /\ sock'[k] = sock[k]
      /\ PeerSend(c) => unread'[c] = unread[c] + 1 /\ unread[c] \in Nat
      /\ PeerHangUp(c) => sock'[c] = "hung"
  BY <1>0 DEF PeerSend, PeerHangUp, TypeOK
<1>4. ASSUME NEW k \in Conns, k <= MaxClients, sock'[k] = "open"
      PROVE  \E w \in Spots, a \in Int, b \in Int : Sole(k, w, a, b)'
  <2>1. PICK w \in Spots, a \in Int, b \in Int : Sole(k, w, a, b)
    BY <1>0, <1>1, <1>3, <1>4 DEF Reading, Single
  <2>2. CASE k # c
    <3>1. Sole(k, w, a, b)'
      BY <1>1, <1>2, <1>3, <2>1, <2>2, SoleStays
    <3> QED
      BY <3>1
  <2>3. CASE k = c
    <3>1. PeerSend(c) /\ unread'[k] = unread[k] + 1 /\ unread[k] \in Nat
      BY <1>3, <1>4, <2>3
    <3>2. unread[k] = 0
      <4>1. PICK v \in Kinds, x \in Int, y \in Int : Only(k, v, x, y)
        BY <1>0, <1>1, <1>4, <2>3 DEF Serving, Tracked
      <4>2. Len(rcvd[k]) = sent[k] /\ sent[k] \in Nat
        BY <1>0, <2>3, <3>1 DEF PeerSend, TypeOK
      <4> QED
        BY <4>1, <4>2 DEF Only, Waits
    <3>3. \A x \in Actors : ~Asks(pc[x], job[x], k)'
      BY <1>2, <2>1, <3>2 DEF Sole, NoNewAsks
    <3>4. \A u \in Threads : \A i \in DOMAIN queue'[u] : ~Reads(queue[u][i].job, k)'
      BY <1>1, <2>1, <3>2 DEF Sole, Reads
    <3>5. PICK w2 : w2 = "event" /\ w2 \in Spots
      BY DEF Spots
    <3>6. unread'[k] # 0
      BY <3>1, <3>2
    <3>7. Sole(k, w2, a, b)'
      BY <3>3, <3>4, <3>5, <3>6 DEF Sole
    <3> QED
      BY <3>5, <3>7
  <2> QED
    BY <2>2, <2>3
<1>5. ~(c > accepted)
  BY <1>0, <1>1 DEF Tenants
<1> QED
  BY <1>0, <1>1, <1>4, <1>5 DEF Reading, Single

\* The main thread turns the event into a READ job.
LEMMA EventReads ==
    ASSUME RInv, NEW c \in Conns, TakeEvent(c)
    PROVE  Reading'
<1>0. TypeOK /\ Reading /\ Main \in Actors
  BY ActorFacts DEF RInv, SInv, Inv
<1>1. /\ c \in event /\ event' = event \ {c}
      /\ UNCHANGED <<conn, accepted, sock, unread, queue>>
  BY DEF TakeEvent, table, io
<1>2. PICK s \in Slots : conn[s] = c /\ Ask(Main, [type |-> "READ", slot |-> s, of |-> c])
  BY DEF TakeEvent
<1>3. PICK j : j = [type |-> "READ", slot |-> s, of |-> c]
  OBVIOUS
<1>4. Moves(Main, "request", j) /\ conn[j.slot] = c
  BY <1>2, <1>3 DEF Ask, Goto, Moves
<1>5. /\ pc'[Main] = "request" /\ job'[Main] = j
      /\ \A x \in Actors : x # Main => pc'[x] = pc[x] /\ job'[x] = job[x]
  BY <1>0, <1>4, MovesAre
<1>6. ASSUME NEW k \in Conns, k <= MaxClients, sock'[k] = "open"
      PROVE  \E w \in Spots, a \in Int, b \in Int : Sole(k, w, a, b)'
  <2>1. PICK w \in Spots, a \in Int, b \in Int : Sole(k, w, a, b)
    BY <1>0, <1>1, <1>6 DEF Reading, Single
  <2>2. PICK m : m = Main
    OBVIOUS
  <2>3. m \in Int
    BY <2>2, SizesAssumption DEF Main
  <2>4. PICK w2 \in Spots, a2 \in Int : /\ w2 = IF k = c THEN "actor" ELSE w
                                        /\ a2 = IF k = c THEN m ELSE a
    BY <2>3 DEF Spots
  <2>5. k = c => w = "event"
    BY <1>1, <2>1 DEF Sole
  <2>6. EventFrom(k, w, w2)
    BY <1>1, <2>4 DEF EventFrom
  <2>7. ActorFrom(k, w, a, b, w2, a2)
    <3>1. ASSUME NEW x \in Actors, x # Main, Asks(pc[x], job[x], k)'
          PROVE  Asks(pc[x], job[x], k) /\ ((w = "actor" /\ a = x) => (w2 = "actor" /\ a2 = x))
      BY <1>1, <1>5, <2>4, <2>5, <3>1 DEF Asks
    <3>2. ASSUME Asks(pc[Main], job[Main], k)'
          PROVE  k \in event /\ (w2 = "actor" /\ a2 = Main)
      BY <1>1, <1>4, <1>5, <2>2, <2>4, <3>2 DEF Asks
    <3> QED
      BY <3>1, <3>2 DEF ActorFrom
  <2>8. JobFrom(k, w, a, b, w2, a2, b)
    <3> SUFFICES ASSUME NEW u \in Threads, NEW i \in DOMAIN queue'[u], Reads(queue[u][i].job, k)'
                 PROVE  /\ i \in DOMAIN queue[u] /\ Reads(queue[u][i].job, k)
                        /\ (w = "queue" /\ a = u /\ b = i) => (w2 = "queue" /\ a2 = u /\ b = i)
      BY DEF JobFrom
    <3> QED
      BY <1>1, <2>4, <2>5 DEF Reads
  <2>9. Sole(k, w2, a2, b)'
    BY <1>1, <2>1, <2>6, <2>7, <2>8, SoleCarried
  <2> QED
    BY <2>4, <2>9
<1> QED
  BY <1>0, <1>1, <1>6 DEF Reading, Single

\* A connection is accepted: a first tenant's slot has no earlier jobs.
LEMMA AcceptReads ==
    ASSUME RInv, Accept
    PROVE  Reading'
<1>0. /\ Inv /\ TypeOK /\ Tenants /\ Counted /\ Queued /\ Held /\ Reading /\ Threads \subseteq Actors
  BY ActorFacts DEF RInv, SInv, Inv
<1>1. PICK c, s : c = accepted + 1 /\ s = FreeSlot(c)
  OBVIOUS
<1>2. /\ accepted < MaxConns /\ count # MaxClients
      /\ conn' = [conn EXCEPT ![s] = c] /\ sock' = [sock EXCEPT ![c] = "open"] /\ accepted' = c
      /\ UNCHANGED <<unread, event, queue, pc, job>>
  BY <1>1 DEF Accept, AtLimit, io
<1>3. c \in Conns /\ c \in Nat /\ c # 0 /\ accepted \in Nat /\ c > accepted
  BY <1>0, <1>1, <1>2, BoundsAssumption DEF TypeOK, Conns
<1>4. \E x \in Slots : id[x] = 0
  BY <1>0, <1>2, CountRoom
<1>5. s \in Slots /\ (id[c % MaxClients] = 0 => s = c % MaxClients)
  BY <1>0, <1>1, <1>3, <1>4, FreeSlotIs
<1>6. c <= MaxClients => conn[s] = 0
  BY <1>0, <1>1, <1>3, <1>5, FirstSlot
<1>7. /\ \A x \in Slots : conn'[x] = IF x = s THEN c ELSE conn[x]
      /\ \A k \in Conns : sock'[k] = IF k = c THEN "open" ELSE sock[k]
  BY <1>0, <1>2 DEF TypeOK
<1>8. \A x \in Slots : conn[x] # c
  BY <1>0, <1>1, <1>3 DEF TypeOK, Tenants
<1>9. \A k \in Conns, x \in Slots : (k # c /\ conn'[x] = k) => conn[x] = k
  BY <1>7
<1>a. \A x \in Slots : (c <= MaxClients /\ conn'[x] = c) => conn[x] = 0
  BY <1>6, <1>7, <1>8
<1>10. /\ \A a \in Actors : job[a].slot \in Slots
       /\ \A t \in Threads : \A i \in DOMAIN queue[t] : queue[t][i].job.slot \in Slots
  BY <1>0, JobFacts, QueueJobs DEF Job
<1>11. /\ \A a \in Actors : pc[a] \in {"request", "read"} => conn[job[a].slot] # 0
       /\ \A t \in Threads : \A i \in DOMAIN queue[t] : conn[queue[t][i].job.slot] # 0
  BY <1>0 DEF Held, Queued, Made
<1>12. ASSUME NEW k \in Conns, k <= MaxClients, sock'[k] = "open"
       PROVE  \E w \in Spots, a \in Int, b \in Int : Sole(k, w, a, b)'
  <2>1. CASE k # c
    <3>1. PICK w \in Spots, a \in Int, b \in Int : Sole(k, w, a, b)
      BY <1>0, <1>7, <1>12, <2>1 DEF Reading, Single
    <3>2. EventFrom(k, w, w)
      BY <1>2 DEF EventFrom
    <3>3. ActorFrom(k, w, a, b, w, a)
      <4> SUFFICES ASSUME NEW x \in Actors, Asks(pc[x], job[x], k)' PROVE Asks(pc[x], job[x], k)
        BY DEF ActorFrom
      <4> QED
        BY <1>2, <1>9, <1>10, <2>1 DEF Asks
    <3>4. JobFrom(k, w, a, b, w, a, b)
      <4> SUFFICES ASSUME NEW u \in Threads, NEW i \in DOMAIN queue'[u], Reads(queue[u][i].job, k)'
                   PROVE  i \in DOMAIN queue[u] /\ Reads(queue[u][i].job, k)
        BY DEF JobFrom
      <4> QED
        BY <1>2, <1>9, <1>10, <2>1 DEF Reads
    <3>5. Sole(k, w, a, b)'
      BY <1>2, <3>1, <3>2, <3>3, <3>4, SoleCarried
    <3> QED
      BY <3>5
  <2>2. CASE k = c
    <3>1. k \notin event'
      BY <1>0, <1>2, <1>3, <2>2 DEF Reading
    <3>2. \A x \in Actors : ~Asks(pc[x], job[x], k)'
      BY <1>2, <1>a, <1>10, <1>11, <1>12, <2>2 DEF Asks
    <3>3. \A u \in Threads : \A i \in DOMAIN queue'[u] : ~Reads(queue[u][i].job, k)'
      BY <1>2, <1>a, <1>10, <1>11, <1>12, <2>2 DEF Reads
    <3>4. PICK w \in Spots, a \in Int : a = 0
      BY DEF Spots
    <3>5. Sole(k, w, a, a)'
      BY <3>1, <3>2, <3>3 DEF Sole
    <3> QED
      BY <3>4, <3>5
  <2> QED
    BY <2>1, <2>2
<1>13. \A k \in Conns : k > accepted' => k \notin event'
  <2>1. \A k \in Conns : k > c => k > accepted
    BY <1>1, <1>3, BoundsAssumption DEF Conns
  <2> QED
    BY <1>0, <1>2, <2>1 DEF Reading
<1> QED
  BY <1>12, <1>13 DEF Reading, Single

-----------------------------------------------------------------------------
LEMMA InitReads ==
    ASSUME Init
    PROVE  RInv
<1>1. SInv
  BY InitServes
<1>2. Reading
  BY DEF Init, Reading, Single
<1> QED
  BY <1>1, <1>2 DEF RInv

LEMMA NextReads ==
    ASSUME RInv, [Next]_vars, Pipelined = FALSE
    PROVE  RInv'
<1>0. SInv'
  <2>1. Fed
    BY ReadingFed DEF RInv, SInv
  <2> QED
    BY <2>1, NextServes DEF RInv
<1>a. ASSUME NEW a \in Actors, Calls(a) PROVE Reading'
  BY <1>a, CallReads, RequestReads DEF Calls
<1>1. CASE \E k \in Conns : PeerSend(k) \/ PeerHangUp(k)
  BY <1>0, <1>1, PeerReads DEF RInv
<1>2. CASE \E s \in Slots : Kill(s)
  BY <1>0, <1>2, ThreadReads, ActorFacts DEF RInv
<1>3. CASE Accept
  BY <1>0, <1>3, AcceptReads DEF RInv
<1>4. CASE MainStep
  BY <1>0, <1>a, <1>4, EventReads, ActorFacts DEF MainStep, RInv
<1>5. CASE TxStep
  BY <1>0, <1>a, <1>5, ThreadReads, ActorFacts DEF TxStep, RInv
<1>6. CASE \E t \in Threads : IOStep(t)
  <2>1. PICK t \in Threads : IOStep(t)
    BY <1>6
  <2>2. t \in Workers /\ t \in Actors
    BY ActorFacts
  <2>3. Reading'
    BY <1>a, <2>1, <2>2, ThreadReads, CatchReads, ReadReads DEF IOStep
  <2> QED
    BY <1>0, <2>3 DEF RInv
<1>7. CASE UNCHANGED vars
  <2>1. UNCHANGED <<conn, accepted, sock, unread, event, queue, pc, job>>
    BY <1>7 DEF vars, table, peers, io
  <2>2. NoNewAsks /\ NoNewReads
    BY <2>1 DEF NoNewAsks, NoNewReads, Asks
  <2> QED
    BY <1>0, <2>1, <2>2, QuietReads DEF RInv
<1> QED
  BY <1>1, <1>2, <1>3, <1>4, <1>5, <1>6, <1>7 DEF Next

LEMMA WaitingInvariant ==
    ASSUME Pipelined = FALSE
    PROVE  Spec => []RInv
<1>1. Init => RInv
  BY InitReads
<1>2. RInv /\ [Next]_vars => RInv'
  BY NextReads
<1> QED
  BY <1>1, <1>2, PTL DEF Spec

\* The invariant of the table and of the jobs, whatever the peers do.
LEMMA Invariant == Spec => []Inv
<1>1. ASSUME Pipelined = FALSE PROVE Spec => []Inv
  <2>1. RInv => Inv
    BY DEF RInv, SInv
  <2>2. Spec => []RInv
    BY <1>1, WaitingInvariant
  <2> QED
    BY <2>1, <2>2, PTL
<1>2. ASSUME Pipelined = TRUE PROVE Spec => []Inv
  <2>1. Init => Inv
    BY InitKeeps
  <2>2. Inv /\ [Next]_vars => Inv'
    <3>1. Fed
      BY <1>2 DEF Fed
    <3> QED
      BY <3>1, NextKeeps
  <2> QED
    BY <2>1, <2>2, PTL DEF Spec
<1>3. Pipelined = TRUE \/ Pipelined = FALSE
  BY BoundsAssumption
<1> QED
  BY <1>1, <1>2, <1>3

-----------------------------------------------------------------------------
(***************************************************************************)
(* What the invariant gives.                                               *)
(***************************************************************************)

\* Every reachable state of the table, the sockets, the job queues and the
\* threads is well-typed: in particular client_count, which three threads
\* change, stays between 0 and max_clients, and no job queue holds more than
\* IO_QUEUE_SIZE jobs.
THEOREM TypeCorrect == Spec => []TypeOK
<1>1. Inv => TypeOK
  BY DEF Inv
<1> QED
  BY <1>1, Invariant, PTL

\* accept_client, having found client_count below the limit, finds a free slot:
\* the search of get_available_client_slot ends.
THEOREM AcceptFindsSlotInvariant == Spec => []AcceptFindsSlot
<1>1. Inv => AcceptFindsSlot
  BY CountRoom DEF Inv, AcceptFindsSlot, AtLimit
<1> QED
  BY <1>1, Invariant, PTL

\* The assertion of terminate_connection for one client: it is found if it sits
\* in the slot that its id hashes to.
LEMMA HomeFound ==
    ASSUME TypeOK, NEW i, i # 0, i \in Nat, i % MaxClients \in Slots, id[i % MaxClients] = i
    PROVE  Found(i)
<1>1. MaxClients \in Nat \ {0}
  BY SizesAssumption
<1> DEFINE p == Probe(i)
<1>2. DOMAIN p = 0..(MaxClients - 1) /\ 0 \in DOMAIN p /\ p[0] = (i + 0) % MaxClients
  BY <1>1 DEF Probe
<1>3. i + 0 = i
  OBVIOUS
<1>4. id[p[0]] = i
  BY <1>2, <1>3
<1>5. \A m \in 0..(0 - 1) : id[p[m]] # 0
  OBVIOUS
<1>6. \E n \in DOMAIN p : id[p[n]] = i /\ \A m \in 0..(n - 1) : id[p[m]] # 0
  BY <1>2, <1>4, <1>5
<1> QED
  BY <1>6 DEF Found

\* The ids that a removal looks for.
LEMMA RemovedId ==
    ASSUME Inv, NEW a \in Workers, pc[a] = "remove"
    PROVE  /\ job[a].slot \in Slots /\ id[job[a].slot] = conn[job[a].slot]
           /\ id[job[a].slot] \in Conns /\ id[job[a].slot] # 0
<1>1. a \in Actors
  BY ActorFacts
<1>2. job[a].slot \in Slots /\ conn[job[a].slot] \in Conns
  BY <1>1, JobConn
<1>3. id[job[a].slot] # 0
  BY DEF Inv, Removing
<1> QED
  BY <1>2, <1>3 DEF Inv, Tenants

\* A thread that terminates one of the first max_clients connections.
FirstTenantFound ==
    \A a \in Workers :
        (pc[a] = "remove" /\ id[job[a].slot] <= MaxClients) => Found(id[job[a].slot])

\* remove_client finds every one of the first max_clients connections, however
\* many connections have come and gone since: those sit in the slot their id
\* hashes to.  A later tenant may be cut off from its slot by one that was freed
\* between (the MCIOTable run).
THEOREM FirstTenantFoundInvariant == Spec => []FirstTenantFound
<1>1. ASSUME Inv PROVE FirstTenantFound
  <2> SUFFICES ASSUME NEW a \in Workers, pc[a] = "remove", id[job[a].slot] <= MaxClients
               PROVE  Found(id[job[a].slot])
    BY DEF FirstTenantFound
  <2>1. PICK s, i : s = job[a].slot /\ i = id[s]
    OBVIOUS
  <2>2. s \in Slots /\ i = conn[s] /\ i \in Conns /\ i # 0 /\ i <= MaxClients
    BY <1>1, <2>1, RemovedId
  <2>3. s = i % MaxClients
    BY <1>1, <2>2 DEF Inv, Tenants
  <2>4. i \in Nat /\ TypeOK
    BY <1>1, <2>2, BoundsAssumption DEF Conns, Inv
  <2>5. Found(i)
    BY <2>1, <2>2, <2>3, <2>4, HomeFound
  <2> QED
    BY <2>1, <2>5
<1>2. Inv => FirstTenantFound
  BY <1>1
<1> QED
  BY <1>2, Invariant, PTL

\* Only terminate_connection closes a socket.
LEMMA OnlyCloseCloses ==
    ASSUME Inv, [Next]_vars, NEW k \in Conns, sock[k] = "open", sock'[k] = "closed"
    PROVE  \E a \in Workers : Close(a) /\ sock' # sock
<1>0. sock \in [Conns -> {"none", "open", "hung", "closed"}]
  BY DEF Inv, TypeOK
<1>1. CASE \E c \in Conns : PeerSend(c) \/ PeerHangUp(c)
  BY <1>0, <1>1 DEF PeerSend, PeerHangUp
<1>2. CASE \E s \in Slots : Kill(s)
  BY <1>2 DEF Kill, peers
<1>3. CASE Accept
  BY <1>0, <1>3 DEF Accept
<1>4. CASE MainStep
  BY <1>4 DEF MainStep, TakeEvent, Calls, RequestGone, Request, Publish, Signal, peers
<1>5. CASE TxStep
  BY <1>5, ActorFacts
     DEF TxStep, Execute, Calls, RequestGone, Request, Publish, Signal, Ends, Remove, Uncount, peers
<1>6. CASE \E t \in Threads : IOStep(t)
  BY <1>6, ActorFacts
     DEF IOStep, Consume, EndLoop, Catch, Read, Write, Calls, RequestGone, Request, Publish, Signal,
         Ends, Remove, Uncount, peers
<1>7. CASE UNCHANGED vars
  BY <1>7 DEF vars, peers
<1> QED
  BY <1>1, <1>2, <1>3, <1>4, <1>5, <1>6, <1>7 DEF Next

\* Among the first max_clients connections, only CLIENT KILL closes one whose peer
\* waits for its answers and has not hung up.  A READ job on an open connection
\* whose socket is empty would: there is none, since its READ job is in one place
\* at a time, and only while the command it was asked for is in the socket.
THEOREM FirstTenantsKeptOpenHolds ==
    ASSUME Pipelined = FALSE
    PROVE  Spec => FirstTenantsKeptOpen
<1> DEFINE A == \A k \in Conns :
                   k <= MaxClients /\ sock[k] = "open" /\ sock'[k] = "closed" =>
                       pc[Tx] = "terminate" /\ job[Tx].of = k
<1>1. ASSUME Inv, [Next]_vars PROVE A
  <2> SUFFICES ASSUME NEW k \in Conns, k <= MaxClients, sock[k] = "open", sock'[k] = "closed"
               PROVE  pc[Tx] = "terminate" /\ job[Tx].of = k
    OBVIOUS
  <2>1. PICK a \in Workers : Close(a) /\ sock' # sock
    BY <1>1, OnlyCloseCloses
  <2>2. a \in Actors /\ pc[a] = "terminate"
    BY <2>1, ActorFacts DEF Close
  <2>3. PICK c : c = conn[job[a].slot]
    OBVIOUS
  <2>4. sock' = [sock EXCEPT ![c] = "closed"] /\ sock[c] # "closed"
    BY <2>1, <2>3 DEF Close
  <2>5. c = k
    BY <1>1, <2>4 DEF Inv, TypeOK
  <2>6. Made(job[a]) /\ (a # Tx => Due(job[a]))
    BY <1>1, <2>2 DEF Inv, Held
  <2>7. job[a].of = k
    BY <2>3, <2>5, <2>6 DEF Made
  <2>8. CASE a = Tx
    BY <2>2, <2>7, <2>8
  <2>9. CASE a # Tx
    <3>1. a \in Threads
      BY <2>9, ActorFacts
    <3>2. job[a].type = "TERMINATE"
      BY <1>1, <2>2, <3>1 DEF Inv, Roles
    <3> QED
      BY <2>3, <2>5, <2>6, <2>9, <3>2 DEF Due, Over
  <2> QED
    BY <2>8, <2>9
<1>2. Inv /\ [Next]_vars => [A]_vars
  BY <1>1
<1>3. Spec => [][A]_vars
  BY <1>2, Invariant, PTL DEF Spec
<1> QED
  BY <1>3 DEF FirstTenantsKeptOpen

\* A peer that waits for its answers gets its own, each once and in order, on
\* every one of the first max_clients connections: the command it waits for is in
\* one place at a time, the socket, the transaction queue, write_buf with a WRITE
\* job asked for, queued or caught, so no later response overwrites write_buf and
\* no WRITE job is left to repeat it.  For any number of slots, of I/O threads, of
\* connections that follow, and of kills.
THEOREM FirstTenantsServedInvariant ==
    ASSUME Pipelined = FALSE
    PROVE  Spec => []FirstTenantsServed
<1>1. RInv => FirstTenantsServed
  BY DEF RInv, SInv, Serving, FirstTenantsServed
<1> QED
  BY <1>1, WaitingInvariant, PTL
=============================================================================
