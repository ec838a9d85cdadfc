------------------------------- MODULE IOPath -------------------------------
(***************************************************************************)
(* Connections and the I/O threads.                                        *)
(*                                                                         *)
(*   the main thread (server/events.c) accepts connections into the table  *)
(*   of clients (server/client.c) and turns socket events into READ and    *)
(*   TERMINATE jobs (io/io.c, add_io_request);                             *)
(*                                                                         *)
(*   an I/O thread (io/io_procedure.c) takes the count of its notifier,    *)
(*   pops that many jobs and reads, writes or terminates;                  *)
(*                                                                         *)
(*   the transaction thread formats each response into client->write_buf   *)
(*   and asks for a WRITE job, and may terminate a client (CLIENT KILL).   *)
(*                                                                         *)
(* A job names its client by the address of a slot of the table, never by  *)
(* the connection: who answers to that address may change while the job is *)
(* queued.  A job queue is the one of ReserveFifo (utils/tqueue.c).  The   *)
(* way of a command through the transaction queue is TxPipeline's subject; *)
(* here it is a plain queue.                                               *)
(***************************************************************************)
EXTENDS Naturals, Sequences, FiniteSets

CONSTANTS
    MaxClients,   \* conf->max_clients, the number of slots
    NThreads,     \* server->io_thread_count
    QueueSize,    \* IO_QUEUE_SIZE
    MaxConns,     \* bound: connections accepted in a behaviour
    MaxCmds,      \* bound: per connection, commands its peer sends
    MaxKills,     \* bound: CLIENT KILL commands
    Pipelined     \* may a peer send before it has its last response?

ASSUME SizesAssumption ==
    /\ MaxClients \in Nat \ {0}
    /\ NThreads \in Nat \ {0}
    /\ QueueSize \in Nat \ {0}
ASSUME BoundsAssumption ==
    MaxConns \in Nat /\ MaxKills \in Nat /\ Pipelined \in BOOLEAN

Slots   == 0..(MaxClients - 1)
Conns   == 1..MaxConns          \* a connection is named by the id it is given
ASSUME CmdsAssumption == MaxCmds \in [Conns -> Nat]

Threads == 0..(NThreads - 1)
Tx      == NThreads             \* the transaction thread
Main    == NThreads + 1
Workers == Threads \cup {Tx}    \* threads that may run terminate_connection
Actors  == Workers \cup {Main}  \* threads that may call add_io_request

VARIABLES
    id,       \* clients[s].id, 0 for -1
    conn,     \* the connection that s's connfd and write_buf belong to
    count,    \* client_count
    accepted, \* last_connection_client_id - 1
    sock,     \* per connection: "none", "open", "hung" (by the peer), "closed"
    event,    \* connections with an edge-triggered event for the main thread
    sent,     \* per connection: commands the peer has sent
    unread,   \* of those, the ones still in the socket
    buf,      \* per connection: the response its write_buf holds, <<c, n>>
    rcvd,     \* per connection: the responses that reached the peer
    queue,    \* per I/O thread: [job, by] in order; by = Published, or the actor
              \* that has reserved the place and not yet published it
    notifier, \* per I/O thread
    left,     \* per I/O thread: jobs it still means to pop
    pc,       \* per actor
    job,      \* per actor: the job it executes or asks for
    sel,      \* per actor: the I/O thread add_io_request has selected
    todo,     \* the main thread: jobs still to ask for the current event
    txq,      \* commands on their way to execution: [slot, cmd]
    kills     \* CLIENT KILL commands so far

table == <<id, conn, count, accepted>>
peers == <<sock, event, sent, unread>>
io    == <<queue, notifier, left>>
vars  == <<table, peers, buf, rcvd, io, pc, job, sel, todo, txq, kills>>

Published == NThreads + 2
Cmd    == Conns \X Nat
NoCmd  == <<0, 0>>
Types  == {"READ", "WRITE", "TERMINATE"}
\* `of` is the connection the job was made for: the owner of the write_buf
\* that a WRITE job points to.
Job    == [type : Types, slot : Slots, of : 0..MaxConns]
NoJob  == [type |-> "READ", slot |-> 0, of |-> 0]

TypeOK ==
    /\ id \in [Slots -> 0..MaxConns]
    /\ conn \in [Slots -> 0..MaxConns]
    /\ count \in 0..MaxClients
    /\ accepted \in 0..MaxConns
    /\ sock \in [Conns -> {"none", "open", "hung", "closed"}]
    /\ event \subseteq Conns
    /\ sent \in [Conns -> Nat]
    /\ unread \in [Conns -> Nat]
    /\ buf \in [Conns -> Cmd \cup {NoCmd}]
    /\ rcvd \in [Conns -> Seq(Cmd)]
    /\ queue \in [Threads -> Seq([job : Job, by : Actors \cup {Published}])]
    /\ \A t \in Threads : Len(queue[t]) <= QueueSize
    /\ notifier \in [Threads -> Nat]
    /\ left \in [Threads -> Nat]
    /\ pc \in [Actors -> {"idle", "loop", "read", "write", "request", "publish",
                          "signal", "terminate", "remove", "uncount"}]
    /\ job \in [Actors -> Job]
    /\ sel \in [Actors -> Threads]
    /\ todo \in Seq(Types)
    /\ txq \in Seq([slot : Slots, cmd : Cmd])
    /\ kills \in 0..MaxKills

Init ==
    /\ id = [s \in Slots |-> 0]
    /\ conn = [s \in Slots |-> 0]
    /\ count = 0
    /\ accepted = 0
    /\ sock = [k \in Conns |-> "none"]
    /\ event = {}
    /\ sent = [k \in Conns |-> 0]
    /\ unread = [k \in Conns |-> 0]
    /\ buf = [k \in Conns |-> NoCmd]
    /\ rcvd = [k \in Conns |-> <<>>]
    /\ queue = [t \in Threads |-> <<>>]
    /\ notifier = [t \in Threads |-> 0]
    /\ left = [t \in Threads |-> 0]
    /\ pc = [a \in Actors |-> "idle"]
    /\ job = [a \in Actors |-> NoJob]
    /\ sel = [a \in Actors |-> 0]
    /\ todo = <<>>
    /\ txq = <<>>
    /\ kills = 0

Goto(a, l) == pc' = [pc EXCEPT ![a] = l]
Ask(a, j)  == job' = [job EXCEPT ![a] = j] /\ Goto(a, "request")
\* Where a thread goes when it is done with its job.
Back(a)    ==
    /\ Goto(a, IF a \in Threads THEN "loop" ELSE "idle")
    /\ job' = [job EXCEPT ![a] = NoJob]

-----------------------------------------------------------------------------
(***************************************************************************)
(* The table of clients: open addressing from id % max_clients             *)
(***************************************************************************)
Probe(i) == [n \in 0..(MaxClients - 1) |-> (i + n) % MaxClients]

\* get_available_client_slot: the first free slot.
FreeSlot(i) ==
    LET p == Probe(i)
    IN  p[CHOOSE n \in DOMAIN p : id[p[n]] = 0 /\ \A m \in 0..(n - 1) : id[p[m]] # 0]

\* get_client(i) finds i: no free slot comes before it.
Found(i) ==
    LET p == Probe(i)
    IN  i # 0 /\ \E n \in DOMAIN p : id[p[n]] = i /\ \A m \in 0..(n - 1) : id[p[m]] # 0

-----------------------------------------------------------------------------
(***************************************************************************)
(* The peers (external).  A command arrives whole; one that comes in two   *)
(* segments gives two events, as two commands do.                          *)
(***************************************************************************)
PeerSend(k) ==
    /\ sock[k] = "open"
    /\ sent[k] < MaxCmds[k]
    /\ Pipelined \/ Len(rcvd[k]) = sent[k]
    /\ sent' = [sent EXCEPT ![k] = @ + 1]
    /\ unread' = [unread EXCEPT ![k] = @ + 1]
    /\ event' = event \cup {k}
    /\ UNCHANGED <<table, sock, buf, rcvd, io, pc, job, sel, todo, txq, kills>>

PeerHangUp(k) ==
    /\ sock[k] = "open"
    /\ sock' = [sock EXCEPT ![k] = "hung"]
    /\ event' = event \cup {k}
    /\ UNCHANGED <<table, sent, unread, buf, rcvd, io, pc, job, sel, todo, txq, kills>>

-----------------------------------------------------------------------------
(***************************************************************************)
(* The main thread: handle_events                                          *)
(***************************************************************************)

\* accept_client turns a connection away at the limit.
AtLimit == count = MaxClients

\* Otherwise add_client takes it into the first free slot.
Accept ==
    /\ pc[Main] = "idle"
    /\ accepted < MaxConns
    /\ ~AtLimit
    /\ LET k == accepted + 1
           s == FreeSlot(k)
       IN  /\ id' = [id EXCEPT ![s] = k]
           /\ conn' = [conn EXCEPT ![s] = k]
           /\ sock' = [sock EXCEPT ![k] = "open"]
           /\ accepted' = k
    /\ count' = count + 1
    /\ UNCHANGED <<event, sent, unread, buf, rcvd, io, pc, job, sel, todo, txq, kills>>

\* Seeded fault: every event is taken for a hang-up.
TakeEventClosed(k) ==
    /\ pc[Main] = "idle"
    /\ k \in event
    /\ event' = event \ {k}
    /\ \E s \in Slots :
          /\ conn[s] = k
          /\ Ask(Main, [type |-> "READ", slot |-> s, of |-> k])
    /\ todo' = <<"TERMINATE">>
    /\ UNCHANGED <<table, sock, sent, unread, buf, rcvd, io, sel, txq, kills>>

\* An event of connection k: a READ job, and a TERMINATE job after it if the
\* peer has hung up.  The event carries the slot k was accepted into.
TakeEvent(k) ==
    /\ pc[Main] = "idle"
    /\ k \in event
    /\ event' = event \ {k}
    /\ \E s \in Slots :
          /\ conn[s] = k
          /\ Ask(Main, [type |-> "READ", slot |-> s, of |-> k])
    /\ todo' = IF sock[k] = "hung" THEN <<"TERMINATE">> ELSE <<>>
    /\ UNCHANGED <<table, sock, sent, unread, buf, rcvd, io, sel, txq, kills>>

-----------------------------------------------------------------------------
(***************************************************************************)
(* add_io_request, in any thread                                           *)
(***************************************************************************)

\* The caller goes on: only the main thread may have a second job to ask for.
Done(a) ==
    IF a = Main /\ todo # <<>>
    THEN /\ Ask(a, [job[a] EXCEPT !.type = Head(todo)])
         /\ todo' = Tail(todo)
    ELSE Back(a) /\ UNCHANGED todo

\* A client that is gone: nothing is queued.
RequestGone(a) ==
    /\ pc[a] = "request"
    /\ id[job[a].slot] = 0
    /\ Done(a)
    /\ UNCHANGED <<table, peers, buf, rcvd, io, sel, txq, kills>>

\* Seeded fault: a job is queued although the queue is full.
RequestUnchecked(a) ==
    /\ pc[a] = "request"
    /\ id[job[a].slot] # 0
    /\ LET t == id[job[a].slot] % NThreads
       IN  /\ sel' = [sel EXCEPT ![a] = t]
           /\ queue' = [queue EXCEPT ![t] = Append(@, [job |-> job[a], by |-> a])]
    /\ Goto(a, "publish")
    /\ UNCHANGED <<table, peers, buf, rcvd, notifier, left, job, todo, txq, kills>>

\* The thread is selected by the id the slot has now.  push_tqueue reserves a
\* place; on a full queue it fails, which add_io_request does not look at.
Request(a) ==
    /\ pc[a] = "request"
    /\ id[job[a].slot] # 0
    /\ LET t == id[job[a].slot] % NThreads
       IN  /\ sel' = [sel EXCEPT ![a] = t]
           /\ IF Len(queue[t]) < QueueSize
              THEN /\ queue' = [queue EXCEPT ![t] = Append(@, [job |-> job[a], by |-> a])]
                   /\ Goto(a, "publish")
              ELSE Goto(a, "signal") /\ UNCHANGED queue
    /\ UNCHANGED <<table, peers, buf, rcvd, notifier, left, job, todo, txq, kills>>

Publish(a) ==
    /\ pc[a] = "publish"
    /\ queue' = [queue EXCEPT ![sel[a]] =
          [i \in DOMAIN @ |-> IF @[i].by = a THEN [@[i] EXCEPT !.by = Published] ELSE @[i]]]
    /\ Goto(a, "signal")
    /\ UNCHANGED <<table, peers, buf, rcvd, notifier, left, job, sel, todo, txq, kills>>

Signal(a) ==
    /\ pc[a] = "signal"
    /\ notifier' = [notifier EXCEPT ![sel[a]] = @ + 1]
    /\ sel' = [sel EXCEPT ![a] = 0]
    /\ Done(a)
    /\ UNCHANGED <<table, peers, buf, rcvd, queue, left, txq, kills>>

-----------------------------------------------------------------------------
(***************************************************************************)
(* io_thread_procedure and catch_op_and_execute                            *)
(***************************************************************************)
Consume(t) ==
    /\ pc[t] = "idle"
    /\ notifier[t] > 0
    /\ left' = [left EXCEPT ![t] = notifier[t]]
    /\ notifier' = [notifier EXCEPT ![t] = 0]
    /\ Goto(t, "loop")
    /\ UNCHANGED <<table, peers, buf, rcvd, queue, job, sel, todo, txq, kills>>

PopReady(t) == queue[t] # <<>> /\ Head(queue[t]).by = Published

\* The for loop ends: all counted jobs are done, or a pop failed, in which
\* case the rest of the count is dropped.
EndLoop(t) ==
    /\ pc[t] = "loop"
    /\ left[t] = 0 \/ ~PopReady(t)
    /\ left' = [left EXCEPT ![t] = 0]
    /\ Goto(t, "idle")
    /\ UNCHANGED <<table, peers, buf, rcvd, queue, notifier, job, sel, todo, txq, kills>>

\* A job for a client that is gone is dropped.
Catch(t) ==
    /\ pc[t] = "loop"
    /\ left[t] > 0
    /\ PopReady(t)
    /\ LET j == Head(queue[t]).job
       IN  IF id[j.slot] = 0 THEN Back(t)
           ELSE /\ job' = [job EXCEPT ![t] = j]
                /\ Goto(t, CASE j.type = "READ" -> "read"
                             [] j.type = "WRITE" -> "write"
                             [] j.type = "TERMINATE" -> "terminate")
    /\ queue' = [queue EXCEPT ![t] = Tail(@)]
    /\ left' = [left EXCEPT ![t] = @ - 1]
    /\ UNCHANGED <<table, peers, buf, rcvd, notifier, sel, todo, txq, kills>>

\* The commands connection k, in slot s, has waiting in its socket.
Waiting(s, k) ==
    [i \in 1..unread[k] |-> [slot |-> s, cmd |-> <<k, sent[k] - unread[k] + i>>]]

\* Seeded fault: commands stay in the socket buffer after they were parsed.
ReadKeeps(t) ==
    /\ pc[t] = "read"
    /\ LET s == job[t].slot
           k == conn[s]
       IN  IF sock[k] \in {"open", "hung"} /\ unread[k] = 0
           THEN Ask(t, [job[t] EXCEPT !.type = "TERMINATE"]) /\ UNCHANGED txq
           ELSE txq' = txq \o Waiting(s, k) /\ Back(t)
    /\ UNCHANGED <<table, peers, buf, rcvd, io, sel, todo, kills>>

\* read_command: what the socket holds becomes commands.  A socket that holds
\* nothing gives a size of 0, for which a TERMINATE job is asked, be it at end of
\* file or on an open connection whose data an earlier job has read.  At end of
\* file read_from_socket looks at an errno that read() has not set: unless it
\* happens to be EAGAIN the call fails, and what was read before is dropped.  On
\* a closed socket nothing is read.
Read(t) ==
    /\ pc[t] = "read"
    /\ LET s == job[t].slot
           k == conn[s]
       IN  \/ /\ sock[k] \in {"open", "hung"} /\ unread[k] > 0
              /\ txq' = txq \o Waiting(s, k)
              /\ unread' = [unread EXCEPT ![k] = 0]
              /\ Back(t)
           \/ /\ sock[k] \in {"open", "hung"} /\ unread[k] = 0
              /\ Ask(t, [job[t] EXCEPT !.type = "TERMINATE"])
              /\ UNCHANGED <<txq, unread>>
           \/ /\ sock[k] = "hung"
              /\ unread' = [unread EXCEPT ![k] = 0]
              /\ Back(t)
              /\ UNCHANGED txq
           \/ /\ sock[k] = "closed"
              /\ Back(t)
              /\ UNCHANGED <<txq, unread>>
    /\ UNCHANGED <<table, sock, event, sent, buf, rcvd, io, sel, todo, kills>>

\* write_to_socket: the bytes are read from the buffer now.  A failing write(),
\* on a socket that is gone or, with EAGAIN, full, ends the call; nobody looks at
\* that, and a response cut short counts as one that never came.
Write(t) ==
    /\ pc[t] = "write"
    /\ LET k == conn[job[t].slot]
       IN  \/ sock[k] = "open" /\ rcvd' = [rcvd EXCEPT ![k] = Append(@, buf[job[t].of])]
           \/ UNCHANGED rcvd
    /\ Back(t)
    /\ UNCHANGED <<table, peers, buf, io, sel, todo, txq, kills>>

-----------------------------------------------------------------------------
(***************************************************************************)
(* terminate_connection, in an I/O thread or in the transaction thread     *)
(***************************************************************************)

\* Seeded fault: the result of REMOVE_EVENT is not looked at.
CloseUnchecked(a) ==
    /\ pc[a] = "terminate"
    /\ LET k == conn[job[a].slot]
       IN  /\ sock' = [sock EXCEPT ![k] = "closed"]
           /\ event' = event \ {k}
    /\ Goto(a, "remove")
    /\ UNCHANGED <<table, sent, unread, buf, rcvd, io, job, sel, todo, txq, kills>>

\* REMOVE_EVENT fails, and the call returns, if the socket is already closed.  That
\* the kernel has not given the descriptor's number to a new connection between
\* two terminations of one client is assumed: with one slot none is accepted
\* before the first termination is over.
Close(a) ==
    /\ pc[a] = "terminate"
    /\ LET k == conn[job[a].slot]
       IN  IF sock[k] = "closed" THEN Back(a) /\ UNCHANGED <<sock, event>>
           ELSE /\ sock' = [sock EXCEPT ![k] = "closed"]
                /\ event' = event \ {k}
                /\ Goto(a, "remove")
                /\ UNCHANGED job
    /\ UNCHANGED <<table, sent, unread, buf, rcvd, io, sel, todo, txq, kills>>

\* Seeded fault: client_count is decremented before the slot is free.
RemoveCountsFirst(a) ==
    /\ pc[a] = "remove"
    /\ Found(id[job[a].slot])
    /\ count' = count - 1
    /\ Goto(a, "uncount")
    /\ UNCHANGED <<id, conn, accepted, peers, buf, rcvd, io, job, sel, todo, txq, kills>>

\* ASSERT(remove_client(client->id), ==, true): the slot is marked free ...
\* When get_client does not find the client the assertion ends the process:
\* there is no step (RemoveFindsClient).
Remove(a) ==
    /\ pc[a] = "remove"
    /\ Found(id[job[a].slot])
    /\ id' = [id EXCEPT ![job[a].slot] = 0]
    /\ Goto(a, "uncount")
    /\ UNCHANGED <<conn, count, accepted, peers, buf, rcvd, io, job, sel, todo, txq, kills>>

\* ... and client_count is decremented last.
Uncount(a) ==
    /\ pc[a] = "uncount"
    /\ count' = count - 1
    /\ Back(a)
    /\ UNCHANGED <<id, conn, accepted, peers, buf, rcvd, io, sel, todo, txq, kills>>

-----------------------------------------------------------------------------
(***************************************************************************)
(* The transaction thread                                                  *)
(***************************************************************************)

\* A command is executed and its response formatted into the write_buf of
\* whoever the slot belongs to now; without a client there is no response.
Execute ==
    /\ pc[Tx] = "idle"
    /\ txq # <<>>
    /\ LET c == Head(txq)
           k == conn[c.slot]
       IN  IF id[c.slot] = 0 THEN UNCHANGED <<buf, pc, job>>
           ELSE /\ buf' = [buf EXCEPT ![k] = c.cmd]
                /\ Ask(Tx, [type |-> "WRITE", slot |-> c.slot, of |-> k])
    /\ txq' = Tail(txq)
    /\ UNCHANGED <<table, peers, rcvd, io, sel, todo, kills>>

\* CLIENT KILL i: terminate_connection on the client that get_client finds.
Kill(s) ==
    /\ pc[Tx] = "idle"
    /\ kills < MaxKills
    /\ id[s] # 0 /\ Found(id[s])
    /\ kills' = kills + 1
    /\ job' = [job EXCEPT ![Tx] = [type |-> "TERMINATE", slot |-> s, of |-> id[s]]]
    /\ Goto(Tx, "terminate")
    /\ UNCHANGED <<table, peers, buf, rcvd, io, sel, todo, txq>>

-----------------------------------------------------------------------------
Calls(a) == RequestGone(a) \/ Request(a) \/ Publish(a) \/ Signal(a)
Ends(a)  == Close(a) \/ Remove(a) \/ Uncount(a)
IOStep(t) == Consume(t) \/ EndLoop(t) \/ Catch(t) \/ Read(t) \/ Write(t) \/ Calls(t) \/ Ends(t)
TxStep   == Execute \/ Calls(Tx) \/ Ends(Tx)
MainStep == (\E k \in Conns : TakeEvent(k)) \/ Calls(Main)

Next ==
    \/ \E k \in Conns : PeerSend(k) \/ PeerHangUp(k)
    \/ \E s \in Slots : Kill(s)
    \/ Accept
    \/ MainStep
    \/ TxStep
    \/ \E t \in Threads : IOStep(t)

Spec == Init /\ [][Next]_vars

\* Threads that can run do run; peers and administrators owe nothing.
FairSpec ==
    /\ Spec
    /\ WF_vars(MainStep)
    /\ WF_vars(TxStep)
    /\ \A t \in Threads : WF_vars(IOStep(t))

-----------------------------------------------------------------------------
(***************************************************************************)
(* Properties                                                              *)
(***************************************************************************)

\* accept_client checks client_count and then looks for a free slot without a
\* bound: whenever the count lets it start there is one, also while an I/O
\* thread or CLIENT KILL is half way through remove_client.
AcceptFindsSlot == ~AtLimit => \E s \in Slots : id[s] = 0

\* terminate_connection asserts that remove_client finds the client it was
\* called for, whichever of the I/O threads and the transaction thread
\* terminate it, together or one after the other.
RemoveFindsClient ==
    \A a \in Workers : pc[a] = "remove" => Found(id[job[a].slot])

\* The i-th response that connection k gets is the one to its i-th command.
OwnResponses(k) == \A i \in DOMAIN rcvd[k] : rcvd[k][i] = <<k, i>>

\* A peer that waits for its answers gets its own, each once and in order,
\* through a write_buf that no later response has overwritten.  This is so for
\* the connections that are the first ones in their slots, which the first
\* max_clients connections are.
FirstTenantsServed == \A k \in Conns : k <= MaxClients => OwnResponses(k)

\* For the same connections, only CLIENT KILL closes one whose peer waits for its
\* answers and has not hung up: however late a READ job is executed, the command
\* it was asked for is still in the socket, so none finds the socket empty.  A
\* peer that sends before it has its answer gives two READ jobs of which the first
\* may take both commands: the second closes the connection (MCIOPipelined.cfg).
FirstTenantsKeptOpen ==
    [][\A k \in Conns :
          k <= MaxClients /\ sock[k] = "open" /\ sock'[k] = "closed" =>
              pc[Tx] = "terminate" /\ job[Tx].of = k]_vars

\* Every job that add_io_request has queued is dequeued by its I/O thread.
EveryJobDequeued ==
    \A t \in Threads : (queue[t] # <<>>) ~> (queue[t] = <<>>)
=============================================================================
