----------------------------- MODULE TxPipeline -----------------------------
(***************************************************************************)
(* The path of a command from the socket to its execution:                 *)
(*                                                                         *)
(*   an I/O thread parses it (server/read_command.c) and calls             *)
(*   add_transaction (transactions/transactions.c), which pushes a block   *)
(*   into the transaction queue and signals tx_notifier, or appends to the *)
(*   block that MULTI left in client->waiting_block;                       *)
(*                                                                         *)
(*   the transaction thread (transactions/thread.c) waits for the          *)
(*   notifier, takes its counter and pops and executes that many blocks;   *)
(*                                                                         *)
(*   the main thread ends all this (server/server.c, cleanup).             *)
(*                                                                         *)
(* The queue is the one of ReserveFifo, which TQueue implements: a push    *)
(* reserves a place and publishes it in a later step.  Every client is     *)
(* served by an I/O thread of its own (client->id % io_thread_count), so   *)
(* the thread is named after its client.                                   *)
(***************************************************************************)
EXTENDS Naturals, Sequences, FiniteSets

CONSTANTS
    Clients,
    Menu,        \* the commands each client may send
    MaxCmds,     \* bound: how many commands each client sends
    QueueSize,   \* conf->max_transaction_blocks
    Pipelined,   \* may a client send before the last command is answered?
    Closing      \* may the server be closed?

Commands  == {"OP", "MULTI", "EXEC", "DISCARD"}
\* Commands with CMD_FLAG_WAITING_TX are never queued inside a block.
WaitingTx == {"MULTI", "EXEC", "DISCARD"}

ASSUME ClientsAssumption == IsFiniteSet(Clients) /\ Clients # {}
ASSUME MenuAssumption ==
    Menu \in [Clients -> SUBSET Commands] /\ MaxCmds \in [Clients -> Nat]
ASSUME SizeAssumption == QueueSize \in Nat \ {0}
ASSUME ModeAssumption == Pipelined \in BOOLEAN /\ Closing \in BOOLEAN

VARIABLES
    cells,      \* tx_queue: [blk, ready] in order
    notifier,   \* the counter of tx_notifier
    iopc,       \* per I/O thread: where it is in read_command
    script,     \* per client: the commands read so far
    acks,       \* per client: the responses it got
    wb,         \* client->waiting_block: 0 for NULL, else an index of blocks
    ref,        \* the waiting_block an I/O thread has read and not yet used
    blocks,     \* per client: the blocks MULTI allocated: [st, cmds]
    txpc,       \* where the transaction thread is
    count,      \* its local count of signalled blocks
    cur,        \* the block it popped
    log,        \* history: the commands executed, in order, as <<client, n>>
    kill,       \* kill_pending
    mainpc      \* how far cleanup has come in the main thread, or "aborted": an
                \* assertion has ended the process

txvars   == <<txpc, count, cur>>
hist     == <<script, acks, log>>
vars     == <<cells, notifier, iopc, script, acks, wb, ref, blocks, txpc, count,
              cur, log, kill, mainpc>>

\* A block is named by its client, by 0 (TX_DIRECT) or the index of the block
\* MULTI made (TX_MULTIPLE), and by the number of the command it carries.
Block == [client : Clients, multi : Nat, n : Nat]
Idle  == [client |-> CHOOSE c \in Clients : TRUE, multi |-> 0, n |-> 0]

TypeOK ==
    /\ cells \in Seq([blk : Block, ready : BOOLEAN])
    /\ Len(cells) <= QueueSize
    /\ notifier \in Nat
    /\ iopc \in [Clients -> {"idle", "route", "push", "publish", "signal", "append", "tail"}]
    /\ script \in [Clients -> Seq(Commands)]
    /\ acks \in [Clients -> Nat]
    /\ wb \in [Clients -> Nat]
    /\ ref \in [Clients -> Nat]
    /\ blocks \in [Clients -> Seq([st : {"waiting", "queued", "freed"}, cmds : Seq(Nat)])]
    /\ txpc \in {"loop", "wait", "drain", "spin", "try", "run", "dead"}
    /\ count \in Nat
    /\ cur \in Block
    /\ log \in Seq(Clients \X Nat)
    /\ kill \in BOOLEAN
    /\ mainpc \in {"serve", "signal", "join", "destroy", "done", "aborted"}

Init ==
    /\ cells = <<>>
    /\ notifier = 0
    /\ iopc = [c \in Clients |-> "idle"]
    /\ script = [c \in Clients |-> <<>>]
    /\ acks = [c \in Clients |-> 0]
    /\ wb = [c \in Clients |-> 0]
    /\ ref = [c \in Clients |-> 0]
    /\ blocks = [c \in Clients |-> <<>>]
    /\ txpc = "loop"
    /\ count = 0
    /\ cur = Idle
    /\ log = <<>>
    /\ kill = FALSE
    /\ mainpc = "serve"

Number(c)  == Len(script[c])
Command(c) == script[c][Number(c)]
Answer(c)  == acks' = [acks EXCEPT ![c] = @ + 1]
IOGoto(c, l) == iopc' = [iopc EXCEPT ![c] = l]

-----------------------------------------------------------------------------
(***************************************************************************)
(* read_command and add_transaction, in the I/O thread of client c         *)
(***************************************************************************)

\* The next command is parsed.  A client that does not pipeline has waited
\* for its answer.
ReadCommand(c, op) ==
    /\ iopc[c] = "idle"
    /\ mainpc \notin {"done", "aborted"}
    /\ Number(c) < MaxCmds[c]
    /\ Pipelined \/ acks[c] = Number(c)
    /\ script' = [script EXCEPT ![c] = Append(@, op)]
    /\ IOGoto(c, "route")
    /\ UNCHANGED <<cells, notifier, acks, wb, ref, blocks, txvars, log, kill, mainpc>>

\* Seeded fault: the waiting block is not looked at.
RouteDirect(c) ==
    /\ iopc[c] = "route"
    /\ IOGoto(c, "push")
    /\ UNCHANGED <<cells, notifier, hist, wb, ref, blocks, txvars, kill, mainpc>>

\* add_transaction reads client->waiting_block to choose its branch.  Only
\* this thread and the transaction thread touch it; the append that follows
\* is a later step, so the block may be queued or freed in between.
Route(c) ==
    /\ iopc[c] = "route"
    /\ \/ /\ wb[c] = 0 \/ Command(c) \in WaitingTx
          /\ IOGoto(c, "push")
          /\ UNCHANGED ref
       \/ /\ wb[c] # 0 /\ Command(c) \notin WaitingTx
          /\ IOGoto(c, "append")
          /\ ref' = [ref EXCEPT ![c] = wb[c]]
    /\ UNCHANGED <<cells, notifier, hist, wb, blocks, txvars, kill, mainpc>>

\* Seeded fault: the full queue is not noticed.
ReserveUnchecked(c) ==
    /\ iopc[c] = "push"
    /\ cells' = Append(cells, [blk   |-> [client |-> c, multi |-> 0, n |-> Number(c)],
                               ready |-> FALSE])
    /\ IOGoto(c, "publish")
    /\ UNCHANGED <<notifier, hist, wb, ref, blocks, txvars, kill, mainpc>>

\* The first half of push_tqueue; while the queue is full the thread spins.
Reserve(c) ==
    /\ iopc[c] = "push"
    /\ Len(cells) < QueueSize
    /\ cells' = Append(cells, [blk   |-> [client |-> c, multi |-> 0, n |-> Number(c)],
                               ready |-> FALSE])
    /\ IOGoto(c, "publish")
    /\ UNCHANGED <<notifier, hist, wb, ref, blocks, txvars, kill, mainpc>>

\* The second half: the block becomes visible to the transaction thread.
Publish(c) ==
    /\ iopc[c] = "publish"
    /\ cells' = [i \in DOMAIN cells |->
                    IF cells[i].blk.client = c /\ cells[i].blk.n = Number(c)
                    THEN [cells[i] EXCEPT !.ready = TRUE] ELSE cells[i]]
    /\ IOGoto(c, "signal")
    /\ UNCHANGED <<notifier, hist, wb, ref, blocks, txvars, kill, mainpc>>

\* Seeded fault: the block is pushed and nobody is told.
SignalLost(c) ==
    /\ iopc[c] = "signal"
    /\ IOGoto(c, "tail")
    /\ UNCHANGED <<cells, notifier, hist, wb, ref, blocks, txvars, kill, mainpc>>

\* signal_notifier(tx_notifier, 1).  Once the transaction thread has destroyed
\* the notifier (NotifierOutlivesSignals) its descriptor is read from freed
\* memory: the write goes nowhere, or fails its assertion (SignalFails).
Signal(c) ==
    /\ iopc[c] = "signal"
    /\ notifier' = IF txpc = "dead" THEN notifier ELSE notifier + 1
    /\ IOGoto(c, "tail")
    /\ UNCHANGED <<cells, hist, wb, ref, blocks, txvars, kill, mainpc>>

\* ASSERT in signal_notifier on a notifier that is gone: the process ends.
Abort ==
    /\ txpc = "dead"
    /\ mainpc' = "aborted"
    /\ UNCHANGED <<cells, notifier, iopc, hist, wb, ref, blocks, txvars, kill>>

SignalFails(c) == iopc[c] = "signal" /\ Abort

\* The other branch: the command joins the waiting block.  A block that was
\* freed in the meantime keeps nothing of it.
AppendToBlock(c) ==
    /\ iopc[c] = "append"
    /\ blocks' = IF blocks[c][ref[c]].st = "freed" THEN blocks
                 ELSE [blocks EXCEPT ![c][ref[c]].cmds = Append(@, Number(c))]
    /\ ref' = [ref EXCEPT ![c] = 0]
    /\ IOGoto(c, "tail")
    /\ UNCHANGED <<cells, notifier, hist, wb, txvars, kill, mainpc>>

\* Seeded fault: every command sent while a block is open is answered QUEUED.
TailAnswersAll(c) ==
    /\ iopc[c] = "tail"
    /\ IF wb[c] # 0 THEN Answer(c) ELSE UNCHANGED acks
    /\ IOGoto(c, "idle")
    /\ UNCHANGED <<cells, notifier, script, wb, ref, blocks, txvars, log, kill, mainpc>>

\* After add_transaction, client->waiting_block is read again to decide
\* whether the answer is QUEUED.
Tail_(c) ==
    /\ iopc[c] = "tail"
    /\ IF wb[c] # 0 /\ Command(c) \notin WaitingTx THEN Answer(c) ELSE UNCHANGED acks
    /\ IOGoto(c, "idle")
    /\ UNCHANGED <<cells, notifier, script, wb, ref, blocks, txvars, log, kill, mainpc>>

-----------------------------------------------------------------------------
(***************************************************************************)
(* transaction_thread                                                      *)
(***************************************************************************)
TxGoto(l) == txpc' = l

HeadReady == cells # <<>> /\ Head(cells).ready

\* The condition of the outer loop; on exit the notifier is destroyed and
\* kill_sem is posted.
TxLoop ==
    /\ txpc = "loop"
    /\ TxGoto(IF kill THEN "dead" ELSE "wait")
    /\ UNCHANGED <<cells, notifier, iopc, hist, wb, ref, blocks, count, cur, kill, mainpc>>

\* WAIT_EVENTS returns and consume_notifier takes the whole counter.
TxConsume ==
    /\ txpc = "wait"
    /\ notifier > 0
    /\ count' = notifier
    /\ notifier' = 0
    /\ TxGoto("drain")
    /\ UNCHANGED <<cells, iopc, hist, wb, ref, blocks, cur, kill, mainpc>>

\* The inner loop: with kill_pending set a failing pop is skipped, without it
\* the thread spins until a pop succeeds.
TxDrain ==
    /\ txpc = "drain"
    /\ TxGoto(IF count = 0 THEN "loop" ELSE IF kill THEN "try" ELSE "spin")
    /\ UNCHANGED <<cells, notifier, iopc, hist, wb, ref, blocks, count, cur, kill, mainpc>>

TxPop ==
    /\ txpc \in {"spin", "try"}
    /\ HeadReady
    /\ cur' = Head(cells).blk
    /\ cells' = Tail(cells)
    /\ TxGoto("run")
    /\ UNCHANGED <<notifier, iopc, hist, wb, ref, blocks, count, kill, mainpc>>

TxSkip ==
    /\ txpc = "try"
    /\ ~HeadReady
    /\ count' = count - 1
    /\ TxGoto("drain")
    /\ UNCHANGED <<cells, notifier, iopc, hist, wb, ref, blocks, cur, kill, mainpc>>

\* execute_transaction_block, then remove_transaction_block.
Finish ==
    /\ count' = count - 1
    /\ cur' = Idle
    /\ TxGoto("drain")
    /\ UNCHANGED <<iopc, script, ref, kill, mainpc>>

Running(op) ==
    /\ txpc = "run"
    /\ cur.multi = 0
    /\ script[cur.client][cur.n] = op

RunOp ==
    /\ Running("OP")
    /\ log' = Append(log, <<cur.client, cur.n>>)
    /\ Answer(cur.client)
    /\ Finish
    /\ UNCHANGED <<cells, notifier, wb, blocks>>

\* MULTI: an error if a block is open, else a new empty block.
RunMulti ==
    /\ Running("MULTI")
    /\ LET c == cur.client
       IN  IF wb[c] # 0 THEN UNCHANGED <<wb, blocks>>
           ELSE /\ blocks' = [blocks EXCEPT ![c] = Append(@, [st |-> "waiting", cmds |-> <<>>])]
                /\ wb' = [wb EXCEPT ![c] = Len(blocks'[c])]
    /\ Answer(cur.client)
    /\ Finish
    /\ UNCHANGED <<cells, notifier, log>>

\* Seeded fault: waiting_block still points to the block that was queued.
RunExecKeepsBlock ==
    /\ Running("EXEC")
    /\ LET c == cur.client
       IN  IF wb[c] = 0 \/ Len(cells) = QueueSize
           THEN Answer(c) /\ UNCHANGED <<cells, notifier, blocks>>
           ELSE /\ cells' = Append(cells, [blk   |-> [client |-> c, multi |-> wb[c], n |-> 0],
                                           ready |-> TRUE])
                /\ notifier' = notifier + 1
                /\ blocks' = [blocks EXCEPT ![c][wb[c]].st = "queued"]
                /\ UNCHANGED acks
    /\ Finish
    /\ UNCHANGED <<wb, log>>

\* Seeded fault: EXEC pushes its block and does not signal it.
RunExecUnsignalled ==
    /\ Running("EXEC")
    /\ LET c == cur.client
       IN  IF wb[c] = 0 \/ Len(cells) = QueueSize
           THEN Answer(c) /\ UNCHANGED <<cells, wb, blocks>>
           ELSE /\ cells' = Append(cells, [blk   |-> [client |-> c, multi |-> wb[c], n |-> 0],
                                           ready |-> TRUE])
                /\ blocks' = [blocks EXCEPT ![c][wb[c]].st = "queued"]
                /\ wb' = [wb EXCEPT ![c] = 0]
                /\ UNCHANGED acks
    /\ Finish
    /\ UNCHANGED <<notifier, log>>

\* Seeded fault: EXEC signals although its push has failed.
RunExecSignalsAlways ==
    /\ Running("EXEC")
    /\ LET c == cur.client
       IN  IF wb[c] = 0
           THEN Answer(c) /\ UNCHANGED <<cells, notifier, wb, blocks>>
           ELSE /\ notifier' = notifier + 1
                /\ IF Len(cells) = QueueSize
                   THEN Answer(c) /\ UNCHANGED <<cells, wb, blocks>>
                   ELSE /\ cells' = Append(cells, [blk   |-> [client |-> c, multi |-> wb[c], n |-> 0],
                                                   ready |-> TRUE])
                        /\ blocks' = [blocks EXCEPT ![c][wb[c]].st = "queued"]
                        /\ wb' = [wb EXCEPT ![c] = 0]
                        /\ UNCHANGED acks
    /\ Finish
    /\ UNCHANGED log

\* EXEC: an error if no block is open or the queue is full; else the block is
\* pushed and signalled, and is answered when it is executed.
RunExec ==
    /\ Running("EXEC")
    /\ LET c == cur.client
       IN  IF wb[c] = 0 \/ Len(cells) = QueueSize
           THEN Answer(c) /\ UNCHANGED <<cells, notifier, wb, blocks>>
           ELSE /\ cells' = Append(cells, [blk   |-> [client |-> c, multi |-> wb[c], n |-> 0],
                                           ready |-> TRUE])
                /\ notifier' = notifier + 1
                /\ blocks' = [blocks EXCEPT ![c][wb[c]].st = "queued"]
                /\ wb' = [wb EXCEPT ![c] = 0]
                /\ UNCHANGED acks
    /\ Finish
    /\ UNCHANGED log

\* Seeded fault: waiting_block still points to the block that was freed.
RunDiscardKeepsBlock ==
    /\ Running("DISCARD")
    /\ LET c == cur.client
       IN  blocks' = IF wb[c] = 0 THEN blocks
                     ELSE [blocks EXCEPT ![c][wb[c]].st = "freed"]
    /\ Answer(cur.client)
    /\ Finish
    /\ UNCHANGED <<cells, notifier, wb, log>>

\* DISCARD: an error if no block is open, else the block is freed.
RunDiscard ==
    /\ Running("DISCARD")
    /\ LET c == cur.client
       IN  IF wb[c] = 0 THEN UNCHANGED <<wb, blocks>>
           ELSE /\ blocks' = [blocks EXCEPT ![c][wb[c]].st = "freed"]
                /\ wb' = [wb EXCEPT ![c] = 0]
    /\ Answer(cur.client)
    /\ Finish
    /\ UNCHANGED <<cells, notifier, log>>

\* A TX_MULTIPLE block: all its commands in turn, one answer.
RunBlock ==
    /\ txpc = "run"
    /\ cur.multi # 0
    /\ LET c == cur.client
           b == blocks[c][cur.multi]
       IN  /\ log' = log \o [i \in DOMAIN b.cmds |-> <<c, b.cmds[i]>>]
           /\ blocks' = [blocks EXCEPT ![c][cur.multi].st = "freed"]
           /\ Answer(c)
    /\ Finish
    /\ UNCHANGED <<cells, notifier, wb>>

-----------------------------------------------------------------------------
(***************************************************************************)
(* cleanup, in the main thread                                             *)
(***************************************************************************)

\* destroy_transaction_thread: kill_pending is stored, then signalled.
KillStore ==
    /\ Closing
    /\ mainpc = "serve"
    /\ kill' = TRUE
    /\ mainpc' = "signal"
    /\ UNCHANGED <<cells, notifier, iopc, hist, wb, ref, blocks, txvars>>

\* Seeded fault: the transaction thread is not woken up.
KillSignalLost ==
    /\ mainpc = "signal"
    /\ mainpc' = "join"
    /\ UNCHANGED <<cells, notifier, iopc, hist, wb, ref, blocks, txvars, kill>>

KillSignal ==
    /\ mainpc = "signal"
    /\ notifier' = IF txpc = "dead" THEN notifier ELSE notifier + 1
    /\ mainpc' = "join"
    /\ UNCHANGED <<cells, iopc, hist, wb, ref, blocks, txvars, kill>>

\* The transaction thread saw kill_pending and destroyed the notifier first.
KillSignalFails == mainpc = "signal" /\ Abort

\* sem_wait(kill_sem), then send_destroy_signal_to_io_threads.
DestroyIO ==
    /\ mainpc = "join"
    /\ txpc = "dead"
    /\ mainpc' = "destroy"
    /\ UNCHANGED <<cells, notifier, iopc, hist, wb, ref, blocks, txvars, kill>>

\* Every I/O thread has left its loop; free_transaction_blocks empties the
\* queue without executing what is left in it.
FreeBlocks ==
    /\ mainpc = "destroy"
    /\ \A c \in Clients : iopc[c] = "idle"
    /\ cells' = <<>>
    /\ mainpc' = "done"
    /\ UNCHANGED <<notifier, iopc, hist, wb, ref, blocks, txvars, kill>>

-----------------------------------------------------------------------------
\* A process that has aborted has no threads.
Alive == mainpc # "aborted"

IOStep(c) ==
    /\ Alive
    /\ \/ Route(c)
       \/ Reserve(c)
       \/ Publish(c)
       \/ Signal(c) \/ SignalFails(c)
       \/ AppendToBlock(c)
       \/ Tail_(c)

TxStep ==
    /\ Alive
    /\ \/ TxLoop
       \/ TxConsume
       \/ TxDrain
       \/ TxPop
       \/ TxSkip
       \/ RunOp
       \/ RunMulti
       \/ RunExec
       \/ RunDiscard
       \/ RunBlock

MainStep ==
    \/ KillSignal \/ KillSignalFails
    \/ DestroyIO
    \/ FreeBlocks

Next ==
    \/ \E c \in Clients, op \in Commands : op \in Menu[c] /\ ReadCommand(c, op)
    \/ \E c \in Clients : IOStep(c)
    \/ TxStep
    \/ KillStore
    \/ MainStep

Spec == Init /\ [][Next]_vars

\* Threads that can run do run; clients need not send and the server need not
\* be closed.
FairSpec ==
    /\ Spec
    /\ \A c \in Clients : WF_vars(IOStep(c))
    /\ WF_vars(TxStep)
    /\ WF_vars(MainStep)
-----------------------------------------------------------------------------
(***************************************************************************)
(* Properties                                                              *)
(***************************************************************************)
Pending == {c \in Clients : iopc[c] \in {"publish", "signal"}}

\* While the server is serving, every block in tx_queue or in execution is
\* owed exactly one signal: already in the notifier, taken by the transaction
\* thread, or about to be sent by the I/O thread that pushed it.  One signal
\* too few leaves a block stranded in the queue, one too many makes the
\* transaction thread spin on an empty queue.
SignalsMatchBlocks ==
    mainpc = "serve" =>
        Len(cells) + (IF txpc = "run" THEN 1 ELSE 0)
            = notifier + count + Cardinality(Pending)

\* transaction_thread never spins in pop_tqueue on an empty queue: whenever it
\* is in the unbounded inner loop, a block is there or is being published.
SpinFindsBlock == txpc = "spin" => cells # <<>>

\* The last MULTI, EXEC or DISCARD of client c before its command n.
LastControl(c, n) ==
    LET before == {i \in 1..(n - 1) : script[c][i] \in WaitingTx}
    IN  IF before = {} THEN "OP"
        ELSE script[c][CHOOSE i \in before : \A j \in before : j <= i]

\* A command sent after MULTI is executed only once the client has sent EXEC:
\* add_transaction keeps it in the waiting block until then.
HeldUntilExec ==
    \A k \in DOMAIN log :
        LET c == log[k][1]
            n == log[k][2]
        IN  LastControl(c, n) = "MULTI" =>
                \E i \in (n + 1)..Number(c) : script[c][i] = "EXEC"

\* The commands of one client are executed in the order it sent them, each at
\* most once, whether they ran alone or inside a block.
ExecutedInOrder ==
    \A j, k \in DOMAIN log :
        j < k /\ log[j][1] = log[k][1] => log[j][2] < log[k][2]

\* No thread holds a transaction block that another one has freed: the block
\* an I/O thread is about to append to is still open, and every MULTI block
\* in the queue is still allocated.
NoFreedBlockInUse ==
    /\ \A c \in Clients : iopc[c] = "append" => blocks[c][ref[c]].st = "waiting"
    /\ \A i \in DOMAIN cells :
          LET b == cells[i].blk
          IN  b.multi # 0 => blocks[b.client][b.multi].st = "queued"

\* A command is never answered twice: QUEUED by the I/O thread and a result by
\* the transaction thread exclude each other.
AnsweredAtMostOnce == \A c \in Clients : acks[c] <= Number(c)

\* signal_notifier asserts that its write succeeds; nobody may be about to
\* signal tx_notifier after the transaction thread has destroyed it.
NotifierOutlivesSignals ==
    txpc = "dead" => /\ \A c \in Clients : iopc[c] # "signal"
                     /\ mainpc # "signal"

\* Every command that was read is answered, unless the server is closed.
EveryCommandAnswered ==
    \A c \in Clients : \A k \in 1..MaxCmds[c] :
        (Number(c) >= k) ~> (acks[c] >= k \/ kill)

\* Once kill_pending is set, cleanup runs to its end or a late signal aborts it:
\* it is never left waiting, unless an I/O thread is caught in add_transaction on
\* a full queue that nobody empties any more.  The abort takes a thread that
\* signals tx_notifier after the transaction thread has destroyed it
\* (NotifierOutlivesSignals).
ShutdownCompletes ==
    kill ~> \/ mainpc \in {"done", "aborted"}
            \/ Len(cells) = QueueSize /\ \E c \in Clients : iopc[c] = "push"
=============================================================================
