# A TLA+ verification of tellydb

tellydb is an in-memory key-value server written in C. It runs a main thread
(an epoll loop), one transaction thread that executes every command, `N` I/O
threads, and at times a background saving thread. The threads share lock-free
queues, eventfd notifiers, a table of clients and, per client, a query buffer,
a response buffer and a block of queued commands. This directory models that
machinery, the data the commands work on, the passwords that guard it and the
file it is saved to. TLC checks the models on small instances; TLAPS proves the safety
properties of all eight modules for all instances, with one exception (section 5).

Paths below are relative to the repository root.

## 1. Inventory

| Component | State | Operations | Interacts with | Correct when |
| --- | --- | --- | --- | --- |
| Lock-free queue, `src/utils/tqueue.c` | `at`, `end`, per slot a sequence number and a payload | push, pop, estimate | transaction queue, I/O job queues, log ring | it is a bounded FIFO queue under any interleaving; payload copies never race |
| Transactions, `src/transactions/` | `tx_queue`, `tx_notifier`, `kill_pending` | `add_transaction`, `transaction_thread`, MULTI, EXEC, DISCARD, shutdown | I/O threads push, the transaction thread pops, answers go to I/O threads | one signal per block; commands run once, in order, and inside their block |
| Command reading, `src/server/read_command.c` | `read_buf` with a reference count, `client->command` | parse, route, answer QUEUED | RESP parser, transactions | every command is answered exactly once |
| I/O threads, `src/io/` | per thread a job queue, a notifier, a status | `add_io_request`, `io_thread_procedure`, destroy | called by every thread | every job is executed, on the connection it was made for |
| Events and clients, `src/server/events.c`, `client.c` | slots (open addressing), `client_count`, `last_connection_client_id` | accept, look up, remove | I/O threads and CLIENT KILL remove, the main thread adds | a client is found until it is removed; a free slot exists when the count says so |
| Start and stop, `src/server/server.c` | `server->closed` | `start_server`, `close_server`, `cleanup` | all threads | every thread ends, nothing is used after it is freed |
| Key space, `src/database/`, `src/commands/{kv,list,hashtable}` | databases, typed values, expiries | the data commands | transaction thread only | type discipline, atomic commands |
| Containers, `src/utils/hashtable.c` and others | buckets, nodes | insert, delete, grow, iterate | key space | equal to the abstract map or list |
| Authorization, `src/server/auth.c` | password list, per client a password | AUTH, PWD ADD/EDIT/REMOVE | key space file, clients | permissions never exceed those of the password |
| Persistence, `src/database/file`, `src/database/read` | the database file, `saving`, the file offset | SAVE, BGSAVE, autosave, save at exit, load | transaction, saving and main threads | what is loaded is what was saved |
| Log ring, `src/utils/logging.c` | a queue of lines | `write_log`, save | every thread | no assertion fails when it is full |
| RESP, configuration, numbers | none that lasts | parse, format | command reading | - |

What is hard here: five kinds of thread meet on queues whose push and pop are
several atomic steps long; a wake-up is a counter that is separate from the
queue it counts; a client is named by the address of a slot that may change
hands while the name is in a queue; a password and a query buffer are named by
pointers that queued commands keep; the decision to hold a command in a MULTI
block is taken in another thread than the one that opens the block; shutdown
tears down what other threads still use; saving overwrites the only copy of the
data in place, from up to three threads. `PROJECT.json` lists these hazards line
by line, with the properties that are about them.

## 2. Plan

| | Modules | State |
| --- | --- | --- |
| 1 | `TQueue`, its abstract specification `ReserveFifo`, `TQueueProofs` | done |
| 2 | `TxPipeline`: the way of a command to its execution, on the interface of `ReserveFifo` | done |
| 3 | `IOPath`: connections, the client table, I/O jobs and responses | done |
| 4 | `SaveFile`: saves by three threads on one file, failures, crashes, loading | done |
| 5 | `HashTable` with its abstract specification `KVMap`; `Keyspace`: databases and data commands on abstract maps | done |
| 6 | `Auth`: passwords, permissions, and the clients and queued commands that use them | done |
| 7 | `QueryBuffer`: the buffer that read_command and queued commands share | done |
| 8 | `LogRing`, and a composition of `TxPipeline` and `IOPath` in which a client disconnects with a block in the queue | left |

The proofs cover every invariant, action property and refinement that the passing runs
check but one, `RemoveFindsClient` (section 5); that one and liveness are left to TLC. Left:
step 8, and theorems about it.

## 3. The modules

### TQueue, ReserveFifo

One action per atomic load, store, compare-and-swap and `memcpy` of
`push_tqueue` and `pop_tqueue`; `pc[t]` is the place in the function and `tkt[t]`
its local copy of `end` or `at`. The sequence number of a slot is the ticket it
is free for, or the ticket it holds plus one. `PushClaimFail` covers a failing
compare-and-swap, spurious failures of the weak form included. Memory is
sequentially consistent: payloads are only touched between an acquire and a
release of the slot's sequence number, so weaker orders add no behaviour for
them. Tickets are unbounded (64-bit in the code); TLC bounds them by `MaxTicket`.

`ReserveFifo` is what the callers rely on: a place is reserved, later published,
and only the oldest place, once published, can be taken. `Fifo` maps a claimed
ticket to a reserved place and a pop's compare-and-swap to the taking.

### TxPipeline

`iopc[c]` follows the I/O thread of client `c` through `read_command` and
`add_transaction`, `txpc` the transaction thread, `mainpc` the `cleanup` of the
main thread. Commands are `MULTI`, `EXEC`, `DISCARD` and `OP`, any other command.
`script`, `acks` and `log` are histories: what each client sent, how many answers
it got, what was executed. `blocks` are the blocks MULTI allocated, with the state
the allocator and the queue give them. Execution of a command, with its answer
and the release of the block, is one step, as only the transaction thread does it;
EXEC's push and signal are part of it (its own thread is the consumer). Two clients
whose ids share an I/O thread are never inside `read_command` together; the model
lets every client have a thread of its own, which allows more interleavings.
`client->waiting_block` is read once on the way into `add_transaction`; the second
read of it a few instructions later is merged with the first.
Once the transaction thread has ended, `tx_notifier` is destroyed: a signal that comes later,
from an I/O thread or from `destroy_transaction_thread`, goes nowhere or fails the assertion
of `signal_notifier`, which ends the process (`SignalFails`, `KillSignalFails`, `Abort`).
Left out: disconnects, permissions, expiry, autosave, allocation failures.

### IOPath

Every thread is an actor: the I/O threads, the transaction thread and the main
thread. `pc[a]` says where the actor is in `io_thread_procedure`,
`add_io_request` or `terminate_connection`. `id` and `conn` are the table: a slot
whose `id` is 0 is free, and keeps the socket and buffer of its last connection.
A job carries a slot and, as a history, the connection it was made for, which for
a WRITE job is also the owner of the buffer it points to. Sockets are abstracted to
the number of commands in them; a command that arrives in two segments is two of them
here. A READ job that finds nothing to read asks for TERMINATE, on an open connection too;
the outcome of a read at end of file depends on a left-over `errno` in the code and is a
choice in the model. A write may fail or be cut short, and then counts as no response. Left
out: TLS, batches of epoll events, start-up and destruction of the threads, memory that
`free_client` frees under a thread that still uses it, and reuse of file descriptor numbers:
between two terminations of one client the kernel may give its number to a new connection,
which the second one would close. With one slot, as in the run, none is accepted in between.

### HashTable, KVMap

`elements` is the array, `count` and `capacity` its fields. Insertion (with or
without growth, and with a growth that runs out of memory), lookup and clearing are
one step each; deletion is a step for the removal and one for each slot its repair
loop looks at, `repair` being the loop's two indices. The hash function is any
function into `HashValues`, fixed in `Init`. `Leftover` is what a slot of newly
allocated memory may hold: `grow_hashtable` does not clear it. The history `zeroed` says
whether every growth so far, or since the last clear, got zeroed memory; the properties of
the contents are stated for such tables, the type invariant and the end of deletions for
all. On stale memory the count may fall below zero, which wraps it (`CountMax` stands for
the largest `uint64_t`). `KVMap` is a map with
an answer to every call; the refinement mapping is `Contents`, which ignores
positions, so that every step of a repair must be a stutter. The hash set
(`utils/hashset.c`) repeats the scheme.

### Keyspace

Commands run in the transaction thread only, so each is one step. A command is an
operator that returns the outcomes it may have: the data it leaves in the database
its transaction captured, and whether it answered with a value or an error, or
followed a bad pointer (`Faults`; the server is then down). What matters of a word is
how `SET` and its relatives type it (`kind`) and how it came (`Framings`, since words
of inline commands and of RESP differ in what follows them). Hash tables are functions,
as `HashTable` justifies for zeroed memory; lists are sequences with the two outer links that pops leave
behind. `GetDatabase` follows the list of databases the way the code does.
`SET` with EX or PX and an integer runs into `unreachable()`: an error, or the end of the
process. Left out: running out of memory; expiry (no expiry option gets through, so no key
has one); the bytes of answers.

### SaveFile

`saver[t]` is a thread's call of `save_data`: the plain test of `saving` and its
setting are two steps, then one for each database, line and block put out, the last
block, `ftruncate` and closing. All savers share `offset`. A line is its size and the
estimate its buffer is allocated by, both translated from `generate.c` and `size.c`;
`file` keeps what the first block holds, how much of it is valid, and the size.
`Load` is what `read.c` makes of such a file: a set of at most one result, empty when it
does not load. `Readable` says of which lines the reader makes what was written. Databases
may share a name, as in the code. `Crash` may come between any two steps, `Restart` loads.
Error paths: `NoMemory`; `SaveFails`, at the last block or the truncation; `DumpFails`, a
write that fails inside the iteration over a database, after which `Interrupt` closes the
file and the iteration goes on with buffers that are freed, so that the process may end at any
later step (`FreedDies`); `DumpDies`, a line that has no generator or does not fit. `saved` is
a history: what the last save that no command and no other save overlapped has written. Left
out: a start that loads other values than were written (`Same`); the autosave of the
transaction thread, which runs into `unreachable()`; several writes by which the kernel
may complete one; what blocks after the first hold (a file that has them never loads).

### Auth

A client points to one of three constant password objects or to one that PWD ADD
allocated. `Accept` and `Join` are the two halves of `add_client`, between which the
slot is visible with the pointer of its last user. `Send` captures the pointer in a
transaction; the commands consume the head of `queue`, and `Readable` is what the
permission check may see: anything, if the object was freed. Objects are reused.
There are two permissions, the ones the commands of this module ask for. Left out: the
key derivation (equal passwords have equal keys, and it never fails, whereas `add_password`
would leave a counted password without an object) and CLIENT ID, INFO, LIST and SETINFO,
which do not touch passwords. `EarlierClientsReset` is about a server that starts without
passwords (`Loaded = {}`). With a loaded password it fails: who removes the last one keeps
the object `full`, whoever connects then gets `default` with all permissions, and the next
first password resets only the object of the client that adds it, which is `full`.

### QueryBuffer

The bytes of a command are pieces, one per `TAKE_BYTES`; they may be cut anywhere on
the way. `pc` follows `read_command` through the test of the reference count
(`ReadStart`), giving the reference up (`Unshare`), reading, parsing (`Take`), the
refill or growth at the end of a full buffer (`TakeMore`, which leads through the same
test again), and routing. A transaction holds a reference to one buffer and its
arguments point into one; `args` says whether they are still there. `Release` is
`remove_transaction_block`. Of what a short read leaves the parser may make anything.
Left out: CLIENT KILL, by which the transaction thread frees the buffer of a client that an
I/O thread is reading for (`IOPath`, which has the command, leaves freed memory out too); a
failing `realloc`; and a left-over `errno`. A socket with nothing to read ends the call with
a TERMINATE job here as well.

### MC modules and seeded faults

The `MC` modules only supply constants and symmetry sets.
Definitions commented "Seeded fault" change one action the way a plausible bug
would; substituted for the action they make TLC report the property listed beside
them under `mutants` in `PROJECT.json`. No specification uses them.

## 4. The runs

| Run | Instance | Shows |
| --- | --- | --- |
| `tqueue` | 2 producers, 2 consumers, 2 slots, 4 tickets | the queue refines `ReserveFifo` (`ImplementsFifo`), slots are exclusive, a push fails only on a full lap, the estimate never wraps |
| `tqueue_live` | 2 producers, 1 consumer, 2 slots, 4 tickets | `EveryTicketPopped` |
| `tx` | 3 clients, queue of 2, up to 4 commands (4 when the first is MULTI), shutdown at any time | signals balance, no spinning on an empty queue, held until EXEC, executed in order, no freed block in use, answered at most once |
| `tx_live` | 3 clients, queue of 2, MULTI and EXEC, shutdown | `EveryCommandAnswered`, `ShutdownCompletes` (or aborts on a late signal) |
| `tx_pipelined` | 2 clients that do not wait | expected violation of `HeldUntilExec` |
| `io` | 1 slot, 2 connections whose peers wait, 2 I/O threads, job queues of 2, one CLIENT KILL | accepting finds a slot, termination is arbitrated, the first connection of a slot gets exactly its responses and is not closed while its peer waits for one |
| `hashtable` | 3 keys, hashes 0, 2 and 7, tables of 1 and 3 slots that grow to at most 6, into zeroed and stale memory | in zeroed memory the table implements a map (`ImplementsMap`) through every state of a deletion, counts exactly and always has room; deletions end in any memory |
| `keyspace` | 2 keys, 1 field, 2 databases, lists of up to 2 | no empty collection stays under a key, a refused command changes nothing, a command does the same to the data when its client has gone |
| `savefile` | 2 lines, 2 database names, blocks of 84 bytes, 3 threads, 3 commands, 1 crash or closing, failing writes | what is counted is what is written, an undisturbed save of data that can be loaded reads back, closing ends |
| `save_crash` | the same | expected violation of `SaveIsAtomic` |
| `auth` | 2 slots, 2 values, 2 objects, queue of 2, no database file | connected clients hold passwords that exist, the first password resets those who came before, permissions grow only by an edit |
| `query` | 2 buffers of 2 pieces, 3 commands of 1 or 2 pieces | references are counted exactly, a read does not damage the arguments of queued commands (with two exceptions, which the property names) |

Eight more configurations check properties that the code violates; each can be run like
the others and ends in the counterexample that `findings` in `PROJECT.json` describes.

| Configuration | Module | Violated property |
| --- | --- | --- |
| `MCTQueueOne.cfg` | `MCTQueue` | `ImplementsFifo`, with one slot |
| `MCTxShutdown.cfg` | `MCTxPipeline` | `NotifierOutlivesSignals` |
| `MCIOTable.cfg` | `MCIOPath` | `RemoveFindsClient`, the assertion in `terminate_connection` |
| `MCIOStranded.cfg` | `MCIOPath` | `EveryJobDequeued` |
| `MCIOPipelined.cfg` | `MCIOPath` | `FirstTenantsKeptOpen`, with a peer that does not wait |
| `MCHashReused.cfg` | `MCHashTable` | `RoomLeft`, in memory that is not zero |
| `MCQueryFull.cfg` | `MCQueryBuffer` | `ArgumentsKept` |
| `MCQueryWedged.cfg` | `MCQueryBuffer` | `ReadEnds` |

Further properties are stated in the modules and do not hold of the code:
`NoPasswordAllPermissions`, `FullIsFull` and `CapturedPasswordsExist` (`Auth`),
`DatabasesFoundByName` and `NoFreedNodeTouched` (`Keyspace`), `NoLeak` (`QueryBuffer`).
Naming one of them as an INVARIANT in the configuration of its module shows the
behaviour.

**Why the bounds are enough.** A ring of two slots with four tickets wraps twice,
so a thread can hold a ticket of the lap before, of this lap, or of the one after.
Three clients on a queue of two blocks make it full while EXEC runs and while the
server closes; four commands are MULTI, a command, EXEC and something after it. One
slot and two connections are the smallest case of a slot changing hands, and with two
I/O threads the two connections have different threads. The three keys have
every combination of the hashes 0, 2 and 7: they share a home or have homes that follow one
another, and 2 and 7 lead to the last slot of a table of three and of two or four, so that
probes collide and wrap around; a table of one slot grows twice, one of three once. One
stale element is enough to make a count wrong and a key appear twice. Lists of two
have a first and a last element and become empty in two pops. A block of 84 bytes holds the header and one
password, and the longer line of the two needs a second block; one background thread, the
transaction thread and the main thread are all the code can have saving at once, except
for more BGSAVEs. Two password objects for two values make the memory of a removed password
reused. Commands of one and two pieces end inside a buffer of two, fill it, or cross its
end, and three of them leave two queued while the third is read.

Deadlock checking is off in all runs but those of `TQueue` and `HashTable`:
the bounded clients stop sending, and a closed or crashed server stops.
Symmetry is used in safety runs only.

**Fairness.** A thread that can take a step takes one (weak fairness per thread):
the operating system schedules every runnable thread. In `HashTable` this is the
continuation of a deletion, in `SaveFile` each saving thread and the exit of the main
thread, in `QueryBuffer` the I/O thread and the release of transactions. A late signal that
aborts the process in `TxPipeline` is one of the steps its thread may take. Clients, CLIENT
KILL, crashes and closing are under no obligation. For the queue itself a compare-and-swap
that is current again and again succeeds in the end (strong fairness of the claim):
otherwise one producer could lose to the others for ever, which the code permits and
only scheduling prevents.

**What the violations say.** They are disagreements between the code
and what its documentation or its assertions say; `PROJECT.json` quotes both.
- A queue of one slot loses values.
- MULTI followed at once by a command, which pipelining allows, executes the command outside the block.
- At shutdown `tx_notifier` may be destroyed before `destroy_transaction_thread`, or an I/O thread, has signalled it, which aborts the process.
- Two commands that arrive one after the other give two READ jobs; if the first takes both, the second takes the empty socket for a closed one, and the connection is terminated.
- `get_client` stops at a free slot although removal leaves holes in probe chains, so that an ordinary disconnect fails an assertion.
- An I/O thread that meets an unpublished place drops wake-ups, and a job may stay in its queue for ever.
- A save is not atomic: after a crash before its `ftruncate` the file does not load.
- A command that ends a full query buffer may lose its arguments, one that crosses its end moves those of the commands before it, and a command that does not parse keeps its I/O thread in the loop.
- A table grown into memory that is not zero may have no room left, and an insertion then does not end.

**Properties with exceptions.**
`FirstTenantsServed` and `FirstTenantsKeptOpen` are stated for the first connection of
a slot because a job names a slot only: a job left over from an earlier connection is
executed on the next one. `FirstTenantsKeptOpen` is further about peers that wait for their
answers. `ShutdownCompletes` has three outcomes: the end of `cleanup`; an abort on a signal to
the notifier that is gone; and an I/O thread that spins for ever on a full transaction queue
once the transaction thread is gone. `ImplementsMap`, `CountExact` and `InsertionHasRoom` are
about tables whose memory was zeroed (`zeroed`). `SavedReadsBack` is about saves that nothing
overlapped, of data that the reader can load at all (`Holdable`): less than a block, at most
one password, no null, no double, no integer of more than 128 bytes; the findings say why.
A null element of a list is read back when `malloc(0)` returns memory; this is not relied on.
`SizesAgree` leaves out two or more passwords for the same reason. `HeldPasswordsExist` is
about clients that are connected and set up, not about queued transactions.
`ArgumentsIntact` leaves out the command that ended a full buffer and those whose buffer
was reallocated.

## 5. The proofs

Each proof module extends the module it is about and is checked by `tlapm`. A theorem
holds for every value of the constants that satisfies the assumptions named in its module
(positive sizes, finite or disjoint sets; in `SaveFile` that `Lines` and `Names` are lines
and lengths of names, and that a block has at most 65535 bytes; in `HashTable` that the
largest count is above the largest capacity) and the hypothesis in the table. The facts about `%` and least
elements stand at the head of the modules that use them.

| Module | Theorem | Property | Hypothesis |
| --- | --- | --- | --- |
| `TQueueProofs` | `TypeCorrect` | `TypeOK` | |
| | `LedgerInvariant` | `Ledger`, the inductive invariant | `Capacity >= 2` |
| | `SlotExclusiveInvariant` | `SlotExclusive` | `Capacity >= 2` |
| | `EstimateInvariant` | `EstimateNeverNegative` | `Capacity >= 2` |
| | `FullOnlyWhenFullHolds` | `FullOnlyWhenFull` | `Capacity >= 2` |
| | `ImplementsFifoHolds` | `ImplementsFifo` | `Capacity >= 2` |
| `TxPipelineProofs` | `TypeCorrect` | `TypeOK` | |
| | `SignalsInvariant` | `SignalsMatchBlocks` | |
| | `SpinInvariant` | `SpinFindsBlock` | |
| | `AnsweredAtMostOnceInvariant` | `AnsweredAtMostOnce` | `Pipelined = FALSE` |
| | `NoFreedBlockInvariant` | `NoFreedBlockInUse` | `Pipelined = FALSE` |
| | `ExecutedInOrderInvariant` | `ExecutedInOrder` | `Pipelined = FALSE` |
| | `HeldUntilExecInvariant` | `HeldUntilExec` | `Pipelined = FALSE` |
| `IOPathProofs` | `TypeCorrect` | `TypeOK` | |
| | `AcceptFindsSlotInvariant` | `AcceptFindsSlot` | |
| | `FirstTenantFoundInvariant` | `FirstTenantFound` | |
| | `FirstTenantsKeptOpenHolds` | `FirstTenantsKeptOpen` | `Pipelined = FALSE` |
| | `FirstTenantsServedInvariant` | `FirstTenantsServed` | `Pipelined = FALSE` |
| `HashTableProofs` | `TypeCorrect` | `TypeOK` | |
| | `CountExactInvariant` | `CountExact` | |
| | `InsertionHasRoomInvariant` | `InsertionHasRoom` | |
| | `ImplementsMapHolds` | `ImplementsMap` | |
| `KeyspaceProofs` | `TypeCorrect` | `TypeOK` | |
| | `CollectionsNotEmptyInvariant` | `CollectionsNotEmpty` | |
| | `ErrorsChangeNothingHolds` | `ErrorsChangeNothing` | |
| | `SameEffectInvariant` | `SameEffectWithoutClient` | |
| `AuthProofs` | `TypeCorrect` | `TypeOK` | |
| | `HeldPasswordsExistInvariant` | `HeldPasswordsExist` | |
| | `GrowthIsEditHolds` | `GrowthIsEdit` | |
| | `EarlierClientsResetInvariant` | `EarlierClientsReset` | `Loaded = {}` |
| `QueryBufferProofs` | `TypeCorrect` | `TypeOK` | |
| | `ReferencesCountedInvariant` | `ReferencesCounted` | |
| | `ArgumentsIntactInvariant` | `ArgumentsIntact` | |
| `SaveFileProofs` | `TypeCorrect` | `TypeOK` | |
| | `SizesAgreeInvariant` | `SizesAgree` | |
| | `SavedReadsBackInvariant` | `SavedReadsBack` | |

**The hypotheses.** None of them is there to get a proof through: without each the code
behaves otherwise, and a configuration shows it. `Capacity >= 2`: `MCTQueueOne.cfg`; the
server's queues are larger. `Pipelined = FALSE`, a client that waits for its answer before
it sends again: `MCTxPipelined.cfg` for commands that slip out of a block, `MCIOPipelined.cfg`
for a connection that a second READ job closes; and two responses of one client share
`write_buf`. `Loaded = {}`: section 3. The theorems about `HashTable` have no hypothesis: the
memory of a growth is arbitrary, and `zeroed` is part of the properties.

**The inductive invariants.** None of the properties that matter is inductive as it stands.

*TQueue.* That two claimed tickets name different slots depends on how far apart they can
be. `Ledger` accounts for every ticket of the current lap. `Window` keeps
`at <= end <= at + Capacity`; a filling producer holds a ticket in the queue with its slot
unpublished (`FillingLedger`); an emptying consumer holds a ticket less than a lap old with
its slot unreleased (`EmptyingLedger`); every queued ticket is published or being filled
(`QueuedLedger`); every free ticket is released or being emptied (`FreeLedger`); and a
thread about to claim has a check that is still true if its ticket is still current
(`ChecksCurrent`). Two owners of one slot would then hold tickets that differ by a multiple
of the capacity (`SlotDistinct`), which the window and the sequence numbers exclude. The
refinement maps each queued ticket to a cell that is ready when its slot is published, and
shows step by step that a claim is a reservation, a store of the sequence number a
publication, a pop's compare-and-swap a taking, and everything else a stutter.

*TxPipeline.* `Basic` is the types with all indices of blocks in range (`Indices`), what
each program counter says of the others (`Phases`) and the block that a command is being
appended to (`Appending`). Signals are balanced by counting: `Pending` are the threads
between push and signal, and each action moves one unit between the queue, those threads,
the notifier and the count in hand. For clients that wait, `OneAtATime` says where the one
command of each client is (with its I/O thread, in the queue, in execution, in the open
block, answered) and that the two threads take turns on its waiting block; the places are
disjoint, from which single answers and the safety of blocks follow. `Sequenced` adds the
numbers of the commands that are still to come, all above those in the log, and `Held`
follows the last MULTI, EXEC or DISCARD before each command.

*IOPath.* `Tenants` says who a slot belongs to and that the first `MaxClients` connections
sit where their ids hash to; `Counted` that `client_count` is the used slots plus the
removals that have not decremented it yet, which leaves a free slot whenever the count is
below the limit; `Queued` and `Held` that a job naming the slot of a first tenant was made
for it, and that a TERMINATE job has a peer that has hung up, unless peers do not wait;
`Removing` that closing the socket arbitrates between two terminations. That a READ job of a
waiting peer never asks for TERMINATE on an open connection rests on `Fed`: a thread about to
read has something to read. `Reading` establishes it: the READ job of such a peer is in one
place only (`Sole`: an event, an actor that asks for or executes it, or an index of a job
queue), and while it is anywhere the command it was made for is still in the socket. For `FirstTenantsServed` the further invariant
`Serving` follows the one command a peer waits for: `Only(k, w, a, b)` says that it is
nowhere but at the place `w, a, b` (in the socket, in the transaction queue, with the
transaction thread, at an index of a job queue, or with an I/O thread), and that
`write_buf` holds its response from its execution on. Each action moves that place or
leaves it alone.

*HashTable.* In any memory `Typed` is inductive, with arrays that may hold anything. In zeroed
memory `Inv` is: `Stored` is the array without a key twice and with an exact count. `Findable`
says that no empty slot lies between a key's home and its place, in the sense of the circle
of slots (`Within`); during a deletion the hole is the one exception, and only for keys
that its loop has not come to (`Hole`). Every round of the loop keeps this, and when the
loop ends nothing is excepted.

*Keyspace.* Each command maps well-formed data to well-formed data: `Value` and `Data` are
the values within the model's bounds, `Result` and `Draft` what a command computes before
the bounds are applied. INCR and DECR are proved for the key lists of the model,
which have at most two keys.

*Auth.* `Typed` with the list of passwords as an injective function into objects; freed
objects lose all their connected users in the step that frees them. For
`EarlierClientsReset`, once the object `default` has lost its permissions it never gets
them back.

*QueryBuffer.* `Counted` equates the reference count with the users of a buffer (finite
sets and their cardinalities); `Unread` says that nobody points into the buffer that is
about to be read into, across the steps between the test of the count and the read;
`Pointed` that arguments point into the buffer that is held for them.

*SaveFile.* `Saving` has two halves. `Counting` holds of every call of `save_data`, however
many there are at once: where its iterations are (`Placed`; databases are only added while
the process lives, so that a position stays one), and that the bytes counted are the bytes
put out, all but the block in hand being whole blocks (`Counted`); `AfterBlocks` is the
division in `dump_into_file`, after which the block holds at least a byte and may be exactly
full. `Undisturbed` holds of a save that nothing has overlapped: it is the only one, it has
put out the data as far as its cursors say (`PutOut`), and what it has put out is what is
before the shared offset and in its block (`Blocks`). A save whose write has failed is no
longer undisturbed, but still counts what it has put out. From this, `Truncate` establishes
`Kept`: the file holds `Whole(data)` and nobody who is saving has written since. That such a
file loads as just that data (`ReadsBack`) needs that no shorter prefix of the databases has
the same size (`PrefixSmaller`), since the reader stops where the bytes read are the file's
size. Sizes are sums over sets and sequences, written with `SumFunction` and
`SumFunctionOnSet` of the community modules. What these compute is proved without the
library's induction theorems, which take an operator: a least counterexample, by the size
of the set, comes from `WFMin` (`HasMin`, `NatSetInduction`), from which the function that
they choose exists, is unique, and adds up in any order (`SumExists`, `SumUnique`,
`SumAddElement`).

TLC has checked each inductive invariant on the instance of its run before it was proved.

**Only model-checked**: every liveness property (`EveryTicketPopped`,
`EveryCommandAnswered`, `ShutdownCompletes`, `DeletionEnds`, `ShutdownEnds`), since
fairness and `ENABLED` are out of the prover's reach; and `RemoveFindsClient`, on a table of
one slot, since it does not hold of larger ones (`MCIOTable.cfg`). Of larger tables
`FirstTenantFound` is proved, the part that does hold.

## 6. Not modelled

- **Log ring** (`utils/logging.c`): a test of the size and a push that are not one
  step, on the queue of `TQueue`; the rest is formatting and file I/O.
- **Configuration and arguments, number and string helpers, RESP grammar and answers**:
  straight-line parsing and formatting. What the parser takes from the query buffer is
  in `QueryBuffer`; sizes of numbers in the file are in `SaveFile`.
- **Server information commands** (INFO, COMMAND, HELLO, PING, TIME, AGE, CLIENT ID and
  LIST): they format what other components hold.
- **Hash set and vector**: they hold the command index and the keys of one command.
- **TLS**, key derivation, the macOS variants: external libraries, or marked untested in
  the source.
