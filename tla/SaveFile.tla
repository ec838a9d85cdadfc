------------------------------ MODULE SaveFile ------------------------------
(***************************************************************************)
(* Saving and loading the database file: src/database/file, src/database/  *)
(* read, the SAVE and BGSAVE commands and close_server.  save_data is run  *)
(* by the transaction thread, by threads of BGSAVE and, when the server is *)
(* closed, by the main thread.  They share the flag `saving`, which is     *)
(* tested and set in two plain accesses, one file descriptor with one      *)
(* offset, and the data, which the transaction thread goes on changing.    *)
(*                                                                         *)
(* The file is kept at the level of bytes counted, not of bytes: what its  *)
(* first block holds, how many of its bytes are valid, and the file's      *)
(* size.  (A file of a block or more is never loaded, see Load, so what    *)
(* its other blocks hold makes no difference.)                             *)
(***************************************************************************)
EXTENDS Integers, Sequences, FiniteSets, SequencesExt, FiniteSetsExt

CONSTANTS
    Lines,         \* the key-value pairs there are, in the order of their slots
    Names,         \* length of the name of every database there may be
    Initial,       \* the name of the initial database
    Capacity,      \* block_capacity
    Background,    \* threads of BGSAVE
    MaxPasswords,  \* bound: of passwords
    MaxCommands,   \* bound: of commands
    MaxStops       \* bound: of crashes and closings

Main == "main thread"
Tx == "transaction thread"
Threads == Background \cup {Main, Tx}

Keys == DOMAIN Lines

\* The values of keys, of elements of a list and of fields of a hash table; of
\* each string and number its length.
Scalars == [type : {"str", "int", "double"}, len : Nat] \cup [type : {"bool", "null"}]
Fields ==
    [name : Nat, type : {"str", "int", "double"}, len : Nat] \cup [name : Nat, type : {"bool", "null"}]
Values ==
    Scalars \cup [type : {"list"}, items : Seq(Scalars)]
            \cup [type : {"hashtable"}, items : Seq(Fields)]

ASSUME SaveFileAssumption ==
    /\ Lines \in Seq([key : Nat, value : Values])
    /\ Names \in [DOMAIN Names -> Nat] /\ Initial \in DOMAIN Names
    /\ Capacity \in Nat \ {0} /\ Capacity <= 65535   \* the offset in a block is a uint16_t
    /\ 7 + MaxPasswords * 50 < Capacity   \* 63 passwords in a block of 4096
    /\ {MaxPasswords, MaxCommands, MaxStops} \subseteq Nat
    /\ {Main, Tx} \cap Background = {}

VARIABLES
    databases,  \* server->databases: [name, keys]
    passwords,  \* password_count
    saving,     \* the flag
    fd,         \* the file: "open" or "closed"
    offset,     \* of the file, shared by all who write
    file,       \* [head, valid, size]: what the first block holds
    saver,      \* the threads' calls of save_data
    mode,       \* "up" or "down"
    commands,   \* number of commands so far
    stops,      \* number of crashes and closings so far
    saved       \* history: what the last undisturbed save wrote, if it is still there

vars == <<databases, passwords, saving, fd, offset, file, saver, mode, commands, stops, saved>>

-----------------------------------------------------------------------------
(* Sizes in bytes. *)

\* get_bit_count and get_byte_count.
BitCount(n) == IF n = 0 THEN 0 ELSE Cardinality({b \in 0..30 : 2^b <= n})
ByteCount(n) == (BitCount(n) + 7) \div 8

\* generate_string_value, and what get_value_size makes of it: a byte less if
\* the length is 0 or 64..255.
StringSize(len) == 1 + ByteCount(len \div 64) + len
StringEstimate(len) == ByteCount(len) + len

ScalarSize(v) ==
    CASE v.type = "str" -> StringSize(v.len)
      [] v.type = "int" -> 1 + v.len
      [] v.type = "double" -> 2 + v.len
      [] v.type = "bool" -> 1
      [] v.type = "null" -> 0

ScalarEstimate(v) ==
    CASE v.type = "str" -> StringEstimate(v.len)
      [] v.type = "double" -> 2 + 2 * v.len
      [] OTHER -> ScalarSize(v)

SumOver(s, Op(_)) == SumFunction([i \in DOMAIN s |-> Op(s[i])])

\* generate_value: the key, the type and the value; nothing for a null value.
LineSize(k) ==
    LET v == Lines[k].value
    IN  CASE v.type = "null" -> 0
          [] v.type = "list" ->
               StringSize(Lines[k].key) + 9 + SumOver(v.items, LAMBDA e : 1 + ScalarSize(e))
          [] v.type = "hashtable" ->
               StringSize(Lines[k].key) + 10
                 + SumOver(v.items, LAMBDA e : 1 + StringSize(e.name) + ScalarSize(e))
          [] OTHER -> StringSize(Lines[k].key) + 1 + ScalarSize(v)

\* get_maximum_keyvalue_size.
LineEstimate(k) ==
    LET v == Lines[k].value
    IN  StringEstimate(Lines[k].key) + 1 +
          CASE v.type = "list" -> 8 + SumOver(v.items, LAMBDA e : 1 + ScalarEstimate(e))
            [] v.type = "hashtable" ->
                 9 + SumOver(v.items, LAMBDA e : 1 + StringEstimate(e.name) + ScalarEstimate(e))
            [] OTHER -> ScalarEstimate(v)

\* There is no generator for a null field of a hash table: a call of NULL.
NoGenerator(k) ==
    /\ Lines[k].value.type = "hashtable"
    /\ \E i \in DOMAIN Lines[k].value.items : Lines[k].value.items[i].type = "null"

\* The header and the passwords, and what save_data adds to `size` for them:
\* the filled size of the block once for each password.
HeadSize(n) == 7 + BitCount(n) + 49 * n
HeadCounted(n) ==
    IF n = 0 THEN 7 ELSE n * (7 + BitCount(n)) + 49 * ((n * (n + 1)) \div 2)

NameSize(name) == 8 + StringSize(Names[name])

\* What has been put out: the passwords, and for every database its name, its
\* count and the lines after it.
DbSize(db) == NameSize(db.name) + SumFunctionOnSet([k \in Keys |-> LineSize(k)], db.lines)
Size(out) == HeadSize(out.passwords) + SumOver(out.dbs, DbSize)

\* A scalar that is read as what was written.  The count of an integer's bytes,
\* less one, is kept in seven bits.  A double is not: whether it has a fraction is
\* found by comparing bytes with hexadecimal digits, so that 1.5 is read as 24.
\* (A null element of a list is, if malloc(0) gives it memory; not relied on.)
Same(v) == v.type \in {"str", "bool"} \/ (v.type = "int" /\ v.len <= 128)

\* collect_kv gives the key and the value of the line.
Readable(k) ==
    LET v == Lines[k].value
    IN  IF v.type \in {"list", "hashtable"} THEN \A i \in DOMAIN v.items : Same(v.items[i])
                                           ELSE Same(v)

-----------------------------------------------------------------------------
(* Loading: open_database_fd, get_authorization_from_file, read_file. *)

Empty == [databases |-> <<[name |-> Initial, keys |-> {}]>>, passwords |-> 0]

\* Reading stops when the bytes read are the file's size, after a database.
FirstDbs(out, i) == [out EXCEPT !.dbs = SubSeq(@, 1, i)]

\* Each database is as many lines as its count says.  (Otherwise the reader
\* takes the bytes of one thing for another.)
WellFormed(out) ==
    \A d \in DOMAIN out.dbs :
        out.dbs[d].count = Cardinality({k \in out.dbs[d].lines : LineSize(k) > 0})

\* collect_bytes asserts that every block it reads is a full one, and reads the
\* next one as soon as a block is used up: the file must be smaller than a block.
\* (A start with other values than were written, see Same, is left out.)
Loadable(f, out) ==
    /\ Size(out) = f.size /\ f.size < Capacity /\ f.size <= f.valid
    /\ WellFormed(out)
    /\ \A d \in DOMAIN out.dbs : \A k \in out.dbs[d].lines : Readable(k)

Content(out) ==
    LET dbs == [d \in DOMAIN out.dbs |-> [name |-> out.dbs[d].name, keys |-> out.dbs[d].lines]]
        initial == \E d \in DOMAIN dbs : dbs[d].name = Initial
    IN  [databases |-> IF initial THEN dbs ELSE dbs \o Empty.databases,
         passwords |-> out.passwords]

\* What the server starts with; nothing if it does not start.
Load(f) ==
    IF f.size = 0 THEN {Empty}
    ELSE LET readings == UNION {{FirstDbs(out, i) : i \in 0..Len(out.dbs)} : out \in f.head}
         IN  {Content(out) : out \in {r \in readings : Loadable(f, r)}}

-----------------------------------------------------------------------------

Idle ==
    [pc |-> "idle", out |-> [passwords |-> 0, dbs |-> << >>], block_size |-> 0,
     size |-> 0, cursor |-> 0, room |-> 0, freed |-> FALSE, alone |-> FALSE]

Init ==
    /\ databases = Empty.databases /\ passwords = 0
    /\ saving = FALSE /\ fd = "open" /\ offset = 0
    /\ file = [head |-> {}, valid |-> 0, size |-> 0]
    /\ saver = [t \in Threads |-> Idle]
    /\ mode = "up" /\ commands = 0 /\ stops = 0
    /\ saved = {}

At(t, pc) == mode = "up" /\ saver[t].pc = pc
Goto(t, pc) == saver' = [saver EXCEPT ![t].pc = pc]

\* A call of save_data returns; the main thread goes on to close the file.
Returned(t) == IF t = Main THEN [Idle EXCEPT !.pc = "close"] ELSE Idle

\* The process ends; what was in memory is lost.
Die ==
    /\ mode' = "down"
    /\ databases' = << >> /\ passwords' = 0
    /\ saving' = FALSE /\ fd' = "closed" /\ offset' = 0
    /\ saver' = [t \in Threads |-> Idle]
    /\ UNCHANGED <<file, commands, saved>>

\* The data changes under the saves that are under way.
Disturb == saver' = [t \in Threads |-> [saver[t] EXCEPT !.alone = FALSE]]

-----------------------------------------------------------------------------
(* Commands, run by the transaction thread when it is not saving itself. *)

Command == commands < MaxCommands /\ commands' = commands + 1

InsertKey(d, k) ==
    /\ At(Tx, "idle") /\ Command
    /\ k \notin databases[d].keys
    /\ databases' = [databases EXCEPT ![d].keys = @ \cup {k}]
    /\ Disturb
    /\ UNCHANGED <<passwords, saving, fd, offset, file, mode, stops, saved>>

DeleteKey(d, k) ==
    /\ At(Tx, "idle") /\ Command
    /\ k \in databases[d].keys
    /\ databases' = [databases EXCEPT ![d].keys = @ \ {k}]
    /\ Disturb
    /\ UNCHANGED <<passwords, saving, fd, offset, file, mode, stops, saved>>

\* create_database, which does not look whether there is one of that name.
CreateDatabase(name) ==
    /\ At(Tx, "idle") /\ Command
    /\ databases' = Append(databases, [name |-> name, keys |-> {}])
    /\ Disturb
    /\ UNCHANGED <<passwords, saving, fd, offset, file, mode, stops, saved>>

ChangePasswords(n) ==
    /\ At(Tx, "idle") /\ Command
    /\ n \in {passwords - 1, passwords + 1} \cap 0..MaxPasswords
    /\ passwords' = n
    /\ Disturb
    /\ UNCHANGED <<databases, saving, fd, offset, file, mode, stops, saved>>

\* SAVE.
Save ==
    /\ At(Tx, "idle") /\ Command
    /\ Goto(Tx, "test")
    /\ UNCHANGED <<databases, passwords, saving, fd, offset, file, mode, stops, saved>>

\* bg_save: it tests the flag, and its thread will do so again.
BgSave(t) ==
    /\ At(Tx, "idle") /\ At(t, "idle") /\ Command
    /\ IF saving THEN UNCHANGED saver ELSE Goto(t, "test")
    /\ UNCHANGED <<databases, passwords, saving, fd, offset, file, mode, stops, saved>>

\* close_server, while the transaction thread is still running.
Close ==
    /\ At(Main, "idle") /\ stops < MaxStops
    /\ stops' = stops + 1
    /\ Goto(Main, "test")
    /\ UNCHANGED <<databases, passwords, saving, fd, offset, file, mode, commands, saved>>

-----------------------------------------------------------------------------
(* save_data. *)

Test(t) ==
    /\ At(t, "test")
    /\ saver' = [saver EXCEPT ![t] = IF saving THEN Returned(t) ELSE [Idle EXCEPT !.pc = "begin"]]
    /\ UNCHANGED <<databases, passwords, saving, fd, offset, file, mode, commands, stops, saved>>

Busy(t) == saver[t].pc \in {"databases", "lines", "interrupt", "final", "truncate"}

\* The flag, lseek, which fails on a closed file, and the header.
Begin(t) ==
    /\ At(t, "begin") /\ fd = "open"
    /\ saving' = TRUE
    /\ offset' = 0
    /\ saver' = [u \in Threads |->
         IF u = t
         THEN [Idle EXCEPT !.pc = "databases", !.cursor = 1, !.alone = \A v \in Threads : ~Busy(v),
                           !.out = [passwords |-> passwords, dbs |-> << >>],
                           !.block_size = HeadSize(passwords), !.size = HeadCounted(passwords)]
         ELSE [saver[u] EXCEPT !.alone = FALSE]]
    /\ UNCHANGED <<databases, passwords, fd, file, mode, commands, stops, saved>>

BeginClosed(t) == At(t, "begin") /\ fd = "closed" /\ Die /\ UNCHANGED stops

\* Seeded fault: running out of memory leaves the flag set.
NoMemoryKeepsFlag(t) ==
    /\ At(t, "databases")
    /\ saver[t].cursor \in DOMAIN databases
    /\ saver[t].cursor = 1 \/ databases[saver[t].cursor].keys # {}
    /\ saver' = [saver EXCEPT ![t] = Returned(t)]
    /\ UNCHANGED <<databases, passwords, saving, fd, offset, file, mode, commands, stops, saved>>

\* One of the two buffers cannot be had: cleanup, whatever was written before.
NoMemory(t) ==
    /\ At(t, "databases")
    /\ saver[t].cursor \in DOMAIN databases
    /\ saver[t].cursor = 1 \/ databases[saver[t].cursor].keys # {}
    /\ saving' = FALSE
    /\ saver' = [saver EXCEPT ![t] = Returned(t)]
    /\ UNCHANGED <<databases, passwords, fd, offset, file, mode, commands, stops, saved>>

\* Seeded fault: the number of the lines is left out of the size.
NextDatabaseUncounted(t) ==
    /\ At(t, "databases")
    /\ saver[t].cursor \in DOMAIN databases
    /\ LET db   == databases[saver[t].cursor]
           size == NameSize(db.name)
       IN  saver' = [saver EXCEPT
             ![t].pc = IF db.keys = {} THEN "databases" ELSE "lines",
             ![t].cursor = IF db.keys = {} THEN @ + 1 ELSE 0,
             ![t].room = Max({LineEstimate(k) : k \in db.keys} \cup {0}),
             ![t].out.dbs = Append(@, [name |-> db.name, count |-> Cardinality(db.keys), lines |-> {}]),
             ![t].block_size = @ + size,
             ![t].size = @ + size - 8]
    /\ UNCHANGED <<databases, passwords, saving, fd, offset, file, mode, commands, stops, saved>>

\* The count and the name of the next database.  That they fit into the block is
\* not checked: what is behind it may be overwritten.
NextDatabase(t) ==
    /\ At(t, "databases")
    /\ saver[t].cursor \in DOMAIN databases
    /\ LET db   == databases[saver[t].cursor]
           size == NameSize(db.name)
       IN  saver' = [saver EXCEPT
             ![t].pc = IF db.keys = {} THEN "databases" ELSE "lines",
             ![t].cursor = IF db.keys = {} THEN @ + 1 ELSE 0,
             ![t].room = Max({LineEstimate(k) : k \in db.keys} \cup {0}),
             ![t].out.dbs = Append(@, [name |-> db.name, count |-> Cardinality(db.keys), lines |-> {}]),
             ![t].block_size = @ + size,
             ![t].size = @ + size]
    /\ UNCHANGED <<databases, passwords, saving, fd, offset, file, mode, commands, stops, saved>>

NoNextDatabase(t) ==
    /\ At(t, "databases")
    /\ saver[t].cursor \notin DOMAIN databases
    /\ Goto(t, "final")
    /\ UNCHANGED <<databases, passwords, saving, fd, offset, file, mode, commands, stops, saved>>

\* The database whose lines are put out, and those still ahead of the iteration.
Current(t) == Len(saver[t].out.dbs)
Ahead(t) == {k \in databases[Current(t)].keys : k > saver[t].cursor}

\* Seeded fault: only the filled part of a block is written.
WriteFilledPart(n, out, valid) ==
    /\ n > 0 => fd = "open"
    /\ offset' = offset + n * valid
    /\ file' = [head  |-> IF n > 0 /\ offset = 0 THEN {out} ELSE file.head,
                valid |-> IF n > 0 /\ offset = 0 THEN valid ELSE file.valid,
                size  |-> Max({file.size, offset'})]
    /\ saved' = IF n > 0 THEN {} ELSE saved

\* write: n blocks at the shared offset, the first of which holds `out`.
WriteBlocks(n, out, valid) ==
    /\ n > 0 => fd = "open"
    /\ offset' = offset + n * Capacity
    /\ file' = [head  |-> IF n > 0 /\ offset = 0 THEN {out} ELSE file.head,
                valid |-> IF n > 0 /\ offset = 0 THEN valid ELSE file.valid,
                size  |-> Max({file.size, offset'})]
    /\ saved' = IF n > 0 THEN {} ELSE saved

\* dump_into_file: the blocks that are full before the last byte of the line.
BlocksFilled(block_size, size) == (block_size + size + Capacity - 1) \div Capacity - 1

\* One step of the iteration over the hash table.
DumpLine(t) ==
    /\ At(t, "lines")
    /\ Ahead(t) # {}
    /\ LET k    == Min(Ahead(t))
           n    == BlocksFilled(saver[t].block_size, LineSize(k))
           out  == [saver[t].out EXCEPT !.dbs[Current(t)].lines = @ \cup {k}]
       IN  /\ ~NoGenerator(k) /\ saver[t].block_size <= Capacity
           /\ WriteBlocks(n, out, Capacity)
           /\ saver' = [saver EXCEPT
                ![t].out = out, ![t].cursor = k,
                ![t].block_size = @ + LineSize(k) - n * Capacity,
                ![t].size = @ + LineSize(k)]
    /\ UNCHANGED <<databases, passwords, saving, fd, mode, commands, stops>>

\* The line has no generator, does not fit into the buffer, or follows a database
\* that did not fit into the block.
DumpDies(t) ==
    /\ At(t, "lines")
    /\ Ahead(t) # {}
    /\ LET k == Min(Ahead(t))
       IN  \/ NoGenerator(k)
           \/ LineSize(k) > saver[t].room
           \/ saver[t].block_size > Capacity
    /\ Die /\ UNCHANGED stops

\* The write of one of the line's blocks fails: the buffers are freed and the flag
\* is cleared, while save_data goes on with the next line, the line not counted.
DumpFails(t) ==
    /\ At(t, "lines")
    /\ Ahead(t) # {}
    /\ LET k    == Min(Ahead(t))
           n    == BlocksFilled(saver[t].block_size, LineSize(k))
           out  == [saver[t].out EXCEPT !.dbs[Current(t)].lines = @ \cup {k}]
       IN  /\ ~NoGenerator(k) /\ saver[t].block_size <= Capacity
           /\ \E m \in 0..(n - 1) : WriteBlocks(m, out, Capacity)
           /\ saver' = [saver EXCEPT ![t].pc = "interrupt", ![t].cursor = k,
                                     ![t].freed = TRUE, ![t].alone = FALSE]
    /\ saving' = FALSE
    /\ UNCHANGED <<databases, passwords, fd, mode, commands, stops>>

\* interrupt_dumping_into_file closes the file, after waiting for the saves of
\* others, and asserts that it could; the iteration goes on.
Interrupt(t) ==
    /\ At(t, "interrupt") /\ ~saving /\ fd = "open"
    /\ fd' = "closed"
    /\ Goto(t, "lines")
    /\ UNCHANGED <<databases, passwords, saving, offset, file, mode, commands, stops, saved>>

\* The buffers are used, and freed again, and the file may be closed again: at any
\* step this may end the process.  (Nothing more gets into the file meanwhile: it
\* is closed.)
FreedDies(t) == Busy(t) /\ saver[t].freed /\ Die /\ UNCHANGED stops

EndLines(t) ==
    /\ At(t, "lines")
    /\ Ahead(t) = {}
    /\ saver' = [saver EXCEPT ![t].pc = "databases", ![t].cursor = Current(t) + 1]
    /\ UNCHANGED <<databases, passwords, saving, fd, offset, file, mode, commands, stops, saved>>

\* The last block; one that is exactly full is not written.
Final(t) ==
    /\ At(t, "final")
    /\ LET n == IF saver[t].block_size = Capacity THEN 0 ELSE 1
       IN  WriteBlocks(n, saver[t].out, Min({saver[t].block_size, Capacity}))
    /\ Goto(t, "truncate")
    /\ UNCHANGED <<databases, passwords, saving, fd, mode, commands, stops>>

\* Seeded fault: the file is not cut when it shrinks.
TruncateGrowsOnly(t) ==
    /\ At(t, "truncate") /\ fd = "open"
    /\ file' = [file EXCEPT !.size = Max({@, saver[t].size})]
    /\ saving' = FALSE
    /\ saved' = IF saver[t].alone
                THEN {[databases |-> databases, passwords |-> passwords]} ELSE {}
    /\ saver' = [saver EXCEPT ![t] = Returned(t)]
    /\ UNCHANGED <<databases, passwords, fd, offset, mode, commands, stops>>

\* ftruncate, and cleanup.
Truncate(t) ==
    /\ At(t, "truncate") /\ fd = "open"
    /\ file' = [file EXCEPT !.size = saver[t].size, !.valid = Min({@, saver[t].size})]
    /\ saving' = FALSE
    /\ saved' = IF saver[t].alone
                THEN {[databases |-> databases, passwords |-> passwords]} ELSE {}
    /\ saver' = [saver EXCEPT ![t] = Returned(t)]
    /\ UNCHANGED <<databases, passwords, fd, offset, mode, commands, stops>>

\* The last write or the truncation fails: cleanup, and the file is closed.
SaveFails(t) ==
    /\ At(t, "final") \/ At(t, "truncate")
    /\ saving' = FALSE
    /\ Goto(t, "close")
    /\ UNCHANGED <<databases, passwords, fd, offset, file, mode, commands, stops, saved>>

\* close_database_fd, after waiting for the saves of others.
CloseFd(t) ==
    /\ At(t, "close")
    /\ ~saving
    /\ fd' = "closed"
    /\ saver' = [saver EXCEPT ![t] = IF t = Main THEN [Idle EXCEPT !.pc = "exit"] ELSE Idle]
    /\ UNCHANGED <<databases, passwords, saving, offset, file, mode, commands, stops, saved>>

\* cleanup and exit, which end the other threads.
Exit == At(Main, "exit") /\ Die /\ UNCHANGED stops

-----------------------------------------------------------------------------
(* Crashes and restarts. *)

Crash ==
    /\ mode = "up" /\ stops < MaxStops
    /\ stops' = stops + 1
    /\ Die

Restart ==
    /\ mode = "down"
    /\ \E data \in Load(file) : databases' = data.databases /\ passwords' = data.passwords
    /\ mode' = "up" /\ fd' = "open"
    /\ UNCHANGED <<saving, offset, file, saver, commands, stops, saved>>

Thread(t) ==
    \/ Test(t) \/ Begin(t) \/ BeginClosed(t) \/ NoMemory(t)
    \/ NextDatabase(t) \/ NoNextDatabase(t)
    \/ DumpLine(t) \/ DumpDies(t) \/ EndLines(t)
    \/ DumpFails(t) \/ Interrupt(t) \/ FreedDies(t)
    \/ Final(t) \/ Truncate(t) \/ SaveFails(t) \/ CloseFd(t)

Next ==
    \/ \E d \in DOMAIN databases, k \in Keys : InsertKey(d, k) \/ DeleteKey(d, k)
    \/ \E name \in DOMAIN Names : CreateDatabase(name)
    \/ \E n \in 0..MaxPasswords : ChangePasswords(n)
    \/ Save \/ Close \/ Exit \/ Crash \/ Restart
    \/ \E t \in Background : BgSave(t)
    \/ \E t \in Threads : Thread(t)

Spec == Init /\ [][Next]_vars

\* Every thread keeps running, and the main thread exits.
FairSpec == Spec /\ (\A t \in Threads : WF_vars(Thread(t))) /\ WF_vars(Exit)

-----------------------------------------------------------------------------
(* Properties. *)

TypeOK ==
    /\ \A d \in DOMAIN databases :
          databases[d].name \in DOMAIN Names /\ databases[d].keys \subseteq Keys
    /\ passwords \in 0..MaxPasswords
    /\ saving \in BOOLEAN /\ fd \in {"open", "closed"} /\ mode \in {"up", "down"}
    /\ offset % Capacity = 0
    /\ file.valid <= Capacity /\ file.size \in Nat
    /\ \A t \in Threads :
          saver[t].pc \in {"idle", "test", "begin", "databases", "lines", "interrupt", "final",
                           "truncate", "close", "exit"}

\* What save_data counts is what it puts out, across blocks and whatever the
\* other threads do: the size it will cut the file to, and how full its block is.
\* (With two passwords or more the size is too large; this is left out here.)
SizesAgree ==
    \A t \in Threads : Busy(t) =>
        /\ saver[t].out.passwords <= 1 => saver[t].size = Size(saver[t].out)
        /\ (Size(saver[t].out) - saver[t].block_size) % Capacity = 0

\* The data a file can hold so that it is loaded again: at most one password, no
\* null, no double and no integer of more than 128 bytes, less than a block.
Holdable(data) ==
    LET dbs == [d \in DOMAIN data.databases |->
                  [name |-> data.databases[d].name, lines |-> data.databases[d].keys]]
    IN  /\ data.passwords <= 1
        /\ \A d \in DOMAIN dbs : \A k \in dbs[d].lines : LineSize(k) > 0 /\ Readable(k)
        /\ Size([passwords |-> data.passwords, dbs |-> dbs]) < Capacity

\* What a save wrote that no other save and no command overlapped is what the
\* server starts with after the next crash or closing.
SavedReadsBack == \A data \in saved : Holdable(data) => Load(file) = {data}

\* Closing ends: the main thread does not wait for ever for somebody's save.
ShutdownEnds == (saver[Main].pc # "idle") ~> (mode = "down" \/ saver[Main].pc = "idle")

\* "Atomicity on execution of saving process" (README.md): whenever the server is
\* stopped, it can be started again.
SaveIsAtomic == mode = "down" => Load(file) # {}
=============================================================================
