------------------------------ MODULE Keyspace ------------------------------
(***************************************************************************)
(* The databases and the commands on them: src/database/{databases,kv,set, *)
(* get,delete}.c, src/commands/{kv,list,hashtable,database}, and the call  *)
(* of a command in execute_transaction.  Only the transaction thread runs  *)
(* commands, so a command is one step.                                     *)
(*                                                                         *)
(* Every command is an operator that returns its possible outcomes: the    *)
(* new data of the database its transaction captured, and the kind of      *)
(* answer.  `client` says whether the client is still connected: for a     *)
(* transaction whose client has gone the code passes NULL.  Hash tables    *)
(* are functions here (HashTable shows that they behave so); lists keep    *)
(* the two links of utils/linkedlist.c that pops do not reset.             *)
(***************************************************************************)
EXTENDS Integers, Sequences, SequencesExt

CONSTANTS
    Keys, Fields, Names,  \* of values, of hash table fields, of databases
    Words, Items,         \* what clients send as values, as list elements
    Numbers,              \* bound: the numbers that are told apart
    MaxLength,            \* bound: of strings and lists
    MaxKeys,              \* bound: of keys in all databases together
    MaxDatabases,         \* bound
    Initial               \* the name of the initial database

WordKinds == {"int", "double", "true", "false", "null", "text"}

ASSUME KeyspaceAssumption ==
    /\ Words \subseteq [kind : WordKinds, n : Numbers \ {0}]
    /\ Items \subseteq Words
    /\ Numbers \subseteq Int /\ {0, 1} \subseteq Numbers
    /\ MaxLength \in Nat \ {0, 1} /\ MaxKeys \in Nat
    /\ Initial \in Names

VARIABLES
    databases,  \* the list of databases: [name, data]
    database,   \* client->database of an observed client, a position in it
    reply       \* how the last command was answered, or the fault it ended in

vars == <<databases, database, reply>>

Faults == {"freed node", "null node", "null client", "unreachable"}
Framings == {"inline", "resp"}

-----------------------------------------------------------------------------
(* Values. *)

Scalar(type, v) == [type |-> type, v |-> v]

Scalars ==
         [type : {"int", "double"}, v : Numbers] \cup [type : {"str"}, v : 1..MaxLength]
    \cup [type : {"bool"}, v : {0, 1}] \cup [type : {"null"}, v : {0}]

\* A list, with begin->prev and end->next: NULL, or a node that was freed.
Links == {"NULL", "freed"}
List(items, head, tail) ==
    [type |-> "list", items |-> items, head |-> head, tail |-> tail]

Table(fields) == [type |-> "hashtable", fields |-> fields]

IsValue(x) ==
    \/ x.type \notin {"list", "hashtable"} /\ x \in Scalars
    \/ /\ x.type = "list"
       /\ Len(x.items) <= MaxLength /\ Range(x.items) \subseteq Scalars
       /\ x.head \in Links /\ x.tail \in Links
    \/ /\ x.type = "hashtable"
       /\ DOMAIN x.fields \subseteq Fields /\ Range(x.fields) \subseteq Scalars

WithinBounds(x) ==
    CASE x.type = "list" -> Len(x.items) <= MaxLength
      [] x.type = "hashtable" -> TRUE
      [] x.type = "str" -> x.v <= MaxLength
      [] OTHER -> x.v \in Numbers

IsNumber(x) == x.type \in {"int", "double"}

\* Only inline commands end their words with NUL.  In a RESP command the
\* conversion of a number reads on into what follows it in the buffer.
ReadNumber(w, f) == IF f = "inline" THEN {w.n} ELSE Numbers

\* How LPUSH, RPUSH and HSET type a word.
Typed(w, f) ==
    CASE w.kind \in {"int", "double"} -> {Scalar(w.kind, n) : n \in ReadNumber(w, f)}
      [] w.kind \in {"true", "false"} -> {Scalar("bool", IF w.kind = "true" THEN 1 ELSE 0)}
      [] w.kind = "null" -> {Scalar("null", 0)}
      [] OTHER -> {Scalar("str", 1)}

Present(data, k) == k \in DOMAIN data
Holds(data, k, type) == Present(data, k) /\ data[k].type = type
Put(data, k, v) == [j \in DOMAIN data \cup {k} |-> IF j = k THEN v ELSE data[j]]
Drop(data, K) == [j \in DOMAIN data \ K |-> data[j]]

\* free_value walks a list from begin to NULL, into a freed node if there is one.
FreeFaults(data, K) ==
    \E k \in K : Holds(data, k, "list") /\ data[k].tail = "freed"

\* Answers reach a client only; the commands return nothing when it has gone.
Outcome(data, r, client) == [data |-> data, reply |-> IF client THEN r ELSE "silent"]
Fault(data, why) == [data |-> data, reply |-> why]

\* set_data, which frees the value it replaces.
SetData(data, k, v, r, client) ==
    IF FreeFaults(data, {k}) THEN Fault(data, "freed node")
    ELSE Outcome(Put(data, k, v), r, client)

\* delete_data of the keys K.
DeleteData(data, K, r, client) ==
    IF FreeFaults(data, K) THEN Fault(data, "freed node")
    ELSE Outcome(Drop(data, K), r, client)

-----------------------------------------------------------------------------
(* Key-value commands. *)

\* SET's options, by what parse_options makes of the first of them.
SetOptions == {"none", "other", "expiry"} \cup {"str", "bool", "null", "int", "double", "num", "bad"}

\* parse_options: only AS with a type is ever accepted, and only in an inline
\* command, as strcmp does not match a word without its NUL.  EX or PX with an
\* integer ends in unreachable(): the process ends, or it is an error like others.
ParseOptions(opt, w, f) ==
    CASE opt = "none" -> "untyped"
      [] f = "resp" \/ opt \in {"other", "bad"} -> "invalid"
      [] opt = "expiry" -> "undefined"
      [] opt = "num" -> IF w.kind \in {"int", "double"} THEN w.kind ELSE "invalid"
      [] opt \in {"int", "double"} -> IF w.kind = opt THEN opt ELSE "invalid"
      [] opt = "bool" -> IF w.kind \in {"true", "false"} THEN opt ELSE "invalid"
      [] OTHER -> opt

\* Seeded fault: AS NULL keeps the value beside the type.
SetValueKept(w, type) ==
    CASE type = "str" -> Scalar("str", 1)
      [] type = "null" -> Scalar("null", w.n)
      [] OTHER -> CHOOSE s \in Typed(w, "inline") : TRUE

\* What SET stores; it ends a number with NUL itself before converting it.
SetValue(w, type) ==
    CASE type = "str" -> Scalar("str", 1)
      [] type = "null" -> Scalar("null", 0)
      [] OTHER -> CHOOSE s \in Typed(w, "inline") : TRUE

SET(data, k, w, opt, f, client) ==
    LET type == ParseOptions(opt, w, f)
    IN  IF type = "invalid" THEN {Outcome(data, "error", client)}
        ELSE IF type = "undefined"
        THEN {Outcome(data, "error", client)} \cup {Fault(data, "unreachable")}
        ELSE {SetData(data, k, SetValue(w, type), "ok", client)}

GET(data, k, client) == {Outcome(data, IF Present(data, k) THEN "ok" ELSE "null", client)}
TYPE(data, k, client) == {Outcome(data, IF Present(data, k) THEN "ok" ELSE "null", client)}
EXISTS(data, k, client) == {Outcome(data, "ok", client)}
DEL(data, K, client) == {DeleteData(data, K, "ok", client)}

\* The value moves to the new key; if there is one already, it is dropped.
RENAME(data, k, new, client) ==
    LET rest == Drop(data, {k})
    IN  IF ~Present(data, k) THEN {Outcome(data, "error", client)}
        ELSE IF Present(rest, new) THEN {Outcome(rest, "ok", client)}
        ELSE {Outcome(Put(rest, new, data[k]), "ok", client)}

APPEND(data, k, client) ==
    IF ~Present(data, k) THEN {Outcome(Put(data, k, Scalar("str", 1)), "ok", client)}
    ELSE IF data[k].type # "str" THEN {Outcome(data, "error", client)}
    ELSE {Outcome([data EXCEPT ![k].v = @ + 1], "ok", client)}

\* One key of INCR (by = 1) or DECR (by = -1): an absent one becomes 0.
Bump(data, k, by) ==
    IF ~Present(data, k) THEN Put(data, k, Scalar("int", 0))
    ELSE IF IsNumber(data[k]) THEN [data EXCEPT ![k].v = @ + by] ELSE data

\* The keys are taken in turn.
BumpAll(data, ks, by) ==
    LET after[i \in 0..Len(ks)] == IF i = 0 THEN data ELSE Bump(after[i - 1], ks[i], by)
    IN  after[Len(ks)]

\* Without a client the answer is still written, into client->write_buf.
INCR(data, ks, client) ==
    IF client THEN {Outcome(BumpAll(data, ks, 1), "ok", client)} ELSE {Fault(data, "null client")}
DECR(data, ks, client) ==
    IF client THEN {Outcome(BumpAll(data, ks, -1), "ok", client)} ELSE {Fault(data, "null client")}

\* The sum is a double if one of the two is.  The error of a value that is not
\* a number is returned, and then sent, even when the client has gone.
AddTo(data, k, w, n, client) ==
    IF ~IsNumber(data[k])
    THEN IF client THEN Outcome(data, "error", client) ELSE Fault(data, "null client")
    ELSE LET type == IF w.kind = "double" THEN "double" ELSE data[k].type
         IN  Outcome(Put(data, k, Scalar(type, data[k].v + n)), "ok", client)

\* INCRBY of an absent key by a double computes the value and does not store it.
INCRBY(data, k, w, f, client) ==
    IF w.kind \notin {"int", "double"} THEN {Outcome(data, "error", client)}
    ELSE IF Present(data, k) THEN {AddTo(data, k, w, n, client) : n \in ReadNumber(w, f)}
    ELSE IF w.kind = "double" THEN {Outcome(data, "error", client)}
    ELSE {Outcome(Put(data, k, Scalar("int", n)), "ok", client) : n \in ReadNumber(w, f)}

DECRBY(data, k, w, f, client) ==
    IF w.kind \notin {"int", "double"} THEN {Outcome(data, "error", client)}
    ELSE IF Present(data, k) THEN {AddTo(data, k, w, -n, client) : n \in ReadNumber(w, f)}
    ELSE {Outcome(Put(data, k, Scalar(w.kind, -n)), "ok", client) : n \in ReadNumber(w, f)}

-----------------------------------------------------------------------------
(* List commands, on utils/linkedlist.c. *)

\* The list to push to, with room made for it in the database.
ListAt(data, k) == IF Present(data, k) THEN data[k] ELSE List(<< >>, "NULL", "NULL")
Readings(ws, f) == {ss \in [DOMAIN ws -> Scalars] : \A i \in DOMAIN ws : ss[i] \in Typed(ws[i], f)}

\* ll_insert_front sets the links of the new first node, ll_insert_back of the last.
LPUSH(data, k, ws, f, client) ==
    IF Present(data, k) /\ data[k].type # "list" THEN {Outcome(data, "error", client)}
    ELSE {Outcome(Put(data, k, List(Reverse(ss) \o ListAt(data, k).items, "NULL", ListAt(data, k).tail)),
                  "ok", client) : ss \in Readings(ws, f)}
RPUSH(data, k, ws, f, client) ==
    IF Present(data, k) /\ data[k].type # "list" THEN {Outcome(data, "error", client)}
    ELSE {Outcome(Put(data, k, List(ListAt(data, k).items \o ss, ListAt(data, k).head, "NULL")),
                  "ok", client) : ss \in Readings(ws, f)}

\* Seeded fault: the list is dropped when it is empty, not when it becomes so.
LPOPLate(data, k, client) ==
    IF ~Holds(data, k, "list") THEN {Outcome(data, "error", client)}
    ELSE {Outcome(Put(data, k, List(Tail(data[k].items), "freed", data[k].tail)), "ok", client)}

\* ll_remove_front leaves begin->prev, ll_remove_back end->next on the freed node.
LPOP(data, k, client) ==
    IF ~Present(data, k) THEN {Outcome(data, "null", client)}
    ELSE IF data[k].type # "list" THEN {Outcome(data, "error", client)}
    ELSE IF Len(data[k].items) = 1 THEN {DeleteData(data, {k}, "ok", client)}
    ELSE {Outcome(Put(data, k, List(Tail(data[k].items), "freed", data[k].tail)), "ok", client)}

\* Seeded fault: nothing is popped when there is nobody to answer.
RPOPAnswered(data, k, client) ==
    IF ~client THEN {Outcome(data, "ok", client)}
    ELSE IF ~Present(data, k) THEN {Outcome(data, "null", client)}
    ELSE IF data[k].type # "list" THEN {Outcome(data, "error", client)}
    ELSE IF Len(data[k].items) = 1 THEN {DeleteData(data, {k}, "ok", client)}
    ELSE {Outcome(Put(data, k, List(Front(data[k].items), data[k].head, "freed")), "ok", client)}

RPOP(data, k, client) ==
    IF ~Present(data, k) THEN {Outcome(data, "null", client)}
    ELSE IF data[k].type # "list" THEN {Outcome(data, "error", client)}
    ELSE IF Len(data[k].items) = 1 THEN {DeleteData(data, {k}, "ok", client)}
    ELSE {Outcome(Put(data, k, List(Front(data[k].items), data[k].head, "freed")), "ok", client)}

\* The walk of ll_get_from_index: an index past the end follows the last link.
ElementAt(data, k, i, client) ==
    LET past == IF i < 0 THEN data[k].head ELSE data[k].tail
        size == Len(data[k].items)
    IN  IF ~client THEN {Outcome(data, "silent", client)}
        ELSE IF ~Holds(data, k, "list") THEN {Outcome(data, "error", client)}
        ELSE IF -size <= i /\ i < size THEN {Outcome(data, "ok", client)}
        ELSE IF past = "NULL" THEN {Outcome(data, "null", client)}
        ELSE {Fault(data, "freed node")}

LINDEX(data, k, i, client) == ElementAt(data, k, i, client)
LTYPE(data, k, i, client) == ElementAt(data, k, i, client)

\* normalize_index: an index past either end becomes size or size - 1.
NormalizeIndex(size, i) ==
    IF i < 0 THEN IF -i >= size THEN size ELSE size + i
    ELSE IF i >= size THEN size - 1 ELSE i

\* collect_values: from the back it starts at a node counted from the front,
\* and walks off the list when fewer than count nodes come before that.
CollectFaults(size, start, end) ==
    start > size - end /\ size - end - 1 < end - start

LRANGE(data, k, i, j, client) ==
    LET size  == Len(data[k].items)
        start == NormalizeIndex(size, i)
        end   == NormalizeIndex(size, j)
    IN  IF ~client \/ ~Present(data, k) THEN {Outcome(data, "ok", client)}
        ELSE IF data[k].type # "list" THEN {Outcome(data, "error", client)}
        ELSE IF start >= size \/ end <= start \/ end = size THEN {Outcome(data, "ok", client)}
        ELSE IF ~CollectFaults(size, start, end) THEN {Outcome(data, "ok", client)}
        ELSE {Fault(data, IF data[k].head = "freed" THEN "freed node" ELSE "null node")}

LLEN(data, k, client) ==
    {Outcome(data, IF Present(data, k) /\ data[k].type # "list" THEN "error" ELSE "ok", client)}

-----------------------------------------------------------------------------
(* Hash table commands. *)

FieldsAt(data, k) == IF Present(data, k) THEN data[k].fields ELSE << >>

\* In a RESP command HSET's strcmp does not recognise false and null either.
HashTyped(w, f) ==
    IF f = "resp" /\ w.kind \in {"false", "null"} THEN {Scalar("str", 1)} ELSE Typed(w, f)

\* Seeded fault: a value of another type is replaced, and the error follows.
HSETReplacing(data, k, x, w, f, client) ==
    IF Present(data, k) /\ data[k].type # "hashtable"
    THEN {Outcome(Put(data, k, Table(Put(<< >>, x, s))), "error", client) : s \in HashTyped(w, f)}
    ELSE {Outcome(Put(data, k, Table(Put(FieldsAt(data, k), x, s))), "ok", client) : s \in HashTyped(w, f)}

\* insert_into_hashtable keeps a field that exists as it is.  (HSET with several
\* fields does this for one after the other.)
HSET(data, k, x, w, f, client) ==
    IF Present(data, k) /\ data[k].type # "hashtable" THEN {Outcome(data, "error", client)}
    ELSE IF x \in DOMAIN FieldsAt(data, k) THEN {Outcome(data, "ok", client)}
    ELSE {Outcome(Put(data, k, Table(Put(FieldsAt(data, k), x, s))), "ok", client) : s \in HashTyped(w, f)}

\* HDEL checks for P_READ itself, after the type.
HDEL(data, k, X, mayRead, client) ==
    IF ~Present(data, k) THEN {Outcome(data, "ok", client)}
    ELSE IF data[k].type # "hashtable" \/ ~mayRead THEN {Outcome(data, "error", client)}
    ELSE LET left == Drop(data[k].fields, X)
         IN  IF left = << >> THEN {DeleteData(data, {k}, "ok", client)}
             ELSE {Outcome(Put(data, k, Table(left)), "ok", client)}

\* The answer of a command that reads a hash table, or `absent` if there is none.
ReadTable(data, k, absent, client) ==
    {Outcome(data, IF ~Present(data, k) THEN absent
                   ELSE IF data[k].type = "hashtable" THEN "ok" ELSE "error", client)}

\* The answer of a command that reads one field.
ReadField(data, k, x, client) ==
    IF Holds(data, k, "hashtable") /\ x \notin DOMAIN data[k].fields
    THEN {Outcome(data, "null", client)} ELSE ReadTable(data, k, "null", client)

HGET(data, k, x, client) == ReadField(data, k, x, client)
HTYPE(data, k, x, client) == ReadField(data, k, x, client)
HLEN(data, k, client) == ReadTable(data, k, "null", client)
HKEYS(data, k, client) == ReadTable(data, k, "ok", client)
HVALS(data, k, client) == ReadTable(data, k, "ok", client)
HGETALL(data, k, client) == ReadTable(data, k, "ok", client)

-----------------------------------------------------------------------------
(* Databases. *)

Init ==
    /\ databases = <<[name |-> Initial, data |-> << >>]>>
    /\ database = 1
    /\ reply = "none"

\* get_database: the search starts at the last node and follows next, so that
\* it looks at no other (utils/linkedlist.c, LL_BACK).
GetDatabase(name) ==
    LET n == Len(databases) IN IF databases[n].name = name THEN n ELSE 0

SELECT(name) ==
    /\ IF GetDatabase(name) # 0
       THEN database' = GetDatabase(name) /\ UNCHANGED databases
       ELSE /\ Len(databases) < MaxDatabases
            /\ databases' = Append(databases, [name |-> name, data |-> << >>])
            /\ database' = Len(databases')
    /\ reply' = "ok"

DBSIZE(name) ==
    /\ reply' = IF GetDatabase(name) = 0 THEN "error" ELSE "ok"
    /\ UNCHANGED <<databases, database>>

FLUSHDB(data, client) == {DeleteData(data, DOMAIN data, "ok", client)}

FLUSHALL(client) ==
    /\ IF \E d \in DOMAIN databases : FreeFaults(databases[d].data, Keys)
       THEN reply' = "freed node" /\ UNCHANGED databases
       ELSE /\ reply' = IF client THEN "ok" ELSE "silent"
            /\ databases' = [d \in DOMAIN databases |-> [databases[d] EXCEPT !.data = << >>]]
    /\ UNCHANGED database

-----------------------------------------------------------------------------
(* Execution. *)

KeyCount(dbs) == FoldLeft(LAMBDA n, db : n + Cardinality(DOMAIN db.data), 0, dbs)

\* The command ends in one of its outcomes, in the database that its
\* transaction captured.
Finish(d, outcomes) ==
    \E o \in outcomes :
        /\ \A k \in DOMAIN o.data : WithinBounds(o.data[k])
        /\ databases' = [databases EXCEPT ![d].data = o.data]
        /\ KeyCount(databases') <= MaxKeys
        /\ reply' = o.reply
        /\ UNCHANGED database

Indexes == (-MaxLength - 1)..MaxLength
WordSeqs == {<<w>> : w \in Items} \cup (Items \X Items)
KeySeqs == {<<k>> : k \in Keys} \cup (Keys \X Keys)

KvCommand(data, d, client) ==
    \/ \E k \in Keys, w \in Words, f \in Framings :
          \/ \E opt \in SetOptions : Finish(d, SET(data, k, w, opt, f, client))
          \/ Finish(d, INCRBY(data, k, w, f, client))
          \/ Finish(d, DECRBY(data, k, w, f, client))
    \/ \E k \in Keys :
          \/ Finish(d, GET(data, k, client))
          \/ Finish(d, TYPE(data, k, client))
          \/ Finish(d, EXISTS(data, k, client))
          \/ Finish(d, APPEND(data, k, client))
    \/ \E k, new \in Keys : Finish(d, RENAME(data, k, new, client))
    \/ \E K \in (SUBSET Keys) \ {{}} : Finish(d, DEL(data, K, client))
    \/ \E ks \in KeySeqs : Finish(d, INCR(data, ks, client)) \/ Finish(d, DECR(data, ks, client))

ListCommand(data, d, client) ==
    \E k \in Keys :
        \/ \E ws \in WordSeqs, f \in Framings :
              \/ Finish(d, LPUSH(data, k, ws, f, client))
              \/ Finish(d, RPUSH(data, k, ws, f, client))
        \/ Finish(d, LPOP(data, k, client))
        \/ Finish(d, RPOP(data, k, client))
        \/ Finish(d, LLEN(data, k, client))
        \/ \E i \in Indexes :
              \/ Finish(d, LINDEX(data, k, i, client))
              \/ Finish(d, LTYPE(data, k, i, client))
              \/ \E j \in Indexes : Finish(d, LRANGE(data, k, i, j, client))

HashCommand(data, d, client) ==
    \E k \in Keys :
        \/ \E x \in Fields :
              \/ \E w \in Words, f \in Framings : Finish(d, HSET(data, k, x, w, f, client))
              \/ Finish(d, HGET(data, k, x, client))
              \/ Finish(d, HTYPE(data, k, x, client))
        \/ \E X \in (SUBSET Fields) \ {{}}, mayRead \in BOOLEAN :
              Finish(d, HDEL(data, k, X, mayRead, client))
        \/ Finish(d, HLEN(data, k, client))
        \/ Finish(d, HKEYS(data, k, client))
        \/ Finish(d, HVALS(data, k, client))
        \/ Finish(d, HGETALL(data, k, client))

\* A number of arguments that the command does not take.
WrongArguments(client) ==
    /\ reply' = IF client THEN "error" ELSE "silent"
    /\ UNCHANGED <<databases, database>>

\* execute_transaction: the captured password does not permit the command.
\* The error is written to the client's socket, whether it is there or not.
Denied(client) ==
    /\ reply' = IF client THEN "error" ELSE "null client"
    /\ UNCHANGED <<databases, database>>

Up == reply \notin Faults

\* The captured database may be any: another client, or this one when it queued
\* the command, may have selected it.
Next ==
    /\ Up
    /\ \/ \E d \in DOMAIN databases, client \in BOOLEAN :
             \/ KvCommand(databases[d].data, d, client)
             \/ ListCommand(databases[d].data, d, client)
             \/ HashCommand(databases[d].data, d, client)
             \/ Finish(d, FLUSHDB(databases[d].data, client))
       \/ \E name \in Names : SELECT(name) \/ DBSIZE(name)
       \/ \E client \in BOOLEAN : FLUSHALL(client) \/ WrongArguments(client) \/ Denied(client)

Spec == Init /\ [][Next]_vars

-----------------------------------------------------------------------------
(* Properties. *)

TypeOK ==
    /\ database \in DOMAIN databases
    /\ \A d \in DOMAIN databases :
          /\ databases[d].name \in Names
          /\ DOMAIN databases[d].data \subseteq Keys
          /\ \A k \in DOMAIN databases[d].data : IsValue(databases[d].data[k])

\* "Guaranteed that list exists and its size is least 1" (lpop.c, rpop.c): no
\* sequence of commands leaves an empty list or hash table under a key, which
\* the next pop would take the first element of.
CollectionsNotEmpty ==
    \A d \in DOMAIN databases : \A k \in DOMAIN databases[d].data :
        LET x == databases[d].data[k]
        IN  /\ x.type = "list" => x.items # << >>
            /\ x.type = "hashtable" => x.fields # << >>

\* A command that answers with an error has changed nothing: every check of
\* every command comes before its first change.
ErrorsChangeNothing == [][reply' = "error" => UNCHANGED databases]_vars

\* The data of the outcomes that are not faults.
DataOf(outcomes) == {o.data : o \in {p \in outcomes : p.reply \notin Faults}}

\* A queued command whose client has disconnected does to the data what it would
\* have done for a connected one, unless the missing client ends the server: the
\* early returns for a missing client all come after the change.
SameEffectWithoutClient ==
    \A d \in DOMAIN databases, k \in Keys :
        LET data == databases[d].data
            Same(with, without) == DataOf(without) \subseteq DataOf(with)
        IN  /\ Same(LPOP(data, k, TRUE), LPOP(data, k, FALSE))
            /\ Same(RPOP(data, k, TRUE), RPOP(data, k, FALSE))
            /\ Same(DEL(data, {k}, TRUE), DEL(data, {k}, FALSE))
            /\ Same(APPEND(data, k, TRUE), APPEND(data, k, FALSE))
            /\ \A new \in Keys : Same(RENAME(data, k, new, TRUE), RENAME(data, k, new, FALSE))
            /\ \A X \in SUBSET Fields, r \in BOOLEAN :
                  Same(HDEL(data, k, X, r, TRUE), HDEL(data, k, X, r, FALSE))
            /\ \A w \in Words, f \in Framings :
                  /\ \A opt \in SetOptions :
                        Same(SET(data, k, w, opt, f, TRUE), SET(data, k, w, opt, f, FALSE))
                  /\ Same(INCRBY(data, k, w, f, TRUE), INCRBY(data, k, w, f, FALSE))
                  /\ Same(DECRBY(data, k, w, f, TRUE), DECRBY(data, k, w, f, FALSE))
                  /\ \A x \in Fields : Same(HSET(data, k, x, w, f, TRUE), HSET(data, k, x, w, f, FALSE))

\* DBSIZE of a database that exists finds it ("If database cannot be found,
\* throws an error", docs/COMMANDS.md), and SELECT does not make a second one.
DatabasesFoundByName ==
    \A d \in DOMAIN databases : GetDatabase(databases[d].name) = d

\* "null reply if the index is not exist" (LINDEX), "the list will be deleted
\* from the database" (RPOP): no list command touches a node that was freed.
NoFreedNodeTouched == reply # "freed node"
=============================================================================
