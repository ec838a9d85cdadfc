-------------------------------- MODULE Auth --------------------------------
(***************************************************************************)
(* Passwords, permissions and the commands on clients: src/server/auth.c,  *)
(* src/server/password.c, the PWD, AUTH and CLIENT commands, and what      *)
(* add_client, read_command and execute_transaction_block do with a        *)
(* client's password.                                                      *)
(*                                                                         *)
(* A client points to a password object: one of three constants, or one    *)
(* that PWD ADD allocated and PWD REMOVE frees.  A transaction captures    *)
(* that pointer when it is queued; the permissions behind it are read when *)
(* it is executed.  What a queued transaction asks for is chosen when it   *)
(* is executed, as nothing depends on it before.                           *)
(***************************************************************************)
EXTENDS Naturals, Sequences, FiniteSets, Functions

CONSTANTS
    Slots,     \* of the client table
    Values,    \* password values
    Objects,   \* memory for the objects of PWD ADD
    Loaded,    \* the values in the database file, with all permissions
    MaxQueue   \* bound: of queued transactions

Constants == {"default", "empty", "full"}
Permissions == {"P_AUTH", "P_CLIENT"}

\* A client's password field before it is first assigned.
Wild == "wild"

ASSUME AuthAssumption ==
    /\ Loaded \subseteq Values
    /\ Objects \cap (Constants \cup {Wild}) = {}
    /\ Cardinality(Values) <= Cardinality(Objects) /\ IsFiniteSet(Objects)
    /\ MaxQueue \in Nat

VARIABLES
    stored,       \* passwords: from values to objects
    permissions,  \* of every object
    clients,      \* [state, password, locked]: free, joining (in add_client), on
    queue,        \* queued transactions: [slot, password]
    mode          \* "up", or "down" after an access through NULL

vars == <<stored, permissions, clients, queue, mode>>

-----------------------------------------------------------------------------

Init ==
    /\ \E f \in [Loaded -> Objects] : IsInjective(f) /\ stored = f
    /\ permissions = [o \in Constants \cup Objects |->
         IF o = "empty" \/ o \in Objects \ Range(stored) THEN {} ELSE Permissions]
    /\ clients = [s \in Slots |-> [state |-> "free", password |-> Wild, locked |-> FALSE]]
    /\ queue = << >>
    /\ mode = "up"

Up == mode = "up"
Live == Constants \cup Range(stored)

\* What may be read behind a pointer; anything if its object was freed.
Readable(o) == IF o \in Live THEN {permissions[o]} ELSE SUBSET Permissions

-----------------------------------------------------------------------------
(* The main thread and the I/O threads. *)

\* add_client: the slot is in use from here on, with what its last user left.
Accept(s) ==
    /\ Up /\ clients[s].state = "free"
    /\ clients' = [clients EXCEPT ![s].state = "joining", ![s].locked = FALSE]
    /\ UNCHANGED <<stored, permissions, queue, mode>>

Join(s) ==
    /\ Up /\ clients[s].state = "joining"
    /\ clients' = [clients EXCEPT
         ![s].state = "on", ![s].password = IF stored = << >> THEN "default" ELSE "empty"]
    /\ UNCHANGED <<stored, permissions, queue, mode>>

\* read_command and add_transaction.
Send(s) ==
    /\ Up /\ clients[s].state = "on" /\ ~clients[s].locked
    /\ Len(queue) < MaxQueue
    /\ queue' = Append(queue, [slot |-> s, password |-> clients[s].password])
    /\ UNCHANGED <<stored, permissions, clients, mode>>

Disconnect(s) ==
    /\ Up /\ clients[s].state = "on"
    /\ clients' = [clients EXCEPT ![s].state = "free"]
    /\ UNCHANGED <<stored, permissions, queue, mode>>

-----------------------------------------------------------------------------
(* Execution of the first queued transaction. *)

Block == Head(queue)
Client == Block.slot
Gone == clients[Client].state = "free"

Execute(p) ==
    /\ Up /\ queue # << >>
    /\ p \in Readable(Block.password)
    /\ queue' = Tail(queue)

NoEffect == UNCHANGED <<stored, permissions, clients, mode>>

\* The permissions that ADD and EDIT are given: `all`, one letter or several.
PermissionWords == {"all", "letter", "letters"}

\* read_permissions_value looks at the characters behind the first one and
\* behind the last, and takes a permission's letter for an error.
ReadPermissions(w) == IF w = "all" THEN permissions["full"] ELSE {}

\* It writes its error into the client's buffer, whether there is a client or not.
InvalidPermission(w) == w = "letters"

\* Seeded fault: a new password may be given the object of another one.
AddPasswordShared(v, granted, o) ==
    /\ stored' = [u \in DOMAIN stored \cup {v} |-> IF u = v THEN o ELSE stored[u]]
    /\ permissions' = [permissions EXCEPT ![o] = granted]
    /\ UNCHANGED <<clients, mode>>

\* Seeded fault: the client is given the full password first, and that is reset.
AddPasswordSwapped(v, granted, o) ==
    /\ o \in Objects \ Range(stored)
    /\ stored' = [u \in DOMAIN stored \cup {v} |-> IF u = v THEN o ELSE stored[u]]
    /\ LET first == stored = << >>
       IN  /\ permissions' = [x \in DOMAIN permissions |->
                IF x = o THEN granted
                ELSE IF first /\ x = "full" THEN {} ELSE permissions[x]]
           /\ clients' = IF first THEN [clients EXCEPT ![Client].password = "full"] ELSE clients
    /\ UNCHANGED mode

\* add_password.  (A key derivation that fails returns with the password counted and
\* its place in the list not written; this is left out.)
AddPassword(v, granted, o) ==
    /\ o \in Objects \ Range(stored)
    /\ stored' = [u \in DOMAIN stored \cup {v} |-> IF u = v THEN o ELSE stored[u]]
    /\ LET first == stored = << >>
       IN  /\ permissions' = [x \in DOMAIN permissions |->
                IF x = o THEN granted
                ELSE IF first /\ x = clients[Client].password THEN {} ELSE permissions[x]]
           /\ clients' = IF first THEN [clients EXCEPT ![Client].password = "full"] ELSE clients
    /\ UNCHANGED mode

PwdAdd(p, v, w) ==
    /\ Execute(p) /\ "P_AUTH" \in p
    /\ ~InvalidPermission(w) /\ ReadPermissions(w) \subseteq p
    /\ v \notin DOMAIN stored
    /\ ~(stored = << >> /\ Gone)
    /\ \E o \in Objects : AddPassword(v, ReadPermissions(w), o)

PwdEdit(p, v, w) ==
    /\ Execute(p) /\ "P_AUTH" \in p
    /\ v \in DOMAIN stored
    /\ ~InvalidPermission(w) /\ ReadPermissions(w) \subseteq p
    /\ permissions' = [permissions EXCEPT ![stored[v]] = ReadPermissions(w)]
    /\ UNCHANGED <<stored, clients, mode>>

\* GENERATE, or a refusal: PWD is not permitted, ADD of a value that exists, EDIT
\* or REMOVE of one that does not, permissions that the executor lacks.
PwdRefused(p) ==
    /\ Execute(p)
    /\ "P_AUTH" \in p \/ ~Gone
    /\ NoEffect

\* Seeded fault: only the removal of the last password looks at its users.
HoldersResetLast(o) ==
    [s \in Slots |->
       IF clients[s].state # "free" /\ clients[s].password = o /\ Cardinality(DOMAIN stored) = 1
       THEN [clients[s] EXCEPT !.password = "empty"] ELSE clients[s]]

\* Seeded fault: the users of a removed password keep it.
HoldersKept(o) == clients

\* remove_password_from_clients.
HoldersReset(o) ==
    [s \in Slots |->
       IF clients[s].state # "free" /\ clients[s].password = o
       THEN [clients[s] EXCEPT !.password = "empty"] ELSE clients[s]]

\* remove_password: the executor of the last removal gets all permissions.
PwdRemove(p, v) ==
    /\ Execute(p) /\ "P_AUTH" \in p
    /\ v \in DOMAIN stored
    /\ LET last == DOMAIN stored = {v}
       IN  /\ ~(last /\ Gone)
           /\ clients' = IF last
                THEN [HoldersReset(stored[v]) EXCEPT ![Client].password = "full"]
                ELSE HoldersReset(stored[v])
    /\ stored' = [u \in DOMAIN stored \ {v} |-> stored[u]]
    /\ UNCHANGED <<permissions, mode>>

\* The client has gone, and its NULL pointer is followed: by the refusal of the
\* command, by the error of read_permissions_value, by ADD of the first password
\* and by REMOVE of the last one.
PwdDies(p, v, w) ==
    /\ Execute(p) /\ Gone
    /\ \/ "P_AUTH" \notin p
       \/ InvalidPermission(w)
       \/ stored = << >> /\ ReadPermissions(w) \subseteq p
       \/ DOMAIN stored = {v}
    /\ mode' = "down" /\ UNCHANGED <<stored, permissions, clients>>

\* AUTH: a client that has a password already must say ok.
AuthCommand(p, v, ok) ==
    /\ Execute(p)
    /\ ~Gone /\ v \in DOMAIN stored
    /\ Block.password = "empty" \/ ok
    /\ clients' = [clients EXCEPT ![Client].password = stored[v]]
    /\ UNCHANGED <<stored, permissions, mode>>

AuthRefused(p, v) ==
    /\ Execute(p)
    /\ Gone \/ v \notin DOMAIN stored \/ Block.password # "empty"
    /\ NoEffect

\* CLIENT LOCK and KILL do not touch a client that has P_CLIENT itself.
MayTouch(p, s) ==
    /\ "P_CLIENT" \in p
    /\ clients[s].state # "free"
    /\ \E q \in Readable(clients[s].password) : "P_CLIENT" \notin q

ClientLock(p, s) ==
    /\ Execute(p) /\ MayTouch(p, s) /\ ~clients[s].locked
    /\ clients' = [clients EXCEPT ![s].locked = TRUE]
    /\ UNCHANGED <<stored, permissions, mode>>

ClientUnlock(p, s) ==
    /\ Execute(p) /\ "P_CLIENT" \in p
    /\ clients[s].state # "free" /\ clients[s].locked
    /\ clients' = [clients EXCEPT ![s].locked = FALSE]
    /\ UNCHANGED <<stored, permissions, mode>>

\* terminate_connection and remove_client.
ClientKill(p, s) ==
    /\ Execute(p) /\ MayTouch(p, s)
    /\ clients' = [clients EXCEPT ![s].state = "free"]
    /\ UNCHANGED <<stored, permissions, mode>>

ClientRefused(p, s) ==
    /\ Execute(p)
    /\ \/ "P_CLIENT" \notin p
       \/ clients[s].state = "free"
       \/ \E q \in Readable(clients[s].password) : "P_CLIENT" \in q
    /\ NoEffect

Next ==
    \/ \E s \in Slots : Accept(s) \/ Join(s) \/ Send(s) \/ Disconnect(s)
    \/ \E p \in SUBSET Permissions :
          \/ \E v \in Values, w \in PermissionWords :
                PwdAdd(p, v, w) \/ PwdEdit(p, v, w) \/ PwdDies(p, v, w)
          \/ PwdRefused(p)
          \/ \E v \in Values :
                \/ PwdRemove(p, v) \/ AuthRefused(p, v)
                \/ \E ok \in BOOLEAN : AuthCommand(p, v, ok)
          \/ \E s \in Slots :
                ClientLock(p, s) \/ ClientUnlock(p, s) \/ ClientKill(p, s) \/ ClientRefused(p, s)

Spec == Init /\ [][Next]_vars

-----------------------------------------------------------------------------
(* Properties. *)

TypeOK ==
    /\ DOMAIN stored \subseteq Values /\ Range(stored) \subseteq Objects /\ IsInjective(stored)
    /\ permissions \in [Constants \cup Objects -> SUBSET Permissions]
    /\ clients \in [Slots -> [state : {"free", "joining", "on"},
                              password : Constants \cup Objects \cup {Wild}, locked : BOOLEAN]]
    /\ queue \in Seq([slot : Slots, password : Constants \cup Objects \cup {Wild}])
    /\ mode \in {"up", "down"}

\* A connected client's password is never an object that was freed: removal finds
\* all its users, also when two clients share it and one of them is the executor.
HeldPasswordsExist ==
    \A s \in Slots : clients[s].state = "on" => clients[s].password \in Live

\* "Resets all client permissions via reference" (auth.c): once there is a
\* password, those who connected before it was added may do nothing.
EarlierClientsReset ==
    \A s \in Slots :
        clients[s].state = "on" /\ clients[s].password = "default" /\ stored # << >>
            => permissions["default"] = {}

\* Why this holds if no password was loaded: as long as none was ever added, all
\* clients, those who sent the queued commands included, hold the default
\* password, so that whoever adds the first one resets this object, for good.
NoneEverAdded ==
    /\ stored = << >>
    /\ \A s \in Slots : clients[s].password \in {"default", Wild}
    /\ \A i \in DOMAIN queue : clients[queue[i].slot].password = "default"
DefaultResetForGood == permissions["default"] = {} \/ NoneEverAdded

\* A connected client that does not change its password gets more permissions
\* only by an edit of the password it uses: never by the removal of that password
\* and the addition of another one in the same memory, nor through a constant.
GrowthIsEdit ==
    [][\A s \in Slots :
         LET o == clients[s].password
         IN  (/\ clients[s].state = "on" /\ clients'[s].state = "on"
              /\ clients'[s].password = o /\ o \in DOMAIN permissions
              /\ ~(permissions'[o] \subseteq permissions[o]))
             => \E v \in DOMAIN stored \cap DOMAIN stored' : stored[v] = o /\ stored'[v] = o]_vars

\* "If there is no database file or there is no password in the server, all
\* clients have all permissions" (docs/AUTH.md).
NoPasswordAllPermissions ==
    stored = << >> => \A s \in Slots :
        clients[s].state = "on" => permissions[clients[s].password] = Permissions

\* "Give full permissions to client which added first password" (auth.c): the
\* object that is given has all permissions.
FullIsFull == permissions["full"] = Permissions

\* A transaction is executed with a password that still exists.
CapturedPasswordsExist ==
    \A i \in DOMAIN queue : queue[i].password \in Live
=============================================================================
