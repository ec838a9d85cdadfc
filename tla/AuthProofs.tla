----------------------------- MODULE AuthProofs -----------------------------
(***************************************************************************)
(* Proofs about Auth, for any number of client slots, password values and  *)
(* password objects, any queue and any passwords loaded from the file.     *)
(***************************************************************************)
EXTENDS Auth, TLAPS

\* The list of passwords is a function into the allocated objects.
StoredType == stored \in [DOMAIN stored -> Objects]

\* The types, with which every step below begins.
Typed == TypeOK /\ StoredType

ClientRecord == [state : {"free", "joining", "on"},
                 password : Constants \cup Objects \cup {Wild}, locked : BOOLEAN]
Transaction == [slot : Slots, password : Constants \cup Objects \cup {Wild}]

-----------------------------------------------------------------------------
(* What a step may do to the variables. *)

\* execute_transaction_block takes a queued transaction, whose slot exists.
LEMMA ExecuteFacts ==
    ASSUME Typed, NEW p, Execute(p)
    PROVE  /\ queue # << >> /\ queue' = Tail(queue)
           /\ Client \in Slots
           /\ queue' \in Seq(Transaction)
           /\ \A i \in DOMAIN queue' : i + 1 \in DOMAIN queue /\ queue'[i] = queue[i + 1]
<1>1. queue # << >> /\ queue' = Tail(queue)
  BY DEF Execute
<1>2. queue \in Seq(Transaction)
  BY DEF Typed, TypeOK, Transaction
<1>3. Head(queue) \in Transaction /\ Tail(queue) \in Seq(Transaction)
  BY <1>1, <1>2
<1>4. \A i \in DOMAIN Tail(queue) :
        i + 1 \in DOMAIN queue /\ Tail(queue)[i] = queue[i + 1]
  BY <1>1, <1>2
<1> QED
  BY <1>1, <1>3, <1>4 DEF Client, Block, Transaction

\* ReadPermissions gives a set of permissions.
LEMMA ReadPermissionsType ==
    ASSUME Typed, NEW w
    PROVE  ReadPermissions(w) \in SUBSET Permissions
BY DEF Typed, TypeOK, ReadPermissions, Constants

\* remove_password_from_clients keeps the records of the clients.
LEMMA HoldersResetType ==
    ASSUME Typed, NEW o
    PROVE  HoldersReset(o) \in [Slots -> ClientRecord]
BY DEF Typed, TypeOK, HoldersReset, ClientRecord, Constants

\* What AddPassword does to the list of passwords: one new value, in memory that
\* no other password is in.
LEMMA AddPasswordStored ==
    ASSUME Typed, NEW v \in Values, v \notin DOMAIN stored,
           NEW g \in SUBSET Permissions, NEW o \in Objects, AddPassword(v, g, o)
    PROVE  /\ StoredType' /\ DOMAIN stored' = DOMAIN stored \cup {v}
           /\ Range(stored') = Range(stored) \cup {o} /\ o \notin Range(stored)
           /\ IsInjective(stored')
<1>1. o \notin Range(stored) /\ stored \in [DOMAIN stored -> Objects] /\ IsInjective(stored)
  BY DEF Typed, TypeOK, StoredType, AddPassword
<1>2. stored' = [u \in DOMAIN stored \cup {v} |-> IF u = v THEN o ELSE stored[u]]
  BY DEF AddPassword
<1>3. StoredType' /\ DOMAIN stored' = DOMAIN stored \cup {v}
  BY <1>1, <1>2 DEF StoredType
<1>4. Range(stored') = Range(stored) \cup {o}
  BY <1>1, <1>2 DEF Range
<1>5. IsInjective(stored')
  BY <1>1, <1>2 DEF Range, IsInjective
<1> QED
  BY <1>1, <1>3, <1>4, <1>5

\* What remove_password does to it: the memory of one value is freed.
LEMMA RemoveStored ==
    ASSUME Typed, NEW p, NEW v \in Values, PwdRemove(p, v)
    PROVE  /\ StoredType' /\ DOMAIN stored' = DOMAIN stored \ {v}
           /\ v \in DOMAIN stored /\ stored[v] \in Objects
           /\ Range(stored') = Range(stored) \ {stored[v]}
           /\ IsInjective(stored')
<1>1. stored \in [DOMAIN stored -> Objects] /\ IsInjective(stored) /\ v \in DOMAIN stored
  BY DEF Typed, TypeOK, StoredType, PwdRemove
<1>2. stored' = [u \in DOMAIN stored \ {v} |-> stored[u]]
  BY DEF PwdRemove
<1>3. StoredType' /\ DOMAIN stored' = DOMAIN stored \ {v}
  BY <1>1, <1>2 DEF StoredType
<1>4. Range(stored') = Range(stored) \ {stored[v]}
  BY <1>1, <1>2 DEF Range, IsInjective
<1>5. IsInjective(stored')
  BY <1>1, <1>2 DEF IsInjective
<1> QED
  BY <1>1, <1>3, <1>4, <1>5

-----------------------------------------------------------------------------
(* Type correctness. *)

\* Every command and every step of a connection keeps the types.
LEMMA TypeStep == Typed /\ [Next]_vars => Typed'
<1> SUFFICES ASSUME Typed, [Next]_vars PROVE Typed'
  OBVIOUS
<1>0. ASSUME UNCHANGED <<stored, permissions, mode>>, queue' \in Seq(Transaction),
             clients' \in [Slots -> ClientRecord]
      PROVE  Typed'
  BY <1>0 DEF Typed, TypeOK, StoredType, Transaction, ClientRecord
<1>t. clients \in [Slots -> ClientRecord] /\ queue \in Seq(Transaction)
  BY DEF Typed, TypeOK, ClientRecord, Transaction
<1>1. ASSUME NEW s \in Slots, Accept(s) \/ Join(s) \/ Send(s) \/ Disconnect(s) PROVE Typed'
  <2>1. UNCHANGED <<stored, permissions, mode>>
    BY <1>1 DEF Accept, Join, Send, Disconnect
  <2>2. clients' \in [Slots -> ClientRecord]
    BY <1>1, <1>t DEF Accept, Join, Send, Disconnect, ClientRecord, Constants
  <2>3. queue' \in Seq(Transaction)
    <3>1. [slot |-> s, password |-> clients[s].password] \in Transaction
      BY <1>t DEF ClientRecord, Transaction
    <3>2. Append(queue, [slot |-> s, password |-> clients[s].password]) \in Seq(Transaction)
      BY <1>t, <3>1
    <3> QED
      BY <1>1, <1>t, <3>2 DEF Accept, Join, Send, Disconnect
  <2> QED
    BY <1>0, <2>1, <2>2, <2>3
<1>2. ASSUME NEW p \in SUBSET Permissions, NEW v \in Values, NEW w \in PermissionWords,
             PwdAdd(p, v, w)
      PROVE  Typed'
  <2>1. PICK o \in Objects : AddPassword(v, ReadPermissions(w), o)
    BY <1>2 DEF PwdAdd
  <2>2. Execute(p) /\ v \notin DOMAIN stored
    BY <1>2 DEF PwdAdd
  <2>3. ReadPermissions(w) \in SUBSET Permissions
    BY ReadPermissionsType
  <2>4. /\ StoredType' /\ DOMAIN stored' = DOMAIN stored \cup {v}
        /\ Range(stored') = Range(stored) \cup {o} /\ IsInjective(stored')
    BY <2>1, <2>2, <2>3, AddPasswordStored
  <2>5. queue' \in Seq(Transaction) /\ Client \in Slots
    BY <2>2, ExecuteFacts
  <2>6. permissions' \in [Constants \cup Objects -> SUBSET Permissions]
    BY <2>1, <2>3 DEF AddPassword, Typed, TypeOK
  <2>7. clients' \in [Slots -> ClientRecord]
    BY <1>t, <2>1, <2>5 DEF AddPassword, ClientRecord, Constants
  <2>8. mode' = mode
    BY <2>1 DEF AddPassword
  <2> QED
    BY <2>4, <2>5, <2>6, <2>7, <2>8 DEF Typed, TypeOK, ClientRecord, Transaction
<1>3. ASSUME NEW p \in SUBSET Permissions, NEW v \in Values, NEW w \in PermissionWords,
             PwdEdit(p, v, w)
      PROVE  Typed'
  <2>1. queue' \in Seq(Transaction)
    BY <1>3, ExecuteFacts DEF PwdEdit
  <2>2. permissions' \in [Constants \cup Objects -> SUBSET Permissions]
    BY <1>3, ReadPermissionsType DEF PwdEdit, Typed, TypeOK
  <2> QED
    BY <1>3, <2>1, <2>2 DEF PwdEdit, Typed, TypeOK, StoredType, Transaction
<1>4. ASSUME NEW p \in SUBSET Permissions, NEW v \in Values, NEW w \in PermissionWords,
             PwdDies(p, v, w)
      PROVE  Typed'
  <2>1. queue' \in Seq(Transaction)
    BY <1>4, ExecuteFacts DEF PwdDies
  <2> QED
    BY <1>4, <2>1 DEF PwdDies, Typed, TypeOK, StoredType, Transaction
<1>5. ASSUME NEW p \in SUBSET Permissions, NEW v \in Values, PwdRemove(p, v) PROVE Typed'
  <2>1. queue' \in Seq(Transaction) /\ Client \in Slots
    BY <1>5, ExecuteFacts DEF PwdRemove
  <2>2. clients' \in [Slots -> ClientRecord]
    BY <1>5, <2>1, HoldersResetType DEF PwdRemove, ClientRecord, Constants
  <2>3. /\ StoredType' /\ DOMAIN stored' = DOMAIN stored \ {v}
        /\ Range(stored') = Range(stored) \ {stored[v]} /\ IsInjective(stored')
    BY <1>5, RemoveStored
  <2>4. UNCHANGED <<permissions, mode>>
    BY <1>5 DEF PwdRemove
  <2> QED
    BY <2>1, <2>2, <2>3, <2>4 DEF Typed, TypeOK, ClientRecord, Transaction
<1>6. ASSUME NEW p \in SUBSET Permissions, NEW v \in Values, NEW ok \in BOOLEAN,
             AuthCommand(p, v, ok)
      PROVE  Typed'
  <2>1. queue' \in Seq(Transaction) /\ Client \in Slots
    BY <1>6, ExecuteFacts DEF AuthCommand
  <2>2. stored[v] \in Objects
    BY <1>6 DEF AuthCommand, Typed, StoredType
  <2>3. clients' \in [Slots -> ClientRecord]
    BY <1>6, <1>t, <2>1, <2>2 DEF AuthCommand, ClientRecord
  <2> QED
    BY <1>0, <1>6, <2>1, <2>3 DEF AuthCommand
<1>7. ASSUME NEW p \in SUBSET Permissions, NEW s \in Slots,
             ClientLock(p, s) \/ ClientUnlock(p, s) \/ ClientKill(p, s)
      PROVE  Typed'
  <2>1. queue' \in Seq(Transaction)
    BY <1>7, ExecuteFacts DEF ClientLock, ClientUnlock, ClientKill
  <2>2. clients' \in [Slots -> ClientRecord]
    BY <1>7, <1>t, ZenonT(30) DEF ClientLock, ClientUnlock, ClientKill, ClientRecord
  <2> QED
    BY <1>0, <1>7, <2>1, <2>2 DEF ClientLock, ClientUnlock, ClientKill
<1>8. ASSUME NEW p \in SUBSET Permissions, Execute(p), NoEffect PROVE Typed'
  <2>1. queue' \in Seq(Transaction)
    BY <1>8, ExecuteFacts
  <2> QED
    BY <1>0, <1>t, <1>8, <2>1 DEF NoEffect
<1>9. CASE UNCHANGED vars
  BY <1>0, <1>9, <1>t DEF vars
<1> QED
  BY <1>1, <1>2, <1>3, <1>4, <1>5, <1>6, <1>7, <1>8, <1>9
  DEF Next, PwdRefused, AuthRefused, ClientRefused

\* The passwords loaded from the file are distinct objects.
LEMMA TypeInit == Init => Typed
<1> SUFFICES ASSUME Init PROVE Typed
  OBVIOUS
<1>1. PICK f \in [Loaded -> Objects] : IsInjective(f) /\ stored = f
  BY DEF Init
<1>2. StoredType /\ DOMAIN stored \subseteq Values /\ Range(stored) \subseteq Objects
  BY <1>1, AuthAssumption DEF StoredType, Range
<1>3. permissions \in [Constants \cup Objects -> SUBSET Permissions]
  BY DEF Init
<1>4. /\ clients \in [Slots -> ClientRecord] /\ queue \in Seq(Transaction)
      /\ mode \in {"up", "down"}
  BY DEF Init, ClientRecord, Transaction
<1> QED
  BY <1>1, <1>2, <1>3, <1>4 DEF Typed, TypeOK, ClientRecord, Transaction

\* All steps keep the types of Auth, whatever passwords were loaded: in particular
\* two passwords never share an object.
THEOREM TypeCorrect == Spec => []TypeOK
<1>1. Typed => TypeOK
  BY DEF Typed
<1> QED
  BY <1>1, TypeInit, TypeStep, PTL DEF Spec

\* The same with the type of the list of passwords.
LEMMA TypedInvariant == Spec => []Typed
BY TypeInit, TypeStep, PTL DEF Spec

-----------------------------------------------------------------------------
(* No connected client holds a freed password. *)

\* A client that is connected after the step was connected before and has the
\* password it had, or it has one that exists now.
LEMMA HeldStep ==
    ASSUME Typed, HeldPasswordsExist, [Next]_vars
    PROVE  HeldPasswordsExist'
<1> DEFINE Kept(s) == clients'[s].state = "on" =>
                        \/ clients[s].state = "on" /\ clients'[s].password = clients[s].password
                        \/ clients'[s].password \in Live'
<1>0. ASSUME \A s \in Slots : Kept(s), Live \subseteq Live' PROVE HeldPasswordsExist'
  BY <1>0 DEF HeldPasswordsExist
<1>t. clients \in [Slots -> ClientRecord]
  BY DEF Typed, TypeOK, ClientRecord
<1>1. ASSUME NEW s \in Slots, Accept(s) \/ Join(s) \/ Send(s) \/ Disconnect(s)
      PROVE  HeldPasswordsExist'
  <2>1. Live' = Live
    BY <1>1 DEF Accept, Join, Send, Disconnect, Live
  <2>2. \A r \in Slots : Kept(r)
    BY <1>1, <1>t DEF Accept, Join, Send, Disconnect, Live, Constants, ClientRecord
  <2> QED
    BY <1>0, <2>1, <2>2
<1>2. ASSUME NEW p \in SUBSET Permissions, NEW v \in Values, NEW w \in PermissionWords,
             PwdAdd(p, v, w)
      PROVE  HeldPasswordsExist'
  <2>1. PICK o \in Objects : AddPassword(v, ReadPermissions(w), o)
    BY <1>2 DEF PwdAdd
  <2>2. Live' = Live \cup {o}
    BY <1>2, <2>1, ReadPermissionsType, AddPasswordStored DEF PwdAdd, Live
  <2>3. \A s \in Slots : Kept(s)
    BY <1>2, <1>t, <2>1, <2>2 DEF AddPassword, PwdAdd, Live, Constants, ClientRecord
  <2> QED
    BY <1>0, <2>2, <2>3
<1>3. ASSUME NEW p \in SUBSET Permissions, NEW v \in Values, NEW w \in PermissionWords,
             PwdEdit(p, v, w) \/ PwdDies(p, v, w)
      PROVE  HeldPasswordsExist'
  BY <1>3 DEF PwdEdit, PwdDies, HeldPasswordsExist, Live
<1>4. ASSUME NEW p \in SUBSET Permissions, NEW v \in Values, PwdRemove(p, v)
      PROVE  HeldPasswordsExist'
  <2>1. Live \ {stored[v]} \subseteq Live' /\ Constants \subseteq Live'
    BY <1>4, RemoveStored DEF Live
  <2>2. Client \in Slots
    BY <1>4, ExecuteFacts DEF PwdRemove
  <2>3. SUFFICES ASSUME NEW s \in Slots, clients'[s].state = "on"
                 PROVE  clients'[s].password \in Live'
    BY DEF HeldPasswordsExist
  <2>4. clients' = HoldersReset(stored[v])
        \/ clients' = [HoldersReset(stored[v]) EXCEPT ![Client].password = "full"]
    BY <1>4 DEF PwdRemove
  <2>5. /\ HoldersReset(stored[v]) \in [Slots -> ClientRecord]
        /\ HoldersReset(stored[v])[s].state = clients[s].state
        /\ clients[s].state = "on" =>
             \/ HoldersReset(stored[v])[s].password = "empty"
             \/ /\ HoldersReset(stored[v])[s].password = clients[s].password
                /\ clients[s].password # stored[v]
    BY <1>t, HoldersResetType DEF HoldersReset, ClientRecord
  <2>6. clients[s].state = "on" /\ clients[s].password \in Live
    BY <2>2, <2>3, <2>4, <2>5 DEF HeldPasswordsExist, ClientRecord
  <2>7. clients'[s].password \in {"full", HoldersReset(stored[v])[s].password}
    BY <2>2, <2>4, <2>5 DEF ClientRecord
  <2> QED
    BY <2>1, <2>5, <2>6, <2>7 DEF Constants
<1>5. ASSUME NEW p \in SUBSET Permissions, NEW v \in Values, NEW ok \in BOOLEAN,
             AuthCommand(p, v, ok)
      PROVE  HeldPasswordsExist'
  <2>1. Live' = Live /\ stored[v] \in Live
    BY <1>5 DEF AuthCommand, Live, Range
  <2>2. \A s \in Slots : Kept(s)
    BY <1>5, <1>t, <2>1, ExecuteFacts DEF AuthCommand, ClientRecord
  <2> QED
    BY <1>0, <2>1, <2>2
<1>6. ASSUME NEW p \in SUBSET Permissions, NEW s \in Slots,
             ClientLock(p, s) \/ ClientUnlock(p, s) \/ ClientKill(p, s)
      PROVE  HeldPasswordsExist'
  <2>1. Live' = Live
    BY <1>6 DEF ClientLock, ClientUnlock, ClientKill, Live
  <2>2. \A r \in Slots : Kept(r)
    BY <1>6, <1>t DEF ClientLock, ClientUnlock, ClientKill, ClientRecord
  <2> QED
    BY <1>0, <2>1, <2>2
<1>7. CASE NoEffect \/ UNCHANGED vars
  BY <1>7 DEF NoEffect, vars, HeldPasswordsExist, Live
<1> QED
  BY <1>1, <1>2, <1>3, <1>4, <1>5, <1>6, <1>7
  DEF Next, PwdRefused, AuthRefused, ClientRefused

\* PWD REMOVE resets every connected user of the password it frees (and AUTH and
\* PWD ADD hand out passwords that exist), in every behaviour of the server.
THEOREM HeldPasswordsExistInvariant == Spec => []HeldPasswordsExist
<1>1. Init => HeldPasswordsExist
  BY DEF Init, HeldPasswordsExist
<1>2. Typed /\ HeldPasswordsExist /\ [Next]_vars => HeldPasswordsExist'
  BY HeldStep
<1> QED
  BY <1>1, <1>2, TypedInvariant, PTL DEF Spec

-----------------------------------------------------------------------------
(* Permissions do not grow behind a client's back. *)

\* A step of the server changes the permissions of an object only in PWD ADD and
\* PWD EDIT; a client that keeps its password sees them grow in an edit only.
LEMMA GrowthStep ==
    ASSUME Typed, HeldPasswordsExist, [Next]_vars,
           NEW s \in Slots, NEW o \in DOMAIN permissions,
           clients[s].state = "on", clients[s].password = o,
           ~(permissions'[o] \subseteq permissions[o])
    PROVE  \E v \in DOMAIN stored \cap DOMAIN stored' : stored[v] = o /\ stored'[v] = o
<1>1. permissions' # permissions
  OBVIOUS
<1>2. PICK p \in SUBSET Permissions, v \in Values, w \in PermissionWords :
        PwdAdd(p, v, w) \/ PwdEdit(p, v, w)
  BY <1>1 DEF Next, vars, Accept, Join, Send, Disconnect, PwdDies, PwdRefused, PwdRemove,
     AuthCommand, AuthRefused, ClientLock, ClientUnlock, ClientKill, ClientRefused, NoEffect
<1>3. permissions \in [Constants \cup Objects -> SUBSET Permissions]
  BY DEF Typed, TypeOK
<1>4. CASE PwdAdd(p, v, w)
  <2>1. PICK x \in Objects : AddPassword(v, ReadPermissions(w), x)
    BY <1>4 DEF PwdAdd
  <2>2. o = x
    BY <1>3, <2>1 DEF AddPassword
  <2>3. x \notin Live
    BY <2>1, AuthAssumption DEF AddPassword, Live
  <2> QED
    BY <2>2, <2>3 DEF HeldPasswordsExist
<1>5. CASE PwdEdit(p, v, w)
  BY <1>3, <1>5 DEF PwdEdit
<1> QED
  BY <1>2, <1>4, <1>5

\* A client's permissions never grow by a password being removed and another one
\* allocated in its place, nor through the constants that clients share.
THEOREM GrowthIsEditHolds == Spec => GrowthIsEdit
<1> DEFINE Growth ==
      \A s \in Slots :
         LET o == clients[s].password
         IN  (/\ clients[s].state = "on" /\ clients'[s].state = "on"
              /\ clients'[s].password = o /\ o \in DOMAIN permissions
              /\ ~(permissions'[o] \subseteq permissions[o]))
             => \E v \in DOMAIN stored \cap DOMAIN stored' : stored[v] = o /\ stored'[v] = o
<1>1. Typed /\ HeldPasswordsExist /\ [Next]_vars => [Growth]_vars
  <2> SUFFICES ASSUME Typed, HeldPasswordsExist, [Next]_vars PROVE Growth
    OBVIOUS
  <2> QED
    BY GrowthStep
<1>2. Spec => [][Growth]_vars
  BY <1>1, TypedInvariant, HeldPasswordsExistInvariant, PTL DEF Spec
<1> QED
  BY <1>2 DEF GrowthIsEdit

-----------------------------------------------------------------------------
(* The first password resets those who connected before it. *)

\* Nothing gives the default password its permissions back.
LEMMA DefaultStaysReset ==
    ASSUME Typed, permissions["default"] = {}, [Next]_vars
    PROVE  permissions'["default"] = {}
<1>0. /\ permissions \in [Constants \cup Objects -> SUBSET Permissions]
      /\ "default" \in Constants /\ "default" \notin Objects
  BY AuthAssumption DEF Typed, TypeOK, Constants
<1>1. CASE UNCHANGED permissions
  BY <1>1
<1>2. ASSUME NEW p \in SUBSET Permissions, NEW v \in Values, NEW w \in PermissionWords,
             PwdAdd(p, v, w)
      PROVE  permissions'["default"] = {}
  BY <1>0, <1>2 DEF PwdAdd, AddPassword
<1>3. ASSUME NEW p \in SUBSET Permissions, NEW v \in Values, NEW w \in PermissionWords,
             PwdEdit(p, v, w)
      PROVE  permissions'["default"] = {}
  <2>1. stored[v] \in Objects
    BY <1>3 DEF PwdEdit, Typed, StoredType
  <2> QED
    BY <1>0, <1>3, <2>1 DEF PwdEdit
<1> QED
  BY <1>1, <1>2, <1>3
  DEF Next, vars, Accept, Join, Send, Disconnect, PwdDies, PwdRefused, PwdRemove,
     AuthCommand, AuthRefused, ClientLock, ClientUnlock, ClientKill, ClientRefused, NoEffect

\* As long as no password was added, every client has the default one; the first
\* addition resets it.
LEMMA NoneEverAddedStep ==
    ASSUME Typed, HeldPasswordsExist, NoneEverAdded, [Next]_vars
    PROVE  DefaultResetForGood'
<1>t. clients \in [Slots -> ClientRecord] /\ queue \in Seq(Transaction)
  BY DEF Typed, TypeOK, ClientRecord, Transaction
<1>d. DOMAIN stored = {}
  BY DEF NoneEverAdded
<1>q. \A i \in DOMAIN queue : queue[i].slot \in Slots
  <2>1. \A i \in DOMAIN queue : queue[i] \in Transaction
    BY <1>t
  <2> QED
    BY <2>1 DEF Transaction
<1>0. ASSUME stored' = stored, \A s \in Slots : clients'[s].password = clients[s].password,
             \A i \in DOMAIN queue' : \E j \in DOMAIN queue : queue'[i] = queue[j]
      PROVE  NoneEverAdded'
  BY <1>0, <1>q DEF NoneEverAdded
<1>1. ASSUME NEW s \in Slots, Accept(s) \/ Disconnect(s) PROVE NoneEverAdded'
  <2>1. stored' = stored /\ queue' = queue
    BY <1>1 DEF Accept, Disconnect
  <2>2. \A r \in Slots : clients'[r].password = clients[r].password
    BY <1>1, <1>t DEF Accept, Disconnect, ClientRecord
  <2> QED
    BY <1>0, <2>1, <2>2
<1>2. ASSUME NEW s \in Slots, Join(s) PROVE NoneEverAdded'
  <2>1. stored' = stored /\ queue' = queue /\ stored = << >>
    BY <1>2 DEF Join, NoneEverAdded
  <2>2. \A r \in Slots : clients'[r].password = IF r = s THEN "default" ELSE clients[r].password
    BY <1>2, <1>t, <2>1 DEF Join, ClientRecord
  <2> QED
    BY <1>q, <2>1, <2>2 DEF NoneEverAdded
<1>3. ASSUME NEW s \in Slots, Send(s) PROVE NoneEverAdded'
  <2>1. stored' = stored /\ clients' = clients
    BY <1>3 DEF Send
  <2>2. clients[s].password = "default"
    BY <1>3, AuthAssumption DEF Send, HeldPasswordsExist, NoneEverAdded, Live, Wild, Constants, Range
  <2>3. \A i \in DOMAIN queue' : (i \in DOMAIN queue /\ queue'[i] = queue[i]) \/ queue'[i].slot = s
    BY <1>3, <1>t DEF Send
  <2> QED
    BY <2>1, <2>2, <2>3 DEF NoneEverAdded
<1>4. ASSUME NEW p \in SUBSET Permissions, NEW v \in Values, NEW w \in PermissionWords,
             PwdAdd(p, v, w)
      PROVE  permissions'["default"] = {}
  <2>1. PICK o \in Objects : AddPassword(v, ReadPermissions(w), o)
    BY <1>4 DEF PwdAdd
  <2>2. 1 \in DOMAIN queue /\ Client = queue[1].slot
    BY <1>4, <1>t DEF PwdAdd, Execute, Client, Block
  <2>3. clients[Client].password = "default" /\ stored = << >>
    BY <2>2 DEF NoneEverAdded
  <2> QED
    BY <2>1, <2>3, AuthAssumption DEF AddPassword, Typed, TypeOK, Constants
<1>5. ASSUME NEW p \in SUBSET Permissions, Execute(p), stored' = stored,
             \A s \in Slots : clients'[s].password = clients[s].password
      PROVE  NoneEverAdded'
  BY <1>0, <1>5, ExecuteFacts
<1>6. ASSUME NEW p \in SUBSET Permissions, NEW s \in Slots,
             ClientLock(p, s) \/ ClientUnlock(p, s) \/ ClientKill(p, s)
      PROVE  NoneEverAdded'
  <2>1. stored' = stored /\ Execute(p)
    BY <1>6 DEF ClientLock, ClientUnlock, ClientKill
  <2>2. \A r \in Slots : clients'[r].password = clients[r].password
    BY <1>6, <1>t DEF ClientLock, ClientUnlock, ClientKill, ClientRecord
  <2> QED
    BY <1>5, <2>1, <2>2
<1>7. ASSUME NEW p \in SUBSET Permissions, Execute(p), UNCHANGED <<stored, clients>>
      PROVE  NoneEverAdded'
  BY <1>5, <1>7
<1>8. CASE UNCHANGED vars
  <2>1. stored' = stored /\ clients' = clients /\ queue' = queue
    BY <1>8 DEF vars
  <2> QED
    BY <2>1 DEF NoneEverAdded, DefaultResetForGood
<1> QED
  BY <1>1, <1>2, <1>3, <1>4, <1>6, <1>7, <1>8, <1>d
  DEF Next, DefaultResetForGood, PwdEdit, PwdDies, PwdRefused, PwdRemove, AuthCommand, AuthRefused,
      ClientRefused, NoEffect

\* On a server that loaded no password, those who connected before the first one
\* was added may do nothing once there is a password, through any number of
\* additions, removals and reconnections.
THEOREM EarlierClientsResetInvariant ==
    ASSUME Loaded = {}
    PROVE  Spec => []EarlierClientsReset
<1>1. Init => DefaultResetForGood
  <2> SUFFICES ASSUME Init PROVE NoneEverAdded
    BY DEF DefaultResetForGood
  <2>1. stored = << >>
    BY DEF Init
  <2> QED
    BY <2>1 DEF Init, NoneEverAdded
<1>2. Typed /\ HeldPasswordsExist /\ DefaultResetForGood /\ [Next]_vars => DefaultResetForGood'
  BY DefaultStaysReset, NoneEverAddedStep DEF DefaultResetForGood
<1>3. DefaultResetForGood => EarlierClientsReset
  BY DEF DefaultResetForGood, NoneEverAdded, EarlierClientsReset
<1> QED
  BY <1>1, <1>2, <1>3, TypedInvariant, HeldPasswordsExistInvariant, PTL DEF Spec
=============================================================================
