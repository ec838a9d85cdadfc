-------------------------- MODULE TxPipelineProofs --------------------------
(***************************************************************************)
(* Proofs about TxPipeline: the path of a command from the socket to its   *)
(* execution, for any number of clients and commands and any queue size.   *)
(***************************************************************************)
EXTENDS TxPipeline, SequenceTheorems, FiniteSetTheorems, WellFoundedInduction, TLAPS

-----------------------------------------------------------------------------
(***************************************************************************)
(* Types.                                                                  *)
(***************************************************************************)

\* A block that MULTI allocated.
MultiBlock == [st : {"waiting", "queued", "freed"}, cmds : Seq(Nat)]
QueueCell  == [blk : Block, ready : BOOLEAN]

\* What names a block names one that MULTI has allocated, or none.
Indices ==
    /\ \A c \in Clients : wb[c] \in 0..Len(blocks[c]) /\ ref[c] \in 0..Len(blocks[c])
    /\ \A i \in DOMAIN cells : cells[i].blk.multi \in 0..Len(blocks[cells[i].blk.client])
    /\ cur.multi \in 0..Len(blocks[cur.client])

LEMMA RecordUpdates ==
    ASSUME NEW r \in MultiBlock
    PROVE  /\ \A s : [r EXCEPT !.st = s] = [st |-> s, cmds |-> r.cmds]
           /\ \A n : [r EXCEPT !.cmds = Append(@, n)] = [st |-> r.st, cmds |-> Append(r.cmds, n)]
           /\ r.st \in {"waiting", "queued", "freed"} /\ r.cmds \in Seq(Nat)
<1>1. r = [st |-> r.st, cmds |-> r.cmds] /\ r.st \in {"waiting", "queued", "freed"}
      /\ r.cmds \in Seq(Nat)
  BY DEF MultiBlock
<1>2. ASSUME NEW a, NEW b, NEW s
      PROVE  [[st |-> a, cmds |-> b] EXCEPT !.st = s] = [st |-> s, cmds |-> b]
  OBVIOUS
<1>3. ASSUME NEW a, NEW b, NEW n
      PROVE  [[st |-> a, cmds |-> b] EXCEPT !.cmds = Append(@, n)]
               = [st |-> a, cmds |-> Append(b, n)]
  OBVIOUS
<1>4. ASSUME NEW s PROVE [r EXCEPT !.st = s] = [st |-> s, cmds |-> r.cmds]
  <2>1. [[st |-> r.st, cmds |-> r.cmds] EXCEPT !.st = s] = [st |-> s, cmds |-> r.cmds]
    BY <1>2
  <2> QED
    BY <1>1, <2>1, Zenon
<1>5. ASSUME NEW n
      PROVE  [r EXCEPT !.cmds = Append(@, n)] = [st |-> r.st, cmds |-> Append(r.cmds, n)]
  <2>1. [[st |-> r.st, cmds |-> r.cmds] EXCEPT !.cmds = Append(@, n)]
          = [st |-> r.st, cmds |-> Append(r.cmds, n)]
    BY <1>3
  <2> QED
    BY <1>1, <2>1, Zenon
<1> QED
  BY <1>1, <1>4, <1>5

\* The blocks after one of them has changed its state, or got another command.
WithState(c, k, s)   == [blocks EXCEPT ![c][k].st = s]
WithCommand(c, k, n) == [blocks EXCEPT ![c][k].cmds = Append(@, n)]

\* A change of one block's state changes nothing else.
LEMMA StateSet ==
    ASSUME blocks \in [Clients -> Seq(MultiBlock)], NEW c \in Clients, NEW k \in 1..Len(blocks[c]),
           NEW s \in {"waiting", "queued", "freed"},
           blocks' = WithState(c, k, s)
    PROVE  /\ blocks' \in [Clients -> Seq(MultiBlock)]
           /\ \A d \in Clients : d # c => blocks'[d] = blocks[d]
           /\ Len(blocks'[c]) = Len(blocks[c])
           /\ blocks'[c][k] = [st |-> s, cmds |-> blocks[c][k].cmds]
           /\ \A j \in 1..Len(blocks[c]) : j # k => blocks'[c][j] = blocks[c][j]
<1> DEFINE x == [st |-> s, cmds |-> blocks[c][k].cmds]
           row == [blocks[c] EXCEPT ![k] = x]
<1>1. blocks[c] \in Seq(MultiBlock) /\ blocks[c][k] \in MultiBlock
  BY ElementOfSeq
<1>2. x \in MultiBlock /\ [blocks[c][k] EXCEPT !.st = s] = x
  BY <1>1, RecordUpdates DEF MultiBlock
<1>3. blocks' = [blocks EXCEPT ![c] = row]
  BY <1>2, Zenon DEF WithState
<1>4. row \in Seq(MultiBlock) /\ Len(row) = Len(blocks[c])
  BY <1>1, <1>2
<1>5. row[k] = x /\ \A j \in 1..Len(blocks[c]) : j # k => row[j] = blocks[c][j]
  BY <1>1
<1> HIDE DEF x, row
<1> QED
  BY <1>3, <1>4, <1>5 DEF x

\* A command that joins a block changes nothing else.
LEMMA CommandAdded ==
    ASSUME blocks \in [Clients -> Seq(MultiBlock)], NEW c \in Clients, NEW k \in 1..Len(blocks[c]),
           NEW n \in Nat,
           blocks' = WithCommand(c, k, n)
    PROVE  /\ blocks' \in [Clients -> Seq(MultiBlock)]
           /\ \A d \in Clients : d # c => blocks'[d] = blocks[d]
           /\ Len(blocks'[c]) = Len(blocks[c])
           /\ blocks'[c][k] = [st |-> blocks[c][k].st, cmds |-> Append(blocks[c][k].cmds, n)]
           /\ \A j \in 1..Len(blocks[c]) : j # k => blocks'[c][j] = blocks[c][j]
<1> DEFINE x == [st |-> blocks[c][k].st, cmds |-> Append(blocks[c][k].cmds, n)]
           row == [blocks[c] EXCEPT ![k] = x]
<1>1. blocks[c] \in Seq(MultiBlock) /\ blocks[c][k] \in MultiBlock
  BY ElementOfSeq
<1>2. Append(blocks[c][k].cmds, n) \in Seq(Nat)
  BY <1>1, RecordUpdates, AppendProperties
<1>3. x \in MultiBlock /\ [blocks[c][k] EXCEPT !.cmds = Append(@, n)] = x
  BY <1>1, <1>2, RecordUpdates DEF MultiBlock
<1>4. blocks' = [blocks EXCEPT ![c] = row]
  BY <1>3, Zenon DEF WithCommand
<1>5. row \in Seq(MultiBlock) /\ Len(row) = Len(blocks[c])
  BY <1>1, <1>3
<1>6. row[k] = x /\ \A j \in 1..Len(blocks[c]) : j # k => row[j] = blocks[c][j]
  <2>1. DOMAIN blocks[c] = 1..Len(blocks[c])
    BY <1>1
  <2> HIDE DEF x
  <2> QED
    BY <2>1
<1> HIDE DEF x, row
<1> QED
  BY <1>4, <1>5, <1>6 DEF x

LEMMA IdleIsBlock == Idle \in Block /\ Idle.multi = 0
<1>1. (CHOOSE c \in Clients : TRUE) \in Clients
  BY ClientsAssumption
<1> QED
  BY <1>1 DEF Idle, Block

\* The types and the indices together are preserved by every step.
Typed == TypeOK /\ Indices

\* Of the type of the state, what steps that keep queue and blocks disturb.
LEMMA TypeFrame ==
    ASSUME Typed, UNCHANGED <<cells, blocks>>,
           notifier' \in Nat,
           iopc' \in [Clients -> {"idle", "route", "push", "publish", "signal", "append", "tail"}],
           script' \in [Clients -> Seq(Commands)], acks' \in [Clients -> Nat],
           \A c \in Clients : ref'[c] \in {ref[c], wb[c], 0} /\ wb'[c] \in {wb[c], 0},
           ref' \in [Clients -> Nat], wb' \in [Clients -> Nat],
           txpc' \in {"loop", "wait", "drain", "spin", "try", "run", "dead"}, count' \in Nat,
           cur' \in {cur, Idle}, log' \in Seq(Clients \X Nat), kill' \in BOOLEAN,
           mainpc' \in {"serve", "signal", "join", "destroy", "done", "aborted"}
    PROVE  Typed'
<1>1. cur' \in Block /\ cur'.multi \in 0..Len(blocks[cur'.client])
  <2>1. \A c \in Clients : Len(blocks[c]) \in Nat
    BY DEF Typed, TypeOK
  <2>2. cur \in Block /\ cur.multi \in 0..Len(blocks[cur.client])
    BY DEF Typed, TypeOK, Indices
  <2>3. Idle \in Block /\ Idle.multi = 0 /\ Idle.client \in Clients
    BY IdleIsBlock DEF Block
  <2> QED
    BY <2>1, <2>2, <2>3
<1>2. TypeOK'
  BY <1>1 DEF Typed, TypeOK
<1>3. \A c \in Clients : wb'[c] \in 0..Len(blocks[c]) /\ ref'[c] \in 0..Len(blocks[c])
  <2>1. \A c \in Clients : /\ Len(blocks[c]) \in Nat /\ wb[c] \in 0..Len(blocks[c])
                           /\ ref[c] \in 0..Len(blocks[c])
    BY DEF Typed, TypeOK, Indices
  <2>2. ASSUME NEW c \in Clients
        PROVE  wb'[c] \in 0..Len(blocks[c]) /\ ref'[c] \in 0..Len(blocks[c])
    <3>1. 0 \in 0..Len(blocks[c])
      BY <2>1
    <3> QED
      BY <2>1, <3>1
  <2> QED
    BY <2>2
<1> QED
  BY <1>1, <1>2, <1>3 DEF Typed, Indices

-----------------------------------------------------------------------------
(***************************************************************************)
(* How far the threads have come.                                          *)
(***************************************************************************)

\* kill_pending is set when cleanup begins; what the transaction thread still owes
\* to the signals it has taken; cleanup waits for its end.
Phases ==
    /\ kill = (mainpc # "serve")
    /\ txpc \in {"try", "dead"} => kill
    /\ txpc \in {"spin", "try", "run"} => count > 0
    /\ txpc \in {"loop", "wait", "dead"} => count = 0
    /\ mainpc \in {"destroy", "done", "aborted"} => txpc = "dead"

LEMMA PhasesStep == TypeOK /\ Phases /\ [Next]_vars => Phases'
<1> SUFFICES ASSUME TypeOK, Phases, [Next]_vars PROVE Phases'
  OBVIOUS
<1>0. count \in Nat /\ notifier \in Nat /\ kill \in BOOLEAN
      /\ txpc \in {"loop", "wait", "drain", "spin", "try", "run", "dead"}
      /\ mainpc \in {"serve", "signal", "join", "destroy", "done", "aborted"}
  BY DEF TypeOK
<1>1. CASE UNCHANGED <<txvars, kill, mainpc>>
  BY <1>1 DEF Phases, txvars
<1>2. CASE Finish /\ txpc = "run"
  BY <1>0, <1>2 DEF Phases, Finish, TxGoto
<1>3. CASE TxLoop \/ TxConsume \/ TxDrain \/ TxPop \/ TxSkip
  BY <1>0, <1>3 DEF Phases, TxLoop, TxConsume, TxDrain, TxPop, TxSkip, TxGoto
<1>4. CASE KillStore \/ MainStep
  BY <1>0, <1>4 DEF Phases, KillStore, MainStep, KillSignalFails, Abort, KillSignal, DestroyIO, FreeBlocks, txvars
<1>5. ASSUME NEW c \in Clients, (\E op \in Commands : ReadCommand(c, op)) \/ IOStep(c)
      PROVE  UNCHANGED <<txvars, kill, mainpc>> \/ Abort
  BY <1>5 DEF ReadCommand, IOStep, SignalFails, Abort, Route, Reserve, Publish, Signal, AppendToBlock, Tail_, txvars
<1>6. ASSUME RunOp \/ RunMulti \/ RunExec \/ RunDiscard \/ RunBlock PROVE Finish /\ txpc = "run"
  BY <1>6 DEF RunOp, RunMulti, RunExec, RunDiscard, RunBlock, Running
<1>7. CASE UNCHANGED vars
  BY <1>1, <1>7 DEF vars, txvars
<1>8. CASE Abort
  BY <1>0, <1>8 DEF Phases, Abort, txvars
<1> QED
  BY <1>1, <1>2, <1>3, <1>4, <1>5, <1>6, <1>7, <1>8 DEF Next, TxStep

-----------------------------------------------------------------------------
\* The types of all that a step reads.
LEMMA TypedFacts ==
    ASSUME Typed
    PROVE  /\ cells \in Seq(QueueCell) /\ Len(cells) \in Nat /\ Len(cells) <= QueueSize
           /\ notifier \in Nat /\ count \in Nat /\ kill \in BOOLEAN
           /\ iopc \in [Clients -> {"idle", "route", "push", "publish", "signal", "append", "tail"}]
           /\ script \in [Clients -> Seq(Commands)] /\ acks \in [Clients -> Nat]
           /\ wb \in [Clients -> Nat] /\ ref \in [Clients -> Nat]
           /\ blocks \in [Clients -> Seq(MultiBlock)]
           /\ txpc \in {"loop", "wait", "drain", "spin", "try", "run", "dead"}
           /\ mainpc \in {"serve", "signal", "join", "destroy", "done", "aborted"}
           /\ cur \in Block /\ cur.client \in Clients /\ log \in Seq(Clients \X Nat)
           /\ \A c \in Clients : Number(c) \in Nat /\ Len(blocks[c]) \in Nat
           /\ QueueSize \in Nat /\ DOMAIN cells = 1..Len(cells)
BY SizeAssumption DEF Typed, TypeOK, QueueCell, MultiBlock, Number, Block

\* The steps that leave the queue and the blocks alone.
LEMMA QuietTyped ==
    ASSUME Typed, Phases,
           \/ \E c \in Clients : \/ \E op \in Commands : ReadCommand(c, op)
                                 \/ Route(c) \/ Signal(c) \/ Tail_(c)
           \/ TxLoop \/ TxConsume \/ TxDrain \/ TxSkip
           \/ UNCHANGED <<cells, blocks>> /\ (RunOp \/ RunMulti \/ RunExec \/ RunDiscard)
           \/ KillStore \/ Abort \/ KillSignal \/ DestroyIO \/ UNCHANGED vars
    PROVE  Typed'
<1>0. /\ notifier \in Nat /\ count \in Nat /\ kill \in BOOLEAN
      /\ iopc \in [Clients -> {"idle", "route", "push", "publish", "signal", "append", "tail"}]
      /\ script \in [Clients -> Seq(Commands)] /\ acks \in [Clients -> Nat]
      /\ wb \in [Clients -> Nat] /\ ref \in [Clients -> Nat]
      /\ txpc \in {"loop", "wait", "drain", "spin", "try", "run", "dead"}
      /\ mainpc \in {"serve", "signal", "join", "destroy", "done", "aborted"}
      /\ cur \in Block /\ cur.client \in Clients /\ log \in Seq(Clients \X Nat)
  BY TypedFacts
<1>1. ASSUME NEW c \in Clients, NEW op \in Commands, ReadCommand(c, op) PROVE Typed'
  <2>1. Append(script[c], op) \in Seq(Commands)
    BY <1>0, AppendProperties
  <2> QED
    BY <1>0, <1>1, <2>1, TypeFrame DEF ReadCommand, IOGoto, txvars
<1>2. ASSUME NEW c \in Clients, Route(c) \/ Signal(c) \/ Tail_(c) PROVE Typed'
  <2>1. iopc' \in {[iopc EXCEPT ![c] = l] : l \in {"push", "append", "tail", "idle"}}
    BY <1>2 DEF Route, Signal, Tail_, IOGoto
  <2>2. iopc' \in [Clients -> {"idle", "route", "push", "publish", "signal", "append", "tail"}]
    BY <1>0, <2>1
  <2>3. CASE Route(c)
    BY <1>0, <2>2, <2>3, TypeFrame DEF Route, txvars, hist
  <2>4. CASE Signal(c)
    <3>1. notifier' \in Nat
      BY <1>0, <2>4 DEF Signal
    <3> QED
      BY <1>0, <2>2, <2>4, <3>1, TypeFrame DEF Signal, txvars, hist
  <2>5. CASE Tail_(c)
    <3>1. acks' = acks \/ acks' = [acks EXCEPT ![c] = @ + 1]
      BY <2>5 DEF Tail_, Answer
    <3>3. acks' \in [Clients -> Nat]
      <4>1. CASE acks' = [acks EXCEPT ![c] = @ + 1]
        BY <1>0, <4>1
      <4> QED
        BY <1>0, <3>1, <4>1
    <3>2. UNCHANGED <<cells, notifier, script, wb, ref, blocks, txvars, log, kill, mainpc>>
      BY <2>5 DEF Tail_
    <3> QED
      BY <1>0, <2>2, <3>2, <3>3, TypeFrame DEF txvars
  <2> QED
    BY <1>2, <2>3, <2>4, <2>5
<1>3. CASE TxLoop \/ TxConsume \/ TxDrain \/ TxSkip
  <2>1. txpc = "try" => count > 0
    BY DEF Phases
  <2> QED
    BY <1>0, <1>3, <2>1, TypeFrame DEF TxLoop, TxConsume, TxDrain, TxSkip, TxGoto, hist
<1>4. CASE UNCHANGED <<cells, blocks>> /\ (RunOp \/ RunMulti \/ RunExec \/ RunDiscard)
  <2>1. /\ acks' = acks \/ acks' = [acks EXCEPT ![cur.client] = @ + 1]
        /\ count' = count - 1 /\ cur' = Idle /\ txpc' = "drain"
        /\ UNCHANGED <<iopc, script, ref, kill, mainpc>> /\ count > 0
    BY <1>4 DEF RunOp, RunMulti, RunExec, RunDiscard, Running, Finish, TxGoto, Answer, Phases
  <2>2. notifier' \in Nat /\ wb' \in [Clients -> Nat] /\ \A c \in Clients : wb'[c] \in {wb[c], 0}
    <3>1. CASE RunOp \/ RunExec \/ RunDiscard
      <4>1. notifier' \in {notifier, notifier + 1} 
            /\ (wb' = wb \/ wb' = [wb EXCEPT ![cur.client] = 0])
        BY <3>1 DEF RunOp, RunExec, RunDiscard
      <4>2. CASE wb' = [wb EXCEPT ![cur.client] = 0]
        BY <1>0, <4>1, <4>2
      <4>3. CASE wb' = wb
        BY <1>0, <4>1, <4>3
      <4> QED
        BY <4>1, <4>2, <4>3
    <3>2. CASE RunMulti
      <4>1. CASE wb[cur.client] # 0
        BY <1>0, <3>2, <4>1 DEF RunMulti
      <4>2. CASE wb[cur.client] = 0
        <5>1. blocks' = [blocks EXCEPT ![cur.client] = Append(@, [st |-> "waiting", cmds |-> <<>>])]
          BY <3>2, <4>2 DEF RunMulti
        <5>2. blocks[cur.client] \in Seq(MultiBlock) /\ cur.client \in Clients
          BY <1>0, TypedFacts
        <5>3. blocks'[cur.client] = Append(blocks[cur.client], [st |-> "waiting", cmds |-> <<>>])
          BY <5>1, <5>2, TypedFacts
        <5>4. Len(blocks'[cur.client]) = Len(blocks[cur.client]) + 1
          BY <5>2, <5>3
        <5> QED
          BY <1>4, <5>2, <5>4, TypedFacts
      <4> QED
        BY <4>1, <4>2
    <3> QED
      BY <1>4, <3>1, <3>2
  <2>3. log' \in Seq(Clients \X Nat)
    <3>1. cur.n \in Nat /\ <<cur.client, cur.n>> \in Clients \X Nat
      BY <1>0 DEF Block
    <3>2. Append(log, <<cur.client, cur.n>>) \in Seq(Clients \X Nat)
      BY <1>0, <3>1, AppendProperties
    <3> QED
      BY <1>0, <1>4, <3>2 DEF RunOp, RunMulti, RunExec, RunDiscard
  <2>4. acks' \in [Clients -> Nat] /\ count' \in Nat
    <3>1. [acks EXCEPT ![cur.client] = @ + 1] \in [Clients -> Nat]
      BY <1>0
    <3>2. acks' \in [Clients -> Nat]
      <4>1. CASE acks' = [acks EXCEPT ![cur.client] = @ + 1]
        BY <3>1, <4>1
      <4> QED
        BY <1>0, <2>1, <4>1
    <3> QED
      BY <1>0, <2>1, <3>2
  <2> QED
    BY <1>0, <1>4, <2>1, <2>2, <2>3, <2>4, TypeFrame
<1>5. CASE KillStore \/ Abort \/ KillSignal \/ DestroyIO
  <2>1. notifier' \in Nat
    BY <1>0, <1>5 DEF KillStore, Abort, KillSignal, DestroyIO
  <2> QED
    BY <1>0, <1>5, <2>1, TypeFrame DEF KillStore, Abort, KillSignal, DestroyIO, txvars, hist
<1>6. CASE UNCHANGED vars
  BY <1>0, <1>6, TypeFrame DEF vars
<1> QED
  BY <1>1, <1>2, <1>3, <1>4, <1>5, <1>6

\* Of the type of the state, what steps that change the queue or the blocks disturb.
LEMMA TypeChange ==
    ASSUME Typed, UNCHANGED <<script, kill>>, mainpc' \in {mainpc, "done"},
           cells' \in Seq(QueueCell), Len(cells') <= QueueSize,
           blocks' \in [Clients -> Seq(MultiBlock)],
           \A c \in Clients : Len(blocks'[c]) >= Len(blocks[c]),
           \A i \in DOMAIN cells' :
              \/ \E j \in DOMAIN cells : cells'[i].blk = cells[j].blk
              \/ cells'[i].blk.multi \in 0..Len(blocks[cells'[i].blk.client]),
           notifier' \in Nat, count' \in Nat,
           iopc' \in [Clients -> {"idle", "route", "push", "publish", "signal", "append", "tail"}],
           acks' \in [Clients -> Nat], wb' \in [Clients -> Nat], ref' \in [Clients -> Nat],
           \A c \in Clients : wb'[c] <= Len(blocks'[c]) /\ ref'[c] <= ref[c],
           txpc' \in {"loop", "wait", "drain", "spin", "try", "run", "dead"},
           cur' \in {cur, Idle} \/ \E j \in DOMAIN cells : cur' = cells[j].blk,
           log' \in Seq(Clients \X Nat)
    PROVE  Typed'
<1>0. /\ \A c \in Clients : /\ Len(blocks[c]) \in Nat /\ Len(blocks'[c]) \in Nat
                            /\ wb'[c] \in Nat /\ ref'[c] \in Nat /\ ref[c] \in Nat
                            /\ ref[c] <= Len(blocks[c])
      /\ kill \in BOOLEAN /\ mainpc \in {"serve", "signal", "join", "destroy", "done", "aborted"}
      /\ script \in [Clients -> Seq(Commands)]
  <2>1. \A c \in Clients : Len(blocks'[c]) \in Nat /\ wb'[c] \in Nat /\ ref'[c] \in Nat
    OBVIOUS
  <2>2. \A c \in Clients : ref[c] \in 0..Len(blocks[c])
    BY DEF Typed, Indices
  <2>3. \A c \in Clients : Len(blocks[c]) \in Nat
    BY TypedFacts
  <2>4. \A c \in Clients : ref[c] \in Nat /\ ref[c] <= Len(blocks[c])
    BY <2>2, <2>3
  <2> QED
    BY <2>1, <2>3, <2>4, TypedFacts
<1>1. \A j \in DOMAIN cells : cells[j].blk \in Block /\ cells[j].blk.client \in Clients
                              /\ cells[j].blk.multi \in 0..Len(blocks[cells[j].blk.client])
  <2>1. \A j \in DOMAIN cells : cells[j] \in QueueCell
    BY TypedFacts
  <2> QED
    BY <2>1 DEF QueueCell, Block, Typed, Indices
<1>2. cur' \in Block /\ cur'.client \in Clients /\ cur'.multi \in 0..Len(blocks[cur'.client])
  <2>1. cur \in Block /\ cur.client \in Clients /\ cur.multi \in 0..Len(blocks[cur.client])
    BY TypedFacts DEF Typed, Indices
  <2>2. Idle \in Block /\ Idle.client \in Clients /\ Idle.multi \in 0..Len(blocks[Idle.client])
    BY <1>0, IdleIsBlock DEF Block
  <2> QED
    BY <1>1, <2>1, <2>2
<1>3. TypeOK'
  <2>1. mainpc' \in {"serve", "signal", "join", "destroy", "done", "aborted"} /\ kill' \in BOOLEAN
        /\ script' \in [Clients -> Seq(Commands)]
    BY <1>0
  <2> QED
    BY <1>2, <2>1 DEF TypeOK, QueueCell, MultiBlock
<1>4. \A i \in DOMAIN cells' : /\ cells'[i].blk.client \in Clients
                               /\ cells'[i].blk.multi \in 0..Len(blocks[cells'[i].blk.client])
  <2>1. \A i \in DOMAIN cells' : cells'[i] \in QueueCell
    OBVIOUS
  <2>2. \A i \in DOMAIN cells' : cells'[i].blk.client \in Clients
    BY <2>1 DEF QueueCell, Block
  <2> QED
    BY <1>1, <2>2
<1>5. \A c \in Clients : \A k \in 0..Len(blocks[c]) : k \in 0..Len(blocks'[c])
  BY <1>0
<1>6. ASSUME NEW c \in Clients
      PROVE  wb'[c] \in 0..Len(blocks'[c]) /\ ref'[c] \in 0..Len(blocks'[c])
  <2>1. /\ Len(blocks[c]) \in Nat /\ Len(blocks'[c]) \in Nat /\ wb'[c] \in Nat /\ ref'[c] \in Nat
        /\ ref[c] \in Nat /\ ref[c] <= Len(blocks[c]) /\ Len(blocks'[c]) >= Len(blocks[c])
        /\ wb'[c] <= Len(blocks'[c]) /\ ref'[c] <= ref[c]
    BY <1>0
  <2> QED
    BY <2>1
<1> QED
  BY <1>2, <1>3, <1>4, <1>5, <1>6 DEF Typed, Indices

\* An I/O thread that is about to append has seen a waiting block.
Appending == \A c \in Clients : iopc[c] = "append" => ref[c] # 0

LEMMA AppendingStep == Typed /\ Appending /\ [Next]_vars => Appending'
<1> SUFFICES ASSUME Typed, Appending, [Next]_vars PROVE Appending'
  OBVIOUS
<1>0. /\ iopc \in [Clients -> {"idle", "route", "push", "publish", "signal", "append", "tail"}]
      /\ ref \in [Clients -> Nat]
  BY TypedFacts
<1>1. ASSUME NEW c \in Clients, Route(c) PROVE Appending'
  BY <1>0, <1>1 DEF Appending, Route, IOGoto
<1>2. ASSUME NEW c \in Clients,
             \/ \E op \in Commands : ReadCommand(c, op)
             \/ Reserve(c) \/ Publish(c) \/ Signal(c) \/ AppendToBlock(c) \/ Tail_(c)
      PROVE  Appending'
  <2>1. \A d \in Clients : d # c => iopc'[d] = iopc[d] /\ ref'[d] = ref[d]
    BY <1>0, <1>2 DEF ReadCommand, Reserve, Publish, Signal, AppendToBlock, Tail_, IOGoto
  <2>2. iopc'[c] # "append"
    BY <1>0, <1>2 DEF ReadCommand, Reserve, Publish, Signal, AppendToBlock, Tail_, IOGoto
  <2> QED
    BY <2>1, <2>2 DEF Appending
<1>3. CASE UNCHANGED <<iopc, ref>>
  BY <1>3 DEF Appending
<1> QED
  BY <1>1, <1>2, <1>3
  DEF Next, IOStep, TxStep, MainStep, SignalFails, KillSignalFails, TxLoop, TxConsume, TxDrain, TxPop, TxSkip, RunOp, RunMulti,
      RunExec, RunDiscard, RunBlock, Finish, KillStore, Abort, KillSignal, DestroyIO, FreeBlocks, vars

-----------------------------------------------------------------------------
(***************************************************************************)
(* What the steps do to the blocks of MULTI.                               *)
(***************************************************************************)

\* MULTI opens a new, empty block behind those the client had before.
LEMMA MultiOpens ==
    ASSUME Typed, RunMulti, wb[cur.client] = 0
    PROVE  /\ blocks' \in [Clients -> Seq(MultiBlock)]
           /\ \A d \in Clients : d # cur.client => blocks'[d] = blocks[d]
           /\ Len(blocks'[cur.client]) = Len(blocks[cur.client]) + 1
           /\ blocks'[cur.client][Len(blocks[cur.client]) + 1] = [st |-> "waiting", cmds |-> <<>>]
           /\ \A j \in 1..Len(blocks[cur.client]) :
                 blocks'[cur.client][j] = blocks[cur.client][j]
           /\ wb' = [wb EXCEPT ![cur.client] = Len(blocks[cur.client]) + 1]
<1> DEFINE x == [st |-> "waiting", cmds |-> <<>>]
           row == Append(blocks[cur.client], x)
<1>1. cur.client \in Clients /\ blocks \in [Clients -> Seq(MultiBlock)]
  BY TypedFacts
<1>2. x \in MultiBlock /\ blocks[cur.client] \in Seq(MultiBlock)
  BY <1>1 DEF MultiBlock
<1> HIDE DEF x
<1>3. /\ row \in Seq(MultiBlock) /\ Len(row) = Len(blocks[cur.client]) + 1
      /\ row[Len(blocks[cur.client]) + 1] = x
      /\ \A j \in 1..Len(blocks[cur.client]) : row[j] = blocks[cur.client][j]
  BY <1>2, AppendProperties
<1>4. blocks' = [blocks EXCEPT ![cur.client] = row]
      /\ wb' = [wb EXCEPT ![cur.client] = Len(blocks'[cur.client])]
  BY DEF RunMulti, x
<1> HIDE DEF row
<1>5. blocks'[cur.client] = row
  BY <1>1, <1>4
<1> QED
  BY <1>1, <1>3, <1>4, <1>5 DEF x

\* EXEC hands the open block to the queue, DISCARD frees it.
LEMMA OpenBlockLeaves ==
    ASSUME Typed, wb[cur.client] # 0,
           (RunExec /\ Len(cells) # QueueSize) \/ RunDiscard
    PROVE  /\ blocks' \in [Clients -> Seq(MultiBlock)]
           /\ \A d \in Clients : d # cur.client => blocks'[d] = blocks[d]
           /\ Len(blocks'[cur.client]) = Len(blocks[cur.client])
           /\ wb[cur.client] \in 1..Len(blocks[cur.client])
           /\ blocks'[cur.client][wb[cur.client]]
                = [st   |-> IF RunDiscard THEN "freed" ELSE "queued",
                   cmds |-> blocks[cur.client][wb[cur.client]].cmds]
           /\ \A j \in 1..Len(blocks[cur.client]) :
                 j # wb[cur.client] => blocks'[cur.client][j] = blocks[cur.client][j]
           /\ wb' = [wb EXCEPT ![cur.client] = 0]
<1>1. cur.client \in Clients /\ blocks \in [Clients -> Seq(MultiBlock)]
      /\ Len(blocks[cur.client]) \in Nat /\ wb[cur.client] \in 0..Len(blocks[cur.client])
  BY TypedFacts DEF Typed, Indices
<1>2. wb[cur.client] \in 1..Len(blocks[cur.client])
  BY <1>1
<1>3. ASSUME RunDiscard
      PROVE  /\ blocks' = WithState(cur.client, wb[cur.client], "freed")
             /\ wb' = [wb EXCEPT ![cur.client] = 0]
  BY <1>3 DEF RunDiscard, WithState
<1>4. ASSUME RunExec, Len(cells) # QueueSize
      PROVE  /\ blocks' = WithState(cur.client, wb[cur.client], "queued")
             /\ wb' = [wb EXCEPT ![cur.client] = 0]
  BY <1>4 DEF RunExec, WithState
<1>5. CASE RunDiscard
  BY <1>1, <1>2, <1>3, <1>5, StateSet
<1>6. CASE ~RunDiscard
  BY <1>1, <1>2, <1>4, <1>6, StateSet, ZenonT(30)
<1> QED
  BY <1>5, <1>6

\* A block that was executed is freed.
LEMMA RunBlockFrees ==
    ASSUME Typed, RunBlock
    PROVE  /\ blocks' \in [Clients -> Seq(MultiBlock)]
           /\ \A d \in Clients : d # cur.client => blocks'[d] = blocks[d]
           /\ Len(blocks'[cur.client]) = Len(blocks[cur.client])
           /\ cur.multi \in 1..Len(blocks[cur.client])
           /\ blocks'[cur.client][cur.multi]
                = [st |-> "freed", cmds |-> blocks[cur.client][cur.multi].cmds]
           /\ \A j \in 1..Len(blocks[cur.client]) :
                 j # cur.multi => blocks'[cur.client][j] = blocks[cur.client][j]
<1>1. cur.client \in Clients /\ blocks \in [Clients -> Seq(MultiBlock)]
      /\ Len(blocks[cur.client]) \in Nat /\ cur.multi \in 0..Len(blocks[cur.client])
  BY TypedFacts DEF Typed, Indices
<1>2. cur.multi \in 1..Len(blocks[cur.client])
  <2>1. cur.multi # 0
    BY DEF RunBlock
  <2> QED
    BY <1>1, <2>1
<1>3. blocks' = WithState(cur.client, cur.multi, "freed")
  BY DEF RunBlock, WithState
<1> QED
  BY <1>1, <1>2, <1>3, StateSet

\* A command joins the block its I/O thread has seen, unless that was freed.
LEMMA AppendAdds ==
    ASSUME Typed, Appending, NEW c \in Clients, AppendToBlock(c)
    PROVE  /\ blocks' \in [Clients -> Seq(MultiBlock)]
           /\ \A d \in Clients : d # c => blocks'[d] = blocks[d]
           /\ Len(blocks'[c]) = Len(blocks[c])
           /\ ref[c] \in 1..Len(blocks[c])
           /\ blocks'[c][ref[c]].st = blocks[c][ref[c]].st
           /\ blocks'[c][ref[c]].cmds
                = IF blocks[c][ref[c]].st = "freed" THEN blocks[c][ref[c]].cmds
                  ELSE Append(blocks[c][ref[c]].cmds, Number(c))
           /\ \A j \in 1..Len(blocks[c]) : j # ref[c] => blocks'[c][j] = blocks[c][j]
<1>1. blocks \in [Clients -> Seq(MultiBlock)] /\ Number(c) \in Nat
      /\ Len(blocks[c]) \in Nat /\ ref[c] \in 0..Len(blocks[c])
  BY TypedFacts DEF Typed, Indices
<1>2. ref[c] \in 1..Len(blocks[c])
  <2>1. ref[c] # 0
    BY DEF AppendToBlock, Appending
  <2> QED
    BY <1>1, <2>1
<1>3. blocks' = IF blocks[c][ref[c]].st = "freed" THEN blocks
                ELSE WithCommand(c, ref[c], Number(c))
  BY Zenon DEF AppendToBlock, WithCommand
<1>4. CASE blocks[c][ref[c]].st = "freed"
  BY <1>1, <1>2, <1>3, <1>4
<1>5. CASE blocks[c][ref[c]].st # "freed"
  <2>1. blocks' = WithCommand(c, ref[c], Number(c))
    BY <1>3, <1>5
  <2>2. /\ blocks' \in [Clients -> Seq(MultiBlock)]
        /\ \A d \in Clients : d # c => blocks'[d] = blocks[d]
        /\ Len(blocks'[c]) = Len(blocks[c])
        /\ blocks'[c][ref[c]] = [st   |-> blocks[c][ref[c]].st,
                                 cmds |-> Append(blocks[c][ref[c]].cmds, Number(c))]
        /\ \A j \in 1..Len(blocks[c]) : j # ref[c] => blocks'[c][j] = blocks[c][j]
    BY <1>1, <1>2, <2>1, CommandAdded
  <2>3. /\ blocks'[c][ref[c]].st = blocks[c][ref[c]].st
        /\ blocks'[c][ref[c]].cmds = Append(blocks[c][ref[c]].cmds, Number(c))
    <3> DEFINE y == Append(blocks[c][ref[c]].cmds, Number(c))
               z == blocks[c][ref[c]].st
    <3>1. blocks'[c][ref[c]] = [st |-> z, cmds |-> y]
      BY <2>2
    <3> HIDE DEF y, z
    <3>2. blocks'[c][ref[c]].st = z /\ blocks'[c][ref[c]].cmds = y
      BY <3>1
    <3> QED
      BY <3>2 DEF y, z
  <2> QED
    BY <1>2, <1>5, <2>2, <2>3, Zenon
<1> QED
  BY <1>4, <1>5

\* What TxPop takes is the oldest block.
LEMMA PopTakes ==
    ASSUME Typed, TxPop
    PROVE  /\ cells' \in Seq(QueueCell) /\ Len(cells') = Len(cells) - 1
           /\ \A i \in 1..(Len(cells) - 1) : cells'[i] = cells[i + 1]
           /\ 1 \in DOMAIN cells /\ cur' = cells[1].blk /\ cells[1].ready
<1>1. cells \in Seq(QueueCell) /\ cells # <<>> /\ cells' = Tail(cells)
      /\ cur' = Head(cells).blk /\ Head(cells).ready
  BY TypedFacts DEF TxPop, HeadReady
<1>2. Len(cells) \in Nat /\ Len(cells) # 0 /\ Head(cells) = cells[1]
  BY <1>1, LenProperties, EmptySeq
<1>3. /\ cells' \in Seq(QueueCell) /\ Len(cells') = Len(cells) - 1
      /\ \A i \in 1..Len(cells') : cells'[i] = cells[i + 1]
  BY <1>1, HeadTailProperties
<1> QED
  BY <1>1, <1>2, <1>3

\* What a push reserves goes behind everything else.
LEMMA QueuePushed ==
    ASSUME Typed, NEW x \in QueueCell, cells' = Append(cells, x)
    PROVE  /\ cells' \in Seq(QueueCell) /\ Len(cells') = Len(cells) + 1
           /\ \A i \in 1..Len(cells) : cells'[i] = cells[i]
           /\ cells'[Len(cells) + 1] = x
BY TypedFacts, AppendProperties

\* The publication of a place changes nothing but its `ready`.
LEMMA QueuePublished ==
    ASSUME Typed, NEW c \in Clients, Publish(c)
    PROVE  /\ cells' \in Seq(QueueCell) /\ Len(cells') = Len(cells)
           /\ \A i \in 1..Len(cells) :
                 /\ cells'[i].blk = cells[i].blk
                 /\ cells'[i].ready = (\/ cells[i].ready
                                       \/ cells[i].blk.client = c /\ cells[i].blk.n = Number(c))
<1> DEFINE mine(i) == cells[i].blk.client = c /\ cells[i].blk.n = Number(c)
<1>1. cells \in Seq(QueueCell) /\ Len(cells) \in Nat /\ DOMAIN cells = 1..Len(cells)
      /\ \A i \in 1..Len(cells) : cells[i] \in QueueCell
  BY TypedFacts
<1>2. cells' = [i \in 1..Len(cells) |->
                  IF mine(i) THEN [cells[i] EXCEPT !.ready = TRUE] ELSE cells[i]]
  BY <1>1 DEF Publish
<1>3. \A i \in 1..Len(cells) :
         [cells[i] EXCEPT !.ready = TRUE].blk = cells[i].blk
         /\ [cells[i] EXCEPT !.ready = TRUE].ready = TRUE
         /\ [cells[i] EXCEPT !.ready = TRUE] \in QueueCell
  <2>1. ASSUME NEW r \in QueueCell
        PROVE  [r EXCEPT !.ready = TRUE].blk = r.blk /\ [r EXCEPT !.ready = TRUE].ready = TRUE
               /\ [r EXCEPT !.ready = TRUE] \in QueueCell
    BY DEF QueueCell
  <2> QED
    BY <1>1, <2>1, Zenon
<1>4. \A i \in 1..Len(cells) : cells'[i] = IF mine(i) THEN [cells[i] EXCEPT !.ready = TRUE]
                                           ELSE cells[i]
  BY <1>2, Zenon
<1>5. \A i \in 1..Len(cells) : cells'[i] \in QueueCell
  BY <1>1, <1>3, <1>4, Zenon
<1>6. cells' \in [1..Len(cells) -> QueueCell]
  <2>1. DOMAIN cells' = 1..Len(cells) /\ cells' = [i \in 1..Len(cells) |-> cells'[i]]
    BY <1>2, Zenon
  <2> QED
    BY <1>5, <2>1, Zenon
<1>7. cells' \in Seq(QueueCell) /\ Len(cells') = Len(cells)
  BY <1>1, <1>6
<1>8. \A i \in 1..Len(cells) : cells[i].ready \in BOOLEAN
  BY <1>1 DEF QueueCell
<1>9. \A i \in 1..Len(cells) : cells'[i].blk = cells[i].blk
  BY <1>3, <1>4, Zenon
<1>10. ASSUME NEW i \in 1..Len(cells) PROVE cells'[i].ready = (cells[i].ready \/ mine(i))
  <2>1. CASE mine(i)
    <3>1. cells'[i].ready = TRUE
      BY <1>3, <1>4, <2>1, Zenon
    <3> QED
      BY <2>1, <3>1
  <2>2. CASE ~mine(i)
    <3>1. cells'[i].ready = cells[i].ready
      BY <1>4, <2>2, Zenon
    <3> QED
      BY <1>8, <2>2, <3>1
  <2> QED
    BY <2>1, <2>2
<1> QED
  BY <1>7, <1>9, <1>10

\* What execute_transaction_block appends to the history.
Executed(c, k) == [i \in DOMAIN blocks[c][k].cmds |-> <<c, blocks[c][k].cmds[i]>>]

LEMMA ExecutedTyped ==
    ASSUME Typed, NEW c \in Clients, NEW k \in 1..Len(blocks[c])
    PROVE  /\ Executed(c, k) \in Seq(Clients \X Nat)
           /\ Len(Executed(c, k)) = Len(blocks[c][k].cmds)
           /\ Len(blocks[c][k].cmds) \in Nat /\ blocks[c][k].cmds \in Seq(Nat)
           /\ \A i \in 1..Len(blocks[c][k].cmds) :
                 Executed(c, k)[i] = <<c, blocks[c][k].cmds[i]>>
<1> DEFINE q == blocks[c][k].cmds
<1>1. blocks[c] \in Seq(MultiBlock)
  BY TypedFacts
<1>2. blocks[c][k] \in MultiBlock
  BY <1>1, ElementOfSeq
<1>3. q \in Seq(Nat) /\ Len(q) \in Nat /\ DOMAIN q = 1..Len(q)
  BY <1>2, RecordUpdates
<1>4. Executed(c, k) = [i \in 1..Len(q) |-> <<c, q[i]>>]
  BY <1>3 DEF Executed
<1> HIDE DEF q
<1>5. \A i \in 1..Len(q) : q[i] \in Nat
  BY <1>3
<1>6. Executed(c, k) \in [1..Len(q) -> Clients \X Nat]
  BY <1>4, <1>5
<1>7. Executed(c, k) \in Seq(Clients \X Nat)
  BY <1>3, <1>6, SeqDef, SMTT(30)
<1>8. Len(Executed(c, k)) = Len(q)
  <2>1. DOMAIN Executed(c, k) = 1..Len(Executed(c, k)) /\ Len(Executed(c, k)) \in Nat
    BY <1>7, LenProperties
  <2>2. DOMAIN Executed(c, k) = 1..Len(q)
    BY <1>4
  <2>3. \A n, m \in Nat : 1..n = 1..m => n = m
    OBVIOUS
  <2> HIDE DEF q
  <2> QED
    BY <1>3, <2>1, <2>2, <2>3, Zenon
<1> QED
  BY <1>3, <1>4, <1>7, <1>8 DEF q

\* The steps of the I/O threads that change the queue or a block.
LEMMA IOTyped ==
    ASSUME Typed, Appending, NEW c \in Clients, Reserve(c) \/ Publish(c) \/ AppendToBlock(c)
    PROVE  Typed'
<1>0. /\ Len(cells) \in Nat /\ QueueSize \in Nat /\ Len(cells) <= QueueSize
      /\ cells \in Seq(QueueCell) /\ blocks \in [Clients -> Seq(MultiBlock)]
      /\ notifier \in Nat /\ count \in Nat
      /\ iopc \in [Clients -> {"idle", "route", "push", "publish", "signal", "append", "tail"}]
      /\ acks \in [Clients -> Nat] /\ wb \in [Clients -> Nat] /\ ref \in [Clients -> Nat]
      /\ txpc \in {"loop", "wait", "drain", "spin", "try", "run", "dead"}
      /\ DOMAIN cells = 1..Len(cells)
      /\ log \in Seq(Clients \X Nat) /\ \A d \in Clients : Number(d) \in Nat /\ Len(blocks[d]) \in Nat
  BY TypedFacts
<1>1. \A d \in Clients : wb[d] <= Len(blocks[d]) /\ ref[d] <= Len(blocks[d])
  BY <1>0 DEF Typed, Indices
<1>2. UNCHANGED <<notifier, hist, wb, txvars, kill, mainpc>>
  BY DEF Reserve, Publish, AppendToBlock
<1>3. iopc' \in [Clients -> {"idle", "route", "push", "publish", "signal", "append", "tail"}]
  BY <1>0 DEF Reserve, Publish, AppendToBlock, IOGoto
<1>4. CASE Reserve(c)
  <2> DEFINE b == [client |-> c, multi |-> 0, n |-> Number(c)]
             x == [blk |-> b, ready |-> FALSE]
  <2>1. b \in Block /\ b.multi = 0 /\ b.client = c
    BY <1>0 DEF Block
  <2>2. x \in QueueCell /\ x.blk = b
    BY <2>1 DEF QueueCell
  <2>3. cells' = Append(cells, x) /\ Len(cells) < QueueSize /\ UNCHANGED <<ref, blocks>>
    BY <1>4 DEF Reserve
  <2> HIDE DEF b, x
  <2>4. /\ cells' \in Seq(QueueCell) /\ Len(cells') = Len(cells) + 1
        /\ \A i \in 1..Len(cells) : cells'[i] = cells[i]
        /\ cells'[Len(cells) + 1] = x
    BY <2>2, <2>3, QueuePushed
  <2>6. DOMAIN cells' = 1..(Len(cells) + 1)
    BY <2>4
  <2>5. \A i \in DOMAIN cells' : \/ \E j \in DOMAIN cells : cells'[i].blk = cells[j].blk
                                 \/ cells'[i].blk.multi \in 0..Len(blocks[cells'[i].blk.client])
    <3>1. ASSUME NEW i \in DOMAIN cells'
          PROVE  i \in DOMAIN cells \/ i = Len(cells) + 1
      BY <1>0, <2>6
    <3>2. 0 \in 0..Len(blocks[c])
      BY <1>0
    <3>3. \A i \in DOMAIN cells : cells'[i].blk = cells[i].blk
      BY <1>0, <2>4
    <3>4. cells'[Len(cells) + 1].blk.multi \in 0..Len(blocks[cells'[Len(cells) + 1].blk.client])
      BY <2>1, <2>2, <2>4, <3>2
    <3> QED
      BY <3>1, <3>3, <3>4
  <2> QED
    <3>1. /\ Len(cells') <= QueueSize /\ blocks' \in [Clients -> Seq(MultiBlock)]
          /\ \A d \in Clients : Len(blocks'[d]) >= Len(blocks[d])
          /\ wb' \in [Clients -> Nat] /\ ref' \in [Clients -> Nat]
          /\ \A d \in Clients : wb'[d] <= Len(blocks'[d]) /\ ref'[d] <= ref[d]
      BY <1>0, <1>1, <1>2, <2>3, <2>4
    <3> QED
      BY <1>0, <1>2, <1>3, <2>4, <2>5, <3>1, TypeChange DEF hist, txvars
<1>5. CASE Publish(c)
  <2>1. /\ cells' \in Seq(QueueCell) /\ Len(cells') = Len(cells)
        /\ \A i \in 1..Len(cells) : cells'[i].blk = cells[i].blk
    BY <1>5, QueuePublished
  <2>2. \A i \in DOMAIN cells' : \E j \in DOMAIN cells : cells'[i].blk = cells[j].blk
    <3>1. DOMAIN cells' = 1..Len(cells)
      BY <2>1
    <3> QED
      BY <1>0, <2>1, <3>1
  <2>3. UNCHANGED <<ref, blocks>>
    BY <1>5 DEF Publish
  <2> QED
    BY <1>0, <1>1, <1>2, <1>3, <2>1, <2>2, <2>3, TypeChange DEF hist, txvars
<1>6. CASE AppendToBlock(c)
  <2>1. /\ blocks' \in [Clients -> Seq(MultiBlock)]
        /\ \A d \in Clients : Len(blocks'[d]) = Len(blocks[d])
    BY <1>6, AppendAdds
  <2>2. /\ cells' = cells /\ ref' = [ref EXCEPT ![c] = 0]
    BY <1>6 DEF AppendToBlock
  <2>3. ref' \in [Clients -> Nat] /\ \A d \in Clients : ref'[d] <= ref[d]
    BY <1>0, <2>2
  <2> QED
    BY <1>0, <1>1, <1>2, <1>3, <2>1, <2>2, <2>3, TypeChange DEF hist, txvars
<1> QED
  BY <1>4, <1>5, <1>6

\* The steps of the other threads that change the queue or a block.
LEMMA TxTyped ==
    ASSUME Typed, Phases,
           \/ TxPop \/ FreeBlocks \/ RunBlock
           \/ wb[cur.client] = 0 /\ RunMulti
           \/ wb[cur.client] # 0 /\ ((RunExec /\ Len(cells) # QueueSize) \/ RunDiscard)
    PROVE  Typed'
<1>0. /\ Len(cells) \in Nat /\ QueueSize \in Nat /\ Len(cells) <= QueueSize
      /\ cells \in Seq(QueueCell) /\ blocks \in [Clients -> Seq(MultiBlock)]
      /\ notifier \in Nat /\ count \in Nat /\ DOMAIN cells = 1..Len(cells)
      /\ iopc \in [Clients -> {"idle", "route", "push", "publish", "signal", "append", "tail"}]
      /\ acks \in [Clients -> Nat] /\ wb \in [Clients -> Nat] /\ ref \in [Clients -> Nat]
      /\ txpc \in {"loop", "wait", "drain", "spin", "try", "run", "dead"}
      /\ cur.client \in Clients
      /\ log \in Seq(Clients \X Nat) /\ \A d \in Clients : Len(blocks[d]) \in Nat
  BY TypedFacts
<1>8. Len(cells) \in Nat /\ QueueSize \in Nat /\ Len(cells) <= QueueSize
      /\ notifier \in Nat /\ count \in Nat
  BY <1>0
<1>10. DOMAIN cells = 1..Len(cells)
  BY <1>0
<1>9. wb \in [Clients -> Nat] /\ cur.client \in Clients /\ \A d \in Clients : Len(blocks[d]) \in Nat
  BY <1>0
<1>1. \A d \in Clients : wb[d] <= Len(blocks[d]) /\ ref[d] <= ref[d]
  <2>1. \A d \in Clients : wb[d] \in 0..Len(blocks[d]) /\ ref[d] \in Nat
    BY <1>0 DEF Typed, Indices
  <2> QED
    BY <1>9, <2>1
<1>2. CASE TxPop
  <2>1. /\ cells' \in Seq(QueueCell) /\ Len(cells') = Len(cells) - 1
        /\ \A i \in 1..(Len(cells) - 1) : cells'[i] = cells[i + 1]
        /\ 1 \in DOMAIN cells /\ cur' = cells[1].blk
    BY <1>2, PopTakes
  <2>2. UNCHANGED <<notifier, iopc, hist, wb, ref, blocks, count, kill, mainpc>> /\ txpc' = "run"
    BY <1>2 DEF TxPop, TxGoto
  <2>3. \A i \in DOMAIN cells' : \E j \in DOMAIN cells : cells'[i].blk = cells[j].blk
    <3>1. DOMAIN cells' = 1..(Len(cells) - 1)
      BY <2>1
    <3>2. \A i \in 1..(Len(cells) - 1) : i + 1 \in 1..Len(cells)
      BY <1>8
    <3> QED
      BY <1>10, <2>1, <3>1, <3>2
  <2>4. Len(cells') <= QueueSize /\ \A d \in Clients : Len(blocks[d]) >= Len(blocks[d])
    BY <1>8, <1>9, <2>1
  <2> QED
    BY <1>0, <1>1, <2>1, <2>2, <2>3, <2>4, TypeChange DEF hist
<1>3. CASE FreeBlocks
  <2>1. cells' = <<>> /\ mainpc' = "done"
        /\ UNCHANGED <<notifier, iopc, hist, wb, ref, blocks, txvars, kill>>
    BY <1>3 DEF FreeBlocks
  <2>2. cells' \in Seq(QueueCell) /\ Len(cells') = 0 /\ DOMAIN cells' = {}
    BY <2>1
  <2>3. Len(cells') <= QueueSize /\ \A d \in Clients : Len(blocks[d]) >= Len(blocks[d])
    BY <1>8, <1>9, <2>2
  <2> QED
    BY <1>0, <1>1, <2>1, <2>2, <2>3, TypeChange DEF hist, txvars
<1>4. ASSUME RunMulti \/ RunExec \/ RunDiscard \/ RunBlock
      PROVE  /\ count' \in Nat /\ cur' = Idle /\ txpc' = "drain"
             /\ UNCHANGED <<iopc, script, ref, kill, mainpc>> /\ acks' \in [Clients -> Nat]
  <2>1. /\ count' = count - 1 /\ cur' = Idle /\ txpc' = "drain" /\ txpc = "run"
        /\ UNCHANGED <<iopc, script, ref, kill, mainpc>>
    BY <1>4 DEF RunMulti, RunExec, RunDiscard, RunBlock, Running, Finish, TxGoto
  <2>2. acks' = acks \/ acks' = [acks EXCEPT ![cur.client] = @ + 1]
    BY <1>4 DEF RunMulti, RunExec, RunDiscard, RunBlock, Answer
  <2>3. count' \in Nat
    BY <1>8, <2>1 DEF Phases
  <2>4. acks' \in [Clients -> Nat]
    <3>1. acks \in [Clients -> Nat] /\ cur.client \in Clients
      BY <1>0
    <3>2. CASE acks' = [acks EXCEPT ![cur.client] = @ + 1]
      BY <3>1, <3>2
    <3> QED
      BY <2>2, <3>1, <3>2
  <2> QED
    BY <2>1, <2>3, <2>4
<1>5. CASE wb[cur.client] = 0 /\ RunMulti
  <2>1. /\ blocks' \in [Clients -> Seq(MultiBlock)]
        /\ \A d \in Clients : d # cur.client => blocks'[d] = blocks[d]
        /\ Len(blocks'[cur.client]) = Len(blocks[cur.client]) + 1
        /\ wb' = [wb EXCEPT ![cur.client] = Len(blocks[cur.client]) + 1]
    BY <1>5, MultiOpens
  <2>2. /\ \A d \in Clients : Len(blocks'[d]) >= Len(blocks[d]) /\ wb'[d] <= Len(blocks'[d])
        /\ wb' \in [Clients -> Nat]
    BY <1>9, <1>1, <2>1
  <2>3. UNCHANGED <<cells, notifier, log>>
    BY <1>5 DEF RunMulti
  <2> QED
    BY <1>0, <1>1, <1>4, <1>5, <2>1, <2>2, <2>3, TypeChange
<1>6. CASE wb[cur.client] # 0 /\ ((RunExec /\ Len(cells) # QueueSize) \/ RunDiscard)
  <2>1. /\ blocks' \in [Clients -> Seq(MultiBlock)]
        /\ \A d \in Clients : Len(blocks'[d]) = Len(blocks[d])
        /\ wb' = [wb EXCEPT ![cur.client] = 0]
    BY <1>6, OpenBlockLeaves
  <2>2. /\ \A d \in Clients : Len(blocks'[d]) >= Len(blocks[d]) /\ wb'[d] <= Len(blocks'[d])
        /\ wb' \in [Clients -> Nat]
    BY <1>9, <1>1, <2>1
  <2>3. CASE RunDiscard
    <3>1. UNCHANGED <<cells, notifier, log>>
      BY <2>3 DEF RunDiscard
    <3> QED
      BY <1>0, <1>1, <1>4, <2>1, <2>2, <2>3, <3>1, TypeChange
  <2>4. CASE RunExec /\ Len(cells) # QueueSize
    <3> DEFINE b == [client |-> cur.client, multi |-> wb[cur.client], n |-> 0]
               x == [blk |-> b, ready |-> TRUE]
    <3>1. cells' = Append(cells, x) /\ notifier' = notifier + 1 /\ log' = log
      BY <1>6, <2>4 DEF RunExec
    <3>2. b \in Block /\ b.client = cur.client /\ b.multi = wb[cur.client]
      BY <1>0 DEF Block
    <3>3. x \in QueueCell /\ x.blk = b
      BY <3>2 DEF QueueCell
    <3> HIDE DEF b, x
    <3>4. /\ cells' \in Seq(QueueCell) /\ Len(cells') = Len(cells) + 1
          /\ \A i \in 1..Len(cells) : cells'[i] = cells[i]
          /\ cells'[Len(cells) + 1] = x
      BY <3>1, <3>3, QueuePushed
    <3>5. DOMAIN cells' = 1..(Len(cells) + 1) /\ Len(cells') <= QueueSize
      BY <1>8, <2>4, <3>4
    <3>6. \A i \in DOMAIN cells' : \/ \E j \in DOMAIN cells : cells'[i].blk = cells[j].blk
                                   \/ cells'[i].blk.multi \in 0..Len(blocks[cells'[i].blk.client])
      <4>1. \A i \in DOMAIN cells' : i \in DOMAIN cells \/ i = Len(cells) + 1
        <5>1. PICK n : n = Len(cells)
          OBVIOUS
        <5>2. n \in Nat /\ DOMAIN cells = 1..n /\ DOMAIN cells' = 1..(n + 1)
          BY <1>8, <1>10, <3>5, <5>1
        <5>3. \A i \in 1..(n + 1) : i \in 1..n \/ i = n + 1
          BY ONLY <5>2
        <5> QED
          BY <5>1, <5>2, <5>3
      <4>2. \A i \in DOMAIN cells : cells'[i].blk = cells[i].blk
        BY <1>10, <3>4
      <4>3. wb[cur.client] \in 0..Len(blocks[cur.client])
        BY <1>9, <1>1
      <4>4. cells'[Len(cells) + 1].blk.multi \in 0..Len(blocks[cells'[Len(cells) + 1].blk.client])
        BY <3>2, <3>3, <3>4, <4>3
      <4> QED
        BY <4>1, <4>2, <4>4
    <3>7. notifier' \in Nat
      BY <1>8, <3>1
    <3> QED
      BY <1>0, <1>1, <1>4, <2>1, <2>2, <2>4, <3>1, <3>4, <3>5, <3>6, <3>7, TypeChange
  <2> QED
    BY <1>6, <2>3, <2>4
<1>7. CASE RunBlock
  <2>1. /\ blocks' \in [Clients -> Seq(MultiBlock)]
        /\ \A d \in Clients : Len(blocks'[d]) = Len(blocks[d])
        /\ cur.multi \in 1..Len(blocks[cur.client])
    BY <1>7, RunBlockFrees
  <2>2. log' = log \o Executed(cur.client, cur.multi)
    BY <1>7 DEF RunBlock, Executed
  <2>3. log' \in Seq(Clients \X Nat)
    BY <1>0, <2>1, <2>2, ExecutedTyped, ConcatProperties
  <2>4. UNCHANGED <<cells, notifier, wb>>
    BY <1>7 DEF RunBlock
  <2> QED
    <3>1. \A d \in Clients : Len(blocks'[d]) >= Len(blocks[d]) /\ wb[d] <= Len(blocks'[d])
      BY <1>9, <1>1, <2>1
    <3> QED
      BY <1>0, <1>1, <1>4, <1>7, <2>1, <2>3, <2>4, <3>1, TypeChange
<1> QED
  BY <1>2, <1>3, <1>5, <1>6, <1>7

LEMMA TypedStep == Typed /\ Phases /\ Appending /\ [Next]_vars => Typed'
<1> SUFFICES ASSUME Typed, Phases, Appending, [Next]_vars PROVE Typed'
  OBVIOUS
<1>1. ASSUME NEW c \in Clients, (\E op \in Commands : ReadCommand(c, op)) \/ IOStep(c)
      PROVE  Typed'
  BY <1>1, QuietTyped, IOTyped DEF IOStep, SignalFails
<1>2. CASE TxLoop \/ TxConsume \/ TxDrain \/ TxSkip \/ KillStore \/ Abort \/ KillSignal \/ DestroyIO
           \/ UNCHANGED vars
  BY <1>2, QuietTyped
<1>3. CASE TxPop \/ FreeBlocks \/ RunBlock
  BY <1>3, TxTyped
<1>4. CASE RunOp
  <2>1. UNCHANGED <<cells, blocks>>
    BY <1>4 DEF RunOp
  <2> QED
    BY <1>4, <2>1, QuietTyped
<1>5. CASE RunMulti \/ RunExec \/ RunDiscard
  <2>1. CASE RunMulti /\ wb[cur.client] # 0
    <3>1. UNCHANGED <<cells, blocks>>
      BY <2>1 DEF RunMulti
    <3> QED
      BY <2>1, <3>1, QuietTyped
  <2>2. CASE RunExec /\ (wb[cur.client] = 0 \/ Len(cells) = QueueSize)
    <3>1. UNCHANGED <<cells, blocks>>
      BY <2>2 DEF RunExec
    <3> QED
      BY <2>2, <3>1, QuietTyped
  <2>3. CASE RunDiscard /\ wb[cur.client] = 0
    <3>1. UNCHANGED <<cells, blocks>>
      BY <2>3 DEF RunDiscard
    <3> QED
      BY <2>3, <3>1, QuietTyped
  <2> QED
    BY <1>5, <2>1, <2>2, <2>3, TxTyped
<1> QED
  BY <1>1, <1>2, <1>3, <1>4, <1>5 DEF Next, TxStep, MainStep, KillSignalFails

\* The state that every step of the pipeline can rely on.
Basic == Typed /\ Phases /\ Appending

LEMMA BasicInvariant == Spec => []Basic
<1>1. Init => Basic
  <2> SUFFICES ASSUME Init PROVE Basic
    OBVIOUS
  <2>1. TypeOK
    <3>1. cells = <<>> /\ log = <<>> /\ cur \in Block
          /\ \A c \in Clients : script[c] = <<>> /\ blocks[c] = <<>>
      BY IdleIsBlock DEF Init
    <3>2. /\ script \in [Clients -> Seq(Commands)]
          /\ blocks \in [Clients -> Seq([st : {"waiting", "queued", "freed"}, cmds : Seq(Nat)])]
      BY DEF Init
    <3>3. cells \in Seq([blk : Block, ready : BOOLEAN]) /\ Len(cells) = 0
          /\ log \in Seq(Clients \X Nat)
      BY <3>1
    <3> QED
      <4>1. /\ notifier = 0 /\ count = 0 /\ txpc = "loop" /\ kill = FALSE /\ mainpc = "serve"
            /\ iopc = [c \in Clients |-> "idle"] /\ acks = [c \in Clients |-> 0]
            /\ wb = [c \in Clients |-> 0] /\ ref = [c \in Clients |-> 0]
        BY DEF Init
      <4>2. Len(cells) <= QueueSize
        BY <3>3, SizeAssumption
      <4> QED
        BY <3>1, <3>2, <3>3, <4>1, <4>2 DEF TypeOK
  <2>2. Indices
    <3>1. Idle.client \in Clients
      BY IdleIsBlock DEF Block
    <3> QED
      BY <3>1, IdleIsBlock DEF Init, Indices
  <2> QED
    BY <2>1, <2>2 DEF Init, Basic, Typed, Phases, Appending
<1>2. Basic /\ [Next]_vars => Basic'
  BY TypedStep, PhasesStep, AppendingStep DEF Basic, Typed
<1> QED
  BY <1>1, <1>2, PTL DEF Spec

\* The state of the pipeline keeps its types: no index leaves the blocks that MULTI
\* allocated, no counter falls below zero and tx_queue never holds more than
\* max_transaction_blocks.
THEOREM TypeCorrect == Spec => []TypeOK
<1>1. Basic => TypeOK
  BY DEF Basic, Typed
<1> QED
  BY <1>1, BasicInvariant, PTL

-----------------------------------------------------------------------------
(***************************************************************************)
(* One signal for each block.                                              *)
(***************************************************************************)
LEMMA PendingFinite == IsFiniteSet(Pending) /\ Cardinality(Pending) \in Nat
<1>1. Pending \subseteq Clients
  BY DEF Pending
<1>2. IsFiniteSet(Pending)
  BY <1>1, ClientsAssumption, FS_Subset
<1> QED
  BY <1>2, FS_CardinalityType

\* What a step of an I/O thread does to the signals that are still to be sent.
LEMMA PendingSteps ==
    ASSUME Basic, NEW c \in Clients, NEW l, iopc' = [iopc EXCEPT ![c] = l]
    PROVE  /\ c \in Pending <=> iopc[c] \in {"publish", "signal"}
           /\ c \notin Pending /\ l \in {"publish", "signal"}
                 => Cardinality(Pending') = Cardinality(Pending) + 1
           /\ c \in Pending /\ l \notin {"publish", "signal"}
                 => Cardinality(Pending') = Cardinality(Pending) - 1
           /\ (c \in Pending <=> l \in {"publish", "signal"}) => Pending' = Pending
<1>0. iopc \in [Clients -> {"idle", "route", "push", "publish", "signal", "append", "tail"}]
  BY TypedFacts DEF Basic
<1>1. iopc'[c] = l /\ \A d \in Clients : d # c => iopc'[d] = iopc[d]
  BY <1>0
<1>2. c \notin Pending /\ l \in {"publish", "signal"} => Pending' = Pending \cup {c}
  BY <1>1 DEF Pending
<1>3. c \in Pending /\ l \notin {"publish", "signal"} => Pending' = Pending \ {c}
  BY <1>1 DEF Pending
<1>4. (c \in Pending <=> l \in {"publish", "signal"}) => Pending' = Pending
  BY <1>1 DEF Pending
<1>5. c \in Pending <=> iopc[c] \in {"publish", "signal"}
  BY DEF Pending
<1> QED
  BY <1>2, <1>3, <1>4, <1>5, PendingFinite, FS_AddElement, FS_RemoveElement

LEMMA SignalsStep == Basic /\ SignalsMatchBlocks /\ [Next]_vars => SignalsMatchBlocks'
<1> SUFFICES ASSUME Basic, SignalsMatchBlocks, [Next]_vars, mainpc' = "serve"
             PROVE  Len(cells') + (IF txpc' = "run" THEN 1 ELSE 0)
                      = notifier' + count' + Cardinality(Pending')
  BY DEF SignalsMatchBlocks
<1> DEFINE r == IF txpc = "run" THEN 1 ELSE 0
           P == Cardinality(Pending)
           Balanced == Len(cells') + (IF txpc' = "run" THEN 1 ELSE 0)
                         = notifier' + count' + Cardinality(Pending')
<1>0. /\ Len(cells) \in Nat /\ notifier \in Nat /\ count \in Nat /\ P \in Nat
      /\ txpc \in {"loop", "wait", "drain", "spin", "try", "run", "dead"}
      /\ r \in {0, 1}
  BY TypedFacts, PendingFinite DEF Basic
<1>1. mainpc = "serve"
  BY DEF Next, IOStep, TxStep, MainStep, SignalFails, KillSignalFails, ReadCommand, Route, Reserve, Publish, Signal, AppendToBlock,
         Tail_, TxLoop, TxConsume, TxDrain, TxPop, TxSkip, RunOp, RunMulti, RunExec, RunDiscard,
         RunBlock, Finish, KillStore, Abort, KillSignal, DestroyIO, FreeBlocks, vars
<1>2. Len(cells) + r = notifier + count + P
  BY <1>1 DEF SignalsMatchBlocks
<1>3. txpc \notin {"try", "dead"} /\ (txpc \in {"spin", "run"} => count > 0)
      /\ (txpc \in {"loop", "wait"} => count = 0)
  BY <1>1 DEF Basic, Phases
<1>4. ASSUME NEW c \in Clients, Reserve(c)
      PROVE  Balanced
  <2>1. /\ UNCHANGED <<notifier, count, txpc>> /\ iopc[c] = "push"
        /\ iopc' = [iopc EXCEPT ![c] = "publish"]
    BY <1>4 DEF Reserve, IOGoto, txvars
  <2>2. Len(cells') = Len(cells) + 1
    BY <1>4, TypedFacts, AppendProperties DEF Reserve, Basic
  <2>3. Cardinality(Pending') = P + 1
    BY <2>1, PendingSteps
  <2> HIDE DEF P
  <2> QED
    BY <1>0, <1>2, <2>1, <2>2, <2>3
<1>5. ASSUME NEW c \in Clients, Publish(c)
      PROVE  Balanced
  <2>1. /\ UNCHANGED <<notifier, count, txpc>> /\ iopc[c] = "publish"
        /\ iopc' = [iopc EXCEPT ![c] = "signal"]
    BY <1>5 DEF Publish, IOGoto, txvars
  <2>2. Len(cells') = Len(cells)
    BY <1>5, QueuePublished DEF Basic
  <2>3. Cardinality(Pending') = P
    BY <2>1, PendingSteps
  <2> HIDE DEF P
  <2> QED
    BY <1>0, <1>2, <2>1, <2>2, <2>3
<1>6. ASSUME NEW c \in Clients, Signal(c)
      PROVE  Balanced
  <2>1. /\ UNCHANGED <<cells, count, txpc>> /\ iopc[c] = "signal" /\ notifier' = notifier + 1
        /\ iopc' = [iopc EXCEPT ![c] = "tail"]
    BY <1>3, <1>6 DEF Signal, IOGoto, txvars
  <2>2. Cardinality(Pending') = P - 1
    <3>1. c \in Pending /\ "tail" \notin {"publish", "signal"}
      BY <2>1 DEF Pending
    <3> QED
      BY <2>1, <3>1, PendingSteps
  <2> HIDE DEF P
  <2> QED
    BY <1>0, <1>2, <2>1, <2>2
<1>7. ASSUME NEW c \in Clients,
             (\E op \in Commands : ReadCommand(c, op)) \/ Route(c) \/ AppendToBlock(c) \/ Tail_(c)
      PROVE  Balanced
  <2>1. UNCHANGED <<cells, notifier, count, txpc>> /\ iopc[c] \in {"idle", "route", "append", "tail"}
    BY <1>7 DEF ReadCommand, Route, AppendToBlock, Tail_, txvars
  <2>2. \E l \in {"route", "push", "append", "tail", "idle"} : iopc' = [iopc EXCEPT ![c] = l]
    BY <1>7 DEF ReadCommand, Route, AppendToBlock, Tail_, IOGoto
  <2>3. Pending' = Pending
    <3>1. PICK l \in {"route", "push", "append", "tail", "idle"} : iopc' = [iopc EXCEPT ![c] = l]
      BY <2>2
    <3>2. c \notin Pending /\ l \notin {"publish", "signal"}
      BY <2>1 DEF Pending
    <3> QED
      BY <3>1, <3>2, PendingSteps
  <2> QED
    BY <1>0, <1>2, <2>1, <2>3
<1>8. ASSUME TxPop PROVE Balanced
  <2>1. Len(cells') = Len(cells) - 1
    BY <1>8, PopTakes DEF Basic
  <2>2. UNCHANGED <<notifier, count, iopc>> /\ txpc' = "run" /\ txpc # "run"
    BY <1>8 DEF TxPop, TxGoto
  <2>3. Pending' = Pending
    BY <2>2 DEF Pending
  <2> QED
    BY <1>0, <1>2, <2>1, <2>2, <2>3
<1>9. ASSUME TxLoop \/ TxConsume \/ TxDrain \/ UNCHANGED vars PROVE Balanced
  <2>1. Pending' = Pending /\ cells' = cells
    BY <1>9 DEF Pending, TxLoop, TxConsume, TxDrain, vars
  <2>2. txpc' = "run" <=> txpc = "run"
    BY <1>9 DEF TxLoop, TxConsume, TxDrain, TxGoto, vars
  <2>3. notifier' + count' = notifier + count
    BY <1>0, <1>3, <1>9 DEF TxLoop, TxConsume, TxDrain, vars
  <2>4. notifier' \in Nat /\ count' \in Nat
    BY <1>0, <1>9 DEF TxLoop, TxConsume, TxDrain, vars
  <2> QED
    BY <1>0, <1>2, <2>1, <2>2, <2>3, <2>4
<1>10. ASSUME \/ RunOp \/ RunMulti \/ RunDiscard \/ RunBlock
              \/ RunExec /\ (wb[cur.client] = 0 \/ Len(cells) = QueueSize)
       PROVE  Balanced
  <2>1. /\ UNCHANGED <<cells, notifier, iopc>> /\ count' = count - 1
        /\ txpc' = "drain" /\ txpc = "run"
    BY <1>10 DEF RunOp, RunMulti, RunDiscard, RunBlock, RunExec, Running, Finish, TxGoto
  <2>2. Pending' = Pending
    BY <2>1 DEF Pending
  <2> QED
    BY <1>0, <1>2, <2>1, <2>2
<1>11. ASSUME RunExec, wb[cur.client] # 0, Len(cells) # QueueSize PROVE Balanced
  <2>1. /\ notifier' = notifier + 1 /\ UNCHANGED iopc /\ count' = count - 1
        /\ txpc' = "drain" /\ txpc = "run"
        /\ cells' = Append(cells, [blk   |-> [client |-> cur.client, multi |-> wb[cur.client], n |-> 0],
                                   ready |-> TRUE])
    BY <1>11 DEF RunExec, Running, Finish, TxGoto
  <2>2. Pending' = Pending
    BY <2>1 DEF Pending
  <2>3. Len(cells') = Len(cells) + 1
    BY <2>1, TypedFacts, AppendProperties DEF Basic
  <2> QED
    BY <1>0, <1>2, <2>1, <2>2, <2>3
<1>12. ~TxSkip /\ ~KillStore /\ ~MainStep /\ ~Abort
  <2>1. ~TxSkip
    BY <1>3 DEF TxSkip
  <2>2. ~KillStore
    BY DEF KillStore
  <2>3. ~MainStep
    BY <1>1 DEF MainStep, Abort, KillSignalFails, KillSignal, DestroyIO, FreeBlocks
  <2>4. ~Abort
    BY <1>1, <1>3 DEF Abort
  <2> QED
    BY <2>1, <2>2, <2>3, <2>4
<1> HIDE DEF Balanced
<1>13. \/ \E c \in Clients : (\E op \in Commands : ReadCommand(c, op)) \/ IOStep(c)
       \/ TxStep \/ KillStore \/ MainStep \/ UNCHANGED vars
  BY DEF Next
<1>14. ASSUME TxStep PROVE Balanced
  BY <1>8, <1>9, <1>10, <1>11, <1>12, <1>14 DEF TxStep
<1>15. ASSUME \E c \in Clients : (\E op \in Commands : ReadCommand(c, op)) \/ IOStep(c)
       PROVE  Balanced
  BY <1>4, <1>5, <1>6, <1>7, <1>12, <1>15 DEF IOStep, SignalFails
<1> QED
  BY <1>9, <1>12, <1>13, <1>14, <1>15 DEF Balanced

\* While the server serves, every block in tx_queue or in execution is owed exactly
\* one signal, for any number of clients: signal_notifier after push_tqueue and the
\* counter that transaction_thread consumes neither lose nor invent one.
THEOREM SignalsInvariant == Spec => []SignalsMatchBlocks
<1>1. Init => SignalsMatchBlocks
  <2> SUFFICES ASSUME Init PROVE SignalsMatchBlocks
    OBVIOUS
  <2>1. Pending = {}
    BY DEF Init, Pending
  <2>2. Cardinality(Pending) = 0
    BY <2>1, FS_EmptySet
  <2> QED
    BY <2>2 DEF Init, SignalsMatchBlocks
<1>2. Basic /\ SignalsMatchBlocks /\ [Next]_vars => SignalsMatchBlocks'
  BY SignalsStep
<1> QED
  BY <1>1, <1>2, BasicInvariant, PTL DEF Spec

\* Whenever transaction_thread enters its unbounded loop around pop_tqueue, the block
\* it was signalled for is in the queue, and it stays there until this thread pops it:
\* the loop waits at most for the publication of a reserved place.
THEOREM SpinInvariant == Spec => []SpinFindsBlock
<1>1. Init => SpinFindsBlock
  BY DEF Init, SpinFindsBlock
<1>2. Basic /\ SignalsMatchBlocks /\ SpinFindsBlock /\ [Next]_vars => SpinFindsBlock'
  <2> SUFFICES ASSUME Basic, SignalsMatchBlocks, SpinFindsBlock, [Next]_vars, txpc' = "spin"
               PROVE  cells' # <<>>
    BY DEF SpinFindsBlock
  <2>0. /\ cells \in Seq(QueueCell) /\ Len(cells) \in Nat /\ notifier \in Nat /\ count \in Nat
        /\ Cardinality(Pending) \in Nat
    BY TypedFacts, PendingFinite DEF Basic
  <2>1. CASE TxDrain
    <3>1. txpc = "drain" /\ count # 0 /\ ~kill /\ cells' = cells
      BY <2>1 DEF TxDrain, TxGoto
    <3>2. mainpc = "serve"
      BY <3>1 DEF Basic, Phases
    <3>3. Len(cells) = notifier + count + Cardinality(Pending)
      BY <2>0, <3>1, <3>2 DEF SignalsMatchBlocks
    <3>4. Len(cells) # 0
      BY <2>0, <3>1, <3>3
    <3> QED
      BY <3>1, <3>4
  <2>2. CASE txpc = "spin" /\ cells' = cells
    BY <2>2 DEF SpinFindsBlock
  <2>3. ASSUME NEW c \in Clients, Reserve(c) PROVE cells' # <<>>
    <3>1. Len(cells') = Len(cells) + 1
      BY <2>0, <2>3, AppendProperties DEF Reserve
    <3>2. Len(cells') # 0
      BY <2>0, <3>1
    <3> QED
      BY <3>2
  <2>4. ASSUME NEW c \in Clients, Publish(c) PROVE cells' # <<>>
    <3>1. Len(cells') = Len(cells) /\ txpc = "spin"
      BY <2>4, QueuePublished DEF Basic, Publish, txvars
    <3>2. Len(cells) # 0
      BY <2>0, <3>1, EmptySeq DEF SpinFindsBlock
    <3> QED
      BY <3>1, <3>2
  <2>5. ~FreeBlocks
    BY DEF FreeBlocks, Basic, Phases, txvars
  <2>6. ASSUME NEW c \in Clients,
               \/ \E op \in Commands : ReadCommand(c, op)
               \/ Route(c) \/ Signal(c) \/ AppendToBlock(c) \/ Tail_(c)
        PROVE  txpc = "spin" /\ cells' = cells
    BY <2>6 DEF ReadCommand, Route, Signal, AppendToBlock, Tail_, txvars
  <2>7. ~(TxLoop \/ TxConsume \/ TxPop \/ TxSkip \/ RunOp \/ RunMulti \/ RunExec \/ RunDiscard
          \/ RunBlock)
    BY DEF TxLoop, TxConsume, TxPop, TxSkip, RunOp, RunMulti, RunExec, RunDiscard, RunBlock, Finish,
           TxGoto
  <2>8. ASSUME KillStore \/ Abort \/ KillSignal \/ DestroyIO \/ UNCHANGED vars
        PROVE  txpc = "spin" /\ cells' = cells
    BY <2>8 DEF KillStore, Abort, KillSignal, DestroyIO, txvars, vars
  <2> QED
    BY <2>1, <2>2, <2>3, <2>4, <2>5, <2>6, <2>7, <2>8 DEF Next, IOStep, TxStep, MainStep, SignalFails, KillSignalFails
<1> QED
  BY <1>1, <1>2, BasicInvariant, SignalsInvariant, PTL DEF Spec

-----------------------------------------------------------------------------
(***************************************************************************)
(* Clients that wait for each answer.  Everything below is about           *)
(* Pipelined = FALSE; MCTxPipelined shows that it fails without.           *)
(***************************************************************************)

\* The blocks in tx_queue and in execution; those of one client; what was executed.
InFlight == {cells[i].blk : i \in DOMAIN cells} \cup {b \in {cur} : txpc = "run"}
Fly(c)   == {b \in InFlight : b.client = c}

\* A client has at most one block in flight, and it is ready once it was published.
Places ==
    /\ \A i, j \in DOMAIN cells : cells[i].blk.client = cells[j].blk.client => i = j
    /\ txpc = "run" => \A i \in DOMAIN cells : cells[i].blk.client # cur.client
    /\ \A i \in DOMAIN cells : cells[i].ready = (iopc[cells[i].blk.client] # "publish")
    /\ txpc = "run" => iopc[cur.client] # "publish"

\* The block in flight is the last command, not yet answered; or the block that
\* the EXEC which is the last command has queued.
Flight(c) ==
    \A b \in Fly(c) :
        /\ acks[c] + 1 = Number(c)
        /\ iopc[c] \in {"publish", "signal", "tail", "idle"}
        /\ b.multi = 0 => b.n = Number(c) /\ (Command(c) \notin WaitingTx => wb[c] = 0)
        /\ b.multi # 0 => /\ iopc[c] # "publish" /\ Command(c) = "EXEC" /\ wb[c] = 0
                          /\ blocks[c][b.multi].st = "queued"

Routing == {"route", "push", "append"}

\* A command on its way to the queue or the block is not answered yet.
Answers(c) ==
    /\ acks[c] <= Number(c)
    /\ iopc[c] \in Routing => acks[c] + 1 = Number(c)
    /\ iopc[c] = "tail" /\ wb[c] # 0 /\ Command(c) \notin WaitingTx => acks[c] + 1 = Number(c)

\* waiting_block does not change under an I/O thread that has looked at it.
OpenBlock(c) ==
    /\ wb[c] # 0 => blocks[c][wb[c]].st = "waiting"
    /\ iopc[c] = "append" => ref[c] = wb[c] /\ wb[c] # 0 /\ Command(c) \notin WaitingTx
    /\ iopc[c] \in {"push", "publish", "signal"} /\ Command(c) \notin WaitingTx => wb[c] = 0

Orderly(c) == Flight(c) /\ Answers(c) /\ OpenBlock(c)

\* What is in flight.
LEMMA FlyFacts ==
    ASSUME Basic, Places
    PROVE  /\ \A b \in InFlight : b \in Block /\ b.client \in Clients
           /\ \A b, d \in InFlight : b.client = d.client => b = d
           /\ txpc = "run" => cur \in InFlight /\ cur \in Fly(cur.client)
           /\ \A i \in DOMAIN cells : cells[i].blk \in InFlight
<1>1. \A i \in DOMAIN cells : cells[i].blk \in Block
  <2>1. \A i \in DOMAIN cells : cells[i] \in QueueCell
    BY TypedFacts DEF Basic
  <2> QED
    BY <2>1 DEF QueueCell
<1>2. cur \in Block
  BY TypedFacts DEF Basic
<1>3. \A b \in InFlight : b \in Block
  BY <1>1, <1>2 DEF InFlight
<1>4. \A b \in Block : b.client \in Clients
  BY DEF Block
<1>5. \A b, d \in InFlight : b.client = d.client => b = d
  BY DEF Places, InFlight
<1> QED
  BY <1>3, <1>4, <1>5 DEF InFlight, Fly

\* A client that a step does not touch.
LEMMA OrderlyFrame ==
    ASSUME NEW d \in Clients, Orderly(d),
           iopc'[d] = iopc[d], script'[d] = script[d], acks'[d] = acks[d], wb'[d] = wb[d],
           ref'[d] = ref[d], blocks'[d] = blocks[d], Fly(d)' \subseteq Fly(d)
    PROVE  Orderly(d)'
<1>1. Number(d)' = Number(d) /\ Command(d)' = Command(d)
  BY DEF Number, Command
<1>2. Flight(d)'
  BY <1>1 DEF Orderly, Flight
<1>3. Answers(d)'
  BY <1>1 DEF Orderly, Answers
<1>4. OpenBlock(d)'
  BY <1>1 DEF Orderly, OpenBlock
<1> QED
  BY <1>2, <1>3, <1>4 DEF Orderly

\* The types that the next lemmas need.
LEMMA BasicFacts ==
    ASSUME Basic
    PROVE  /\ iopc \in [Clients -> {"idle", "route", "push", "publish", "signal", "append", "tail"}]
           /\ script \in [Clients -> Seq(Commands)] /\ acks \in [Clients -> Nat]
           /\ wb \in [Clients -> Nat] /\ ref \in [Clients -> Nat]
           /\ \A c \in Clients : Number(c) \in Nat
           /\ cur.client \in Clients
BY TypedFacts DEF Basic

LEMMA CellFacts ==
    ASSUME Basic
    PROVE  /\ cells \in Seq(QueueCell) /\ Len(cells) \in Nat
           /\ \A i \in DOMAIN cells : /\ cells[i] \in QueueCell /\ cells[i].blk \in Block
                                      /\ cells[i].blk.client \in Clients
                                      /\ cells[i].ready \in BOOLEAN
<1>1. cells \in Seq(QueueCell) /\ Len(cells) \in Nat
  BY TypedFacts DEF Basic
<1>2. \A i \in DOMAIN cells : cells[i] \in QueueCell
  BY <1>1
<1> QED
  BY <1>1, <1>2 DEF QueueCell, Block

\* Steps that do not move a block.
LEMMA PlacesQuiet ==
    ASSUME Basic, Places, cells' = cells, txpc' = "run" <=> txpc = "run",
           txpc = "run" => cur' = cur,
           \A d \in Clients : iopc'[d] = "publish" <=> iopc[d] = "publish"
    PROVE  InFlight' = InFlight /\ Places'
<1>1. InFlight' = InFlight
  BY DEF InFlight
<1>2. \A i \in DOMAIN cells : cells[i].blk.client \in Clients
  BY CellFacts
<1>3. cur.client \in Clients
  BY BasicFacts
<1> QED
  BY <1>1, <1>2, <1>3 DEF Places

\* The block of a command is pushed.
LEMMA PlacesReserve ==
    ASSUME Basic, Places, NEW c \in Clients, Flight(c), Reserve(c)
    PROVE  /\ InFlight' = InFlight \cup {[client |-> c, multi |-> 0, n |-> Number(c)]}
           /\ Fly(c) = {}
           /\ Places'
<1> DEFINE b == [client |-> c, multi |-> 0, n |-> Number(c)]
           x == [blk |-> b, ready |-> FALSE]
<1>1. Fly(c) = {}
  BY DEF Flight, Reserve
<1>2. b \in Block /\ b.client = c
  BY BasicFacts DEF Block
<1>3. x \in QueueCell /\ x.blk = b /\ x.ready = FALSE
  BY <1>2 DEF QueueCell
<1>4. cells' = Append(cells, x) /\ UNCHANGED <<txpc, cur>> /\ iopc' = [iopc EXCEPT ![c] = "publish"]
      /\ iopc[c] = "push"
  BY DEF Reserve, IOGoto, txvars
<1> HIDE DEF b, x
<1>5. /\ Len(cells') = Len(cells) + 1 /\ cells' \in Seq(QueueCell)
      /\ \A i \in 1..Len(cells) : cells'[i] = cells[i]
      /\ cells'[Len(cells) + 1] = x
  BY <1>3, <1>4, QueuePushed DEF Basic
<1>6. Len(cells) \in Nat /\ DOMAIN cells = 1..Len(cells) /\ DOMAIN cells' = 1..(Len(cells) + 1)
  BY <1>5, CellFacts
<1>7. /\ \A i \in DOMAIN cells' : i \in DOMAIN cells \/ i = Len(cells) + 1
      /\ \A i \in DOMAIN cells : i \in DOMAIN cells' /\ i # Len(cells) + 1
      /\ Len(cells) + 1 \in DOMAIN cells'
  BY <1>6
<1>8. \A i \in DOMAIN cells : cells'[i] = cells[i]
  BY <1>5, <1>6
<1>9. InFlight' = InFlight \cup {b}
  <2>1. {cells'[i].blk : i \in DOMAIN cells'} = {cells[i].blk : i \in DOMAIN cells} \cup {b}
    BY <1>3, <1>5, <1>7, <1>8
  <2> QED
    BY <1>4, <2>1 DEF InFlight
<1>10. /\ \A i \in DOMAIN cells : cells[i].blk.client # c
       /\ txpc = "run" => cur.client # c
  BY <1>1, FlyFacts DEF Fly
<1>11. /\ iopc'[c] = "publish" /\ \A d \in Clients : d # c => iopc'[d] = iopc[d]
       /\ \A i \in DOMAIN cells : cells[i].blk.client \in Clients
       /\ cur.client \in Clients
  BY <1>4, BasicFacts, CellFacts
<1>12. Places'
  <2>1. \A i, j \in DOMAIN cells' : cells'[i].blk.client = cells'[j].blk.client => i = j
    BY <1>2, <1>3, <1>5, <1>7, <1>8, <1>10 DEF Places
  <2>2. txpc' = "run" => \A i \in DOMAIN cells' : cells'[i].blk.client # cur'.client
    BY <1>2, <1>3, <1>4, <1>5, <1>7, <1>8, <1>10 DEF Places
  <2>3. \A i \in DOMAIN cells' : cells'[i].ready = (iopc'[cells'[i].blk.client] # "publish")
    <3>1. TAKE i \in DOMAIN cells'
    <3>2. CASE i = Len(cells) + 1
      BY <1>2, <1>3, <1>5, <1>11, <3>2
    <3>3. CASE i \in DOMAIN cells
      BY <1>8, <1>10, <1>11, <3>3 DEF Places
    <3> QED
      BY <1>7, <3>2, <3>3
  <2>4. txpc' = "run" => iopc'[cur'.client] # "publish"
    BY <1>4, <1>10, <1>11 DEF Places
  <2> QED
    BY <2>1, <2>2, <2>3, <2>4 DEF Places
<1> QED
  BY <1>1, <1>9, <1>12 DEF b

\* Its place is published.
LEMMA PlacesPublish ==
    ASSUME Basic, Places, NEW c \in Clients, Flight(c), Publish(c)
    PROVE  InFlight' = InFlight /\ Places'
<1>1. /\ Len(cells') = Len(cells) /\ cells' \in Seq(QueueCell)
      /\ \A i \in 1..Len(cells) :
            /\ cells'[i].blk = cells[i].blk
            /\ cells'[i].ready = (\/ cells[i].ready
                                  \/ cells[i].blk.client = c /\ cells[i].blk.n = Number(c))
  BY QueuePublished DEF Basic
<1>2. DOMAIN cells = 1..Len(cells) /\ DOMAIN cells' = DOMAIN cells
  BY <1>1, CellFacts
<1>3. \A i \in DOMAIN cells :
         /\ cells'[i].blk = cells[i].blk
         /\ cells'[i].ready = (\/ cells[i].ready
                               \/ cells[i].blk.client = c /\ cells[i].blk.n = Number(c))
  BY <1>1, <1>2
<1>4. UNCHANGED <<txpc, cur>> /\ iopc' = [iopc EXCEPT ![c] = "signal"] /\ iopc[c] = "publish"
  BY DEF Publish, IOGoto, txvars
<1>5. InFlight' = InFlight
  BY <1>2, <1>3, <1>4 DEF InFlight
<1>6. \A i \in DOMAIN cells : cells[i].blk.client = c => cells[i].blk.n = Number(c)
  BY <1>4, FlyFacts DEF Flight, Fly
<1>7. /\ iopc'[c] = "signal" /\ \A d \in Clients : d # c => iopc'[d] = iopc[d]
      /\ cur.client \in Clients
  BY <1>4, BasicFacts
<1>8. \A i \in DOMAIN cells : cells[i].blk.client \in Clients /\ cells[i].ready \in BOOLEAN
  BY CellFacts
<1>9. \A i \in DOMAIN cells' : cells'[i].ready = (iopc'[cells'[i].blk.client] # "publish")
  <2>1. TAKE i \in DOMAIN cells'
  <2>2. CASE cells[i].blk.client = c
    BY <1>2, <1>3, <1>6, <1>7, <2>2
  <2>3. CASE cells[i].blk.client # c
    <3>1. cells[i].ready = (iopc[cells[i].blk.client] # "publish")
      BY <1>2 DEF Places
    <3>2. cells'[i].ready = cells[i].ready
      BY <1>2, <1>3, <1>8, <2>3
    <3>3. iopc'[cells'[i].blk.client] = iopc[cells[i].blk.client]
      BY <1>2, <1>3, <1>7, <1>8, <2>3
    <3> QED
      BY <3>1, <3>2, <3>3
  <2> QED
    BY <2>2, <2>3
<1>10. \A i, j \in DOMAIN cells' : cells'[i].blk.client = cells'[j].blk.client => i = j
  BY <1>2, <1>3 DEF Places
<1> QED
  BY <1>2, <1>3, <1>4, <1>5, <1>7, <1>9, <1>10 DEF Places

\* It is popped.
LEMMA PlacesPop ==
    ASSUME Basic, Places, TxPop
    PROVE  InFlight' = InFlight /\ Places'
<1>1. /\ cells' \in Seq(QueueCell) /\ Len(cells') = Len(cells) - 1
      /\ \A i \in 1..(Len(cells) - 1) : cells'[i] = cells[i + 1]
      /\ 1 \in DOMAIN cells /\ cur' = cells[1].blk /\ cells[1].ready
  BY PopTakes DEF Basic
<1>2. Len(cells) \in Nat /\ DOMAIN cells = 1..Len(cells)
  BY CellFacts
<1>3. DOMAIN cells' = 1..(Len(cells) - 1)
  BY <1>1, <1>2
<1>4. UNCHANGED iopc /\ txpc' = "run" /\ txpc # "run"
  BY DEF TxPop, TxGoto
<1>5. /\ \A i \in DOMAIN cells' : i + 1 \in DOMAIN cells /\ i + 1 # 1 /\ cells'[i] = cells[i + 1]
      /\ \A i \in DOMAIN cells : i = 1 \/ (i - 1 \in DOMAIN cells' /\ cells'[i - 1] = cells[i])
      /\ \A i, j \in DOMAIN cells' : i + 1 = j + 1 => i = j
  BY <1>1, <1>2, <1>3
<1>6. {cells'[i].blk : i \in DOMAIN cells'} \cup {cur'} = {cells[i].blk : i \in DOMAIN cells}
  <2>1. \A i \in DOMAIN cells' : \E j \in DOMAIN cells : cells'[i].blk = cells[j].blk
    BY <1>5
  <2>2. \A j \in DOMAIN cells : cells[j].blk = cur' \/ \E i \in DOMAIN cells' : cells'[i].blk = cells[j].blk
    BY <1>1, <1>5
  <2>3. \E j \in DOMAIN cells : cur' = cells[j].blk
    BY <1>1
  <2> DEFINE S == {cells[i].blk : i \in DOMAIN cells}
             T == {cells'[i].blk : i \in DOMAIN cells'}
  <2>4. \A y \in S : y = cur' \/ y \in T
    BY <2>2
  <2>5. cur' \in S /\ \A y \in T : y \in S
    BY <2>1, <2>3
  <2> HIDE DEF S, T
  <2>6. T \cup {cur'} = S
    BY <2>4, <2>5
  <2> QED
    BY <2>6 DEF S, T
<1>7. InFlight' = InFlight
  BY <1>4, <1>6 DEF InFlight
<1>8. \A i, j \in DOMAIN cells' : cells'[i].blk.client = cells'[j].blk.client => i = j
  BY <1>5 DEF Places
<1>9. \A i \in DOMAIN cells' : cells'[i].blk.client # cur'.client
  BY <1>1, <1>5 DEF Places
<1>10. \A i \in DOMAIN cells' : cells'[i].ready = (iopc'[cells'[i].blk.client] # "publish")
  BY <1>4, <1>5 DEF Places
<1>11. iopc'[cur'.client] # "publish"
  BY <1>1, <1>4 DEF Places
<1> QED
  BY <1>7, <1>8, <1>9, <1>10, <1>11 DEF Places

\* It has been executed, and nothing was pushed.
LEMMA PlacesDone ==
    ASSUME Basic, Places, txpc = "run", txpc' # "run", UNCHANGED <<cells, iopc>>,
           NEW c \in Clients, c = cur.client
    PROVE  /\ Fly(c)' = {} /\ \A d : d # c => Fly(d)' = Fly(d)
           /\ Places'
<1>1. InFlight' = {cells[i].blk : i \in DOMAIN cells}
  BY DEF InFlight
<1>2. /\ \A b \in InFlight' : b \in InFlight /\ b.client # c
      /\ \A b \in InFlight : b \in InFlight' \/ b.client = c
  BY <1>1 DEF InFlight, Places
<1>3. Places'
  BY DEF Places
<1> QED
  BY <1>2, <1>3 DEF Fly

\* EXEC was executed and the block it closed takes its place.
LEMMA PlacesExec ==
    ASSUME Basic, Places, txpc = "run", txpc' # "run", UNCHANGED iopc,
           NEW c \in Clients, c = cur.client, NEW b \in Block, b.client = c,
           cells' = Append(cells, [blk |-> b, ready |-> TRUE])
    PROVE  /\ Fly(c)' = {b} /\ \A d \in Clients : d # c => Fly(d)' = Fly(d)
           /\ Places'
<1> DEFINE x == [blk |-> b, ready |-> TRUE]
<1>1. x \in QueueCell /\ x.blk = b /\ x.ready = TRUE
  BY DEF QueueCell
<1>2. cells' = Append(cells, x)
  OBVIOUS
<1> HIDE DEF x
<1>3. /\ Len(cells') = Len(cells) + 1 /\ cells' \in Seq(QueueCell)
      /\ \A i \in 1..Len(cells) : cells'[i] = cells[i]
      /\ cells'[Len(cells) + 1] = x
  BY <1>1, <1>2, QueuePushed DEF Basic
<1>4. Len(cells) \in Nat /\ DOMAIN cells = 1..Len(cells) /\ DOMAIN cells' = 1..(Len(cells) + 1)
  BY <1>3, CellFacts
<1>5. /\ \A i \in DOMAIN cells' : i \in DOMAIN cells \/ i = Len(cells) + 1
      /\ \A i \in DOMAIN cells : i \in DOMAIN cells' /\ i # Len(cells) + 1
      /\ Len(cells) + 1 \in DOMAIN cells'
  BY <1>4
<1>6. \A i \in DOMAIN cells : cells'[i] = cells[i]
  BY <1>3, <1>4
<1>7. InFlight' = {cells[i].blk : i \in DOMAIN cells} \cup {b}
  <2>1. {cells'[i].blk : i \in DOMAIN cells'} = {cells[i].blk : i \in DOMAIN cells} \cup {b}
    BY <1>1, <1>3, <1>5, <1>6
  <2> QED
    BY <2>1 DEF InFlight
<1>8. \A i \in DOMAIN cells : cells[i].blk.client # cur.client
  BY DEF Places
<1>9. Fly(c)' = {b}
  BY <1>7, <1>8 DEF Fly
<1>10. \A d \in Clients : d # c => Fly(d)' = Fly(d)
  BY <1>7 DEF Fly, InFlight
<1>11. \A i, j \in DOMAIN cells' : cells'[i].blk.client = cells'[j].blk.client => i = j
  BY <1>1, <1>3, <1>5, <1>6, <1>8 DEF Places
<1>12. \A i \in DOMAIN cells' : cells'[i].ready = (iopc'[cells'[i].blk.client] # "publish")
  <2>1. TAKE i \in DOMAIN cells'
  <2>2. CASE i = Len(cells) + 1
    <3>1. cells'[i].ready = TRUE /\ cells'[i].blk = b
      BY <1>1, <1>3, <2>2
    <3>2. iopc'[b.client] # "publish"
      BY DEF Places
    <3> QED
      BY <3>1, <3>2
  <2>3. CASE i \in DOMAIN cells
    BY <1>6, <2>3 DEF Places
  <2> QED
    BY <1>5, <2>2, <2>3
<1> QED
  BY <1>9, <1>10, <1>11, <1>12 DEF Places

\* The queue is emptied when the server ends.
LEMMA PlacesFree ==
    ASSUME Basic, FreeBlocks
    PROVE  (\A d : Fly(d)' = {}) /\ Places'
<1>1. cells' = <<>> /\ txpc' # "run"
  BY DEF FreeBlocks, Basic, Phases, txvars
<1>2. DOMAIN cells' = {}
  BY <1>1
<1> QED
  BY <1>1, <1>2 DEF Places, Fly, InFlight

\* Only client c moves.
LEMMA OthersOrderly ==
    ASSUME NEW c \in Clients, \A d \in Clients : Orderly(d), Orderly(c)',
           \A d \in Clients : d # c =>
              /\ iopc'[d] = iopc[d] /\ script'[d] = script[d] /\ acks'[d] = acks[d]
              /\ wb'[d] = wb[d] /\ ref'[d] = ref[d] /\ blocks'[d] = blocks[d]
              /\ Fly(d)' \subseteq Fly(d)
    PROVE  \A d \in Clients : Orderly(d)'
<1>1. ASSUME NEW d \in Clients, d # c PROVE Orderly(d)'
  BY <1>1, OrderlyFrame
<1> QED
  BY <1>1

LEMMA OrderlyRead ==
    ASSUME Basic, Places, \A d \in Clients : Orderly(d), Pipelined = FALSE,
           NEW c \in Clients, NEW op \in Commands, ReadCommand(c, op)
    PROVE  Places' /\ Fly(c) = {} /\ Number(c)' = Number(c) + 1 /\ \A d \in Clients : Orderly(d)'
<1>1. /\ iopc[c] = "idle" /\ acks[c] = Number(c)
      /\ script' = [script EXCEPT ![c] = Append(@, op)] /\ iopc' = [iopc EXCEPT ![c] = "route"]
      /\ UNCHANGED <<cells, acks, wb, ref, blocks, txpc, cur>>
  BY DEF ReadCommand, IOGoto, txvars
<1>2. /\ iopc'[c] = "route" /\ script'[c] = Append(script[c], op)
      /\ \A d \in Clients : d # c => iopc'[d] = iopc[d] /\ script'[d] = script[d]
      /\ Number(c) \in Nat /\ acks[c] \in Nat /\ script[c] \in Seq(Commands)
  BY <1>1, BasicFacts
<1>3. Number(c)' = Number(c) + 1
  BY <1>2, AppendProperties DEF Number
<1>4. Places' /\ InFlight' = InFlight
  BY <1>1, <1>2, PlacesQuiet
<1>5. Fly(c) = {} /\ \A d : Fly(d)' = Fly(d)
  BY <1>1, <1>2, <1>4 DEF Orderly, Flight, Fly
<1>6. Orderly(c)'
  <2>1. Flight(c)'
    BY <1>5 DEF Flight
  <2>2. Answers(c)'
    BY <1>1, <1>2, <1>3 DEF Answers, Routing
  <2>3. OpenBlock(c)'
    BY <1>1, <1>2 DEF Orderly, OpenBlock
  <2> QED
    BY <2>1, <2>2, <2>3 DEF Orderly
<1> QED
  BY <1>1, <1>2, <1>3, <1>4, <1>5, <1>6, OthersOrderly

LEMMA OrderlyRoute ==
    ASSUME Basic, Places, \A d \in Clients : Orderly(d), NEW c \in Clients, Route(c)
    PROVE  Places' /\ InFlight' = InFlight /\ \A d \in Clients : Orderly(d)'
<1>1. /\ iopc[c] = "route" /\ UNCHANGED <<cells, script, acks, wb, blocks, txpc, cur>>
      /\ \/ iopc' = [iopc EXCEPT ![c] = "push"] /\ ref' = ref
            /\ (wb[c] = 0 \/ Command(c) \in WaitingTx)
         \/ iopc' = [iopc EXCEPT ![c] = "append"] /\ ref' = [ref EXCEPT ![c] = wb[c]]
            /\ wb[c] # 0 /\ Command(c) \notin WaitingTx
  BY DEF Route, IOGoto, hist, txvars
<1>2. /\ \/ iopc'[c] = "push" /\ (wb[c] = 0 \/ Command(c) \in WaitingTx)
         \/ iopc'[c] = "append" /\ ref'[c] = wb[c] /\ wb[c] # 0 /\ Command(c) \notin WaitingTx
      /\ \A d \in Clients : d # c => iopc'[d] = iopc[d] /\ ref'[d] = ref[d]
  BY <1>1, BasicFacts
<1>3. Number(c)' = Number(c) /\ Command(c)' = Command(c)
  BY <1>1 DEF Number, Command
<1>4. Places' /\ InFlight' = InFlight
  BY <1>1, <1>2, PlacesQuiet
<1>5. Fly(c) = {} /\ \A d : Fly(d)' = Fly(d)
  BY <1>1, <1>4 DEF Orderly, Flight, Fly
<1>6. Orderly(c)'
  <2>1. Flight(c)'
    BY <1>5 DEF Flight
  <2>2. Answers(c)'
    BY <1>1, <1>2, <1>3 DEF Orderly, Answers, Routing
  <2>3. OpenBlock(c)'
    BY <1>1, <1>2, <1>3 DEF Orderly, OpenBlock
  <2> QED
    BY <2>1, <2>2, <2>3 DEF Orderly
<1> QED
  BY <1>1, <1>2, <1>3, <1>4, <1>5, <1>6, OthersOrderly

LEMMA OrderlyReserve ==
    ASSUME Basic, Places, \A d \in Clients : Orderly(d), NEW c \in Clients, Reserve(c)
    PROVE  /\ Places' /\ Fly(c)' = {[client |-> c, multi |-> 0, n |-> Number(c)]} /\ Fly(c) = {}
           /\ \A d \in Clients : d # c => Fly(d)' = Fly(d)
           /\ \A d \in Clients : Orderly(d)'
<1> DEFINE b == [client |-> c, multi |-> 0, n |-> Number(c)]
<1>1. /\ iopc[c] = "push" /\ UNCHANGED <<script, acks, wb, ref, blocks>>
      /\ iopc' = [iopc EXCEPT ![c] = "publish"]
  BY DEF Reserve, IOGoto, hist
<1>2. /\ iopc'[c] = "publish" /\ \A d \in Clients : d # c => iopc'[d] = iopc[d]
  BY <1>1, BasicFacts
<1>3. Number(c)' = Number(c) /\ Command(c)' = Command(c)
  BY <1>1 DEF Number, Command
<1>4. Places' /\ InFlight' = InFlight \cup {b} /\ Fly(c) = {}
  BY PlacesReserve DEF Orderly
<1>5. b.client = c /\ b.multi = 0 /\ b.n = Number(c)
  OBVIOUS
<1> HIDE DEF b
<1>6. Fly(c)' = {b} /\ \A d : d # c => Fly(d)' = Fly(d)
  BY <1>4, <1>5 DEF Fly
<1>7. Orderly(c)'
  <2>1. Flight(c)'
    BY <1>1, <1>2, <1>3, <1>5, <1>6 DEF Orderly, Flight, Answers, Routing, OpenBlock
  <2>2. Answers(c)'
    BY <1>1, <1>2, <1>3 DEF Orderly, Answers, Routing
  <2>3. OpenBlock(c)'
    BY <1>1, <1>2, <1>3 DEF Orderly, OpenBlock
  <2> QED
    BY <2>1, <2>2, <2>3 DEF Orderly
<1>8. \A d \in Clients : Orderly(d)'
  BY <1>1, <1>2, <1>6, <1>7, OthersOrderly
<1> QED
  BY <1>4, <1>6, <1>8 DEF b

LEMMA OrderlyPublish ==
    ASSUME Basic, Places, \A d \in Clients : Orderly(d), NEW c \in Clients, Publish(c) \/ Signal(c)
    PROVE  Places' /\ InFlight' = InFlight /\ \A d \in Clients : Orderly(d)'
<1>1. /\ UNCHANGED <<script, acks, wb, ref, blocks>>
      /\ \/ iopc[c] = "publish" /\ iopc' = [iopc EXCEPT ![c] = "signal"]
         \/ iopc[c] = "signal" /\ iopc' = [iopc EXCEPT ![c] = "tail"]
            /\ UNCHANGED <<cells, txpc, cur>>
  BY DEF Publish, Signal, IOGoto, hist, txvars
<1>2. /\ \/ iopc[c] = "publish" /\ iopc'[c] = "signal"
         \/ iopc[c] = "signal" /\ iopc'[c] = "tail" /\ UNCHANGED <<cells, txpc, cur>>
      /\ \A d \in Clients : d # c => iopc'[d] = iopc[d]
  BY <1>1, BasicFacts
<1>3. Number(c)' = Number(c) /\ Command(c)' = Command(c)
  BY <1>1 DEF Number, Command
<1>4. Places' /\ InFlight' = InFlight
  <2>1. CASE Publish(c)
    BY <2>1, PlacesPublish DEF Orderly
  <2>2. CASE Signal(c)
    <3>1. iopc[c] = "signal"
      BY <2>2 DEF Signal
    <3> QED
      BY <1>2, <3>1, PlacesQuiet
  <2> QED
    BY <2>1, <2>2
<1>5. \A d : Fly(d)' = Fly(d)
  BY <1>4 DEF Fly
<1>6. Orderly(c)'
  <2>1. Flight(c)'
    BY <1>1, <1>2, <1>3, <1>5 DEF Orderly, Flight
  <2>2. Answers(c)'
    BY <1>1, <1>2, <1>3 DEF Orderly, Answers, Routing, OpenBlock
  <2>3. OpenBlock(c)'
    BY <1>1, <1>2, <1>3 DEF Orderly, OpenBlock
  <2> QED
    BY <2>1, <2>2, <2>3 DEF Orderly
<1>7. \A d \in Clients : Orderly(d)'
  BY <1>1, <1>2, <1>5, <1>6, OthersOrderly
<1> QED
  BY <1>4, <1>7

LEMMA OrderlyAppend ==
    ASSUME Basic, Places, \A d \in Clients : Orderly(d), NEW c \in Clients, AppendToBlock(c)
    PROVE  Places' /\ InFlight' = InFlight /\ \A d \in Clients : Orderly(d)'
<1>1. /\ UNCHANGED <<cells, script, acks, wb, txpc, cur>> /\ iopc[c] = "append"
      /\ iopc' = [iopc EXCEPT ![c] = "tail"] /\ ref' = [ref EXCEPT ![c] = 0]
  BY DEF AppendToBlock, IOGoto, hist, txvars
<1>2. /\ iopc'[c] = "tail"
      /\ \A d \in Clients : d # c => iopc'[d] = iopc[d] /\ ref'[d] = ref[d]
  BY <1>1, BasicFacts
<1>3. Number(c)' = Number(c) /\ Command(c)' = Command(c)
  BY <1>1 DEF Number, Command
<1>4. Places' /\ InFlight' = InFlight
  BY <1>1, <1>2, PlacesQuiet
<1>5. Fly(c) = {} /\ \A d : Fly(d)' = Fly(d)
  BY <1>1, <1>4 DEF Orderly, Flight, Fly
<1>6. (\A d \in Clients : d # c => blocks'[d] = blocks[d])
      /\ blocks'[c][ref[c]].st = blocks[c][ref[c]].st
  BY AppendAdds DEF Basic
<1>7. Orderly(c)'
  <2>1. Flight(c)'
    BY <1>5 DEF Flight
  <2>2. Answers(c)'
    BY <1>1, <1>2, <1>3 DEF Orderly, Answers, Routing
  <2>3. OpenBlock(c)'
    BY <1>1, <1>2, <1>6 DEF Orderly, OpenBlock
  <2> QED
    BY <2>1, <2>2, <2>3 DEF Orderly
<1>8. \A d \in Clients : Orderly(d)'
  BY <1>1, <1>2, <1>5, <1>6, <1>7, OthersOrderly
<1> QED
  BY <1>4, <1>8

LEMMA OrderlyTail ==
    ASSUME Basic, Places, \A d \in Clients : Orderly(d), NEW c \in Clients, Tail_(c)
    PROVE  Places' /\ InFlight' = InFlight /\ \A d \in Clients : Orderly(d)'
<1> DEFINE queued == wb[c] # 0 /\ Command(c) \notin WaitingTx
<1>1. /\ UNCHANGED <<cells, script, wb, ref, blocks, txpc, cur>> /\ iopc[c] = "tail"
      /\ iopc' = [iopc EXCEPT ![c] = "idle"]
      /\ queued => acks' = [acks EXCEPT ![c] = @ + 1]
      /\ ~queued => acks' = acks
  BY DEF Tail_, Answer, IOGoto, txvars
<1>2. /\ iopc'[c] = "idle" /\ (queued => acks'[c] = acks[c] + 1) /\ (~queued => acks'[c] = acks[c])
      /\ \A d \in Clients : d # c => iopc'[d] = iopc[d] /\ acks'[d] = acks[d]
      /\ acks[c] \in Nat /\ Number(c) \in Nat
  BY <1>1, BasicFacts
<1>3. Number(c)' = Number(c) /\ Command(c)' = Command(c)
  BY <1>1 DEF Number, Command
<1>4. Places' /\ InFlight' = InFlight
  BY <1>1, <1>2, PlacesQuiet
<1>5. \A d : Fly(d)' = Fly(d)
  BY <1>4 DEF Fly
<1>6. queued => Fly(c) = {}
  BY DEF Orderly, Flight, WaitingTx
<1>7. Orderly(c)'
  <2>1. Flight(c)'
    BY <1>1, <1>2, <1>3, <1>5, <1>6 DEF Orderly, Flight
  <2>2. Answers(c)'
    BY <1>1, <1>2, <1>3 DEF Orderly, Answers, Routing
  <2>3. OpenBlock(c)'
    BY <1>1, <1>2 DEF Orderly, OpenBlock
  <2> QED
    BY <2>1, <2>2, <2>3 DEF Orderly
<1>8. \A d \in Clients : Orderly(d)'
  BY <1>1, <1>2, <1>5, <1>7, OthersOrderly
<1> QED
  BY <1>4, <1>8

\* Steps of the transaction thread and of the main thread that execute nothing.
LEMMA OrderlyQuiet ==
    ASSUME Basic, Places, \A d \in Clients : Orderly(d),
           \/ TxLoop \/ TxConsume \/ TxDrain \/ TxPop \/ TxSkip
           \/ KillStore \/ Abort \/ KillSignal \/ DestroyIO \/ FreeBlocks \/ UNCHANGED vars
    PROVE  /\ Places' /\ (\A d : Fly(d)' \subseteq Fly(d))
           /\ (InFlight' = InFlight \/ mainpc' = "done")
           /\ UNCHANGED <<iopc, script, acks, wb, ref, blocks, log>>
           /\ \A d \in Clients : Orderly(d)'
<1>1. UNCHANGED <<iopc, script, acks, wb, ref, blocks, log>>
  BY DEF TxLoop, TxConsume, TxDrain, TxPop, TxSkip, KillStore, Abort, KillSignal, DestroyIO, FreeBlocks, hist,
         vars
<1>2. /\ Places' /\ (\A d : Fly(d)' \subseteq Fly(d))
      /\ (InFlight' = InFlight \/ mainpc' = "done")
  <2>1. ASSUME TxLoop \/ TxConsume \/ TxDrain \/ TxSkip \/ KillStore \/ Abort \/ KillSignal \/ DestroyIO
                \/ UNCHANGED vars
        PROVE  Places' /\ InFlight' = InFlight
    <3>1. cells' = cells /\ cur' = cur /\ (txpc' = "run" <=> txpc = "run")
      BY <2>1 DEF TxLoop, TxConsume, TxDrain, TxSkip, KillStore, Abort, KillSignal, DestroyIO, TxGoto, txvars,
                  vars
    <3> QED
      BY <1>1, <3>1, PlacesQuiet
  <2>2. ASSUME TxPop PROVE Places' /\ InFlight' = InFlight
    BY <2>2, PlacesPop
  <2>3. ASSUME FreeBlocks PROVE Places' /\ mainpc' = "done" /\ \A d : Fly(d)' \subseteq Fly(d)
    BY <2>3, PlacesFree DEF FreeBlocks
  <2>4. InFlight' = InFlight => \A d : Fly(d)' \subseteq Fly(d)
    BY DEF Fly
  <2> QED
    BY <2>1, <2>2, <2>3, <2>4
<1>3. ASSUME NEW d \in Clients PROVE Orderly(d)'
  BY <1>1, <1>2, OrderlyFrame
<1> QED
  BY <1>1, <1>2, <1>3

\* What is executed: the last command of its client, or the block that it queued.
LEMMA RunFacts ==
    ASSUME Basic, Places, \A d \in Clients : Orderly(d), txpc = "run",
           NEW c \in Clients, c = cur.client
    PROVE  /\ cur \in Fly(c) /\ Fly(c) = {cur}
           /\ acks[c] \in Nat /\ Number(c) \in Nat /\ acks[c] + 1 = Number(c)
           /\ iopc[c] \in {"signal", "tail", "idle"} /\ iopc[c] \notin Routing
           /\ cur.multi = 0 => cur.n = Number(c) /\ script[c][cur.n] = Command(c)
                               /\ (Command(c) \notin WaitingTx => wb[c] = 0)
           /\ cur.multi # 0 => Command(c) = "EXEC" /\ wb[c] = 0
                               /\ blocks[c][cur.multi].st = "queued"
           /\ wb[c] # 0 => blocks[c][wb[c]].st = "waiting"
<1>1. cur \in Fly(c) /\ Fly(c) = {cur}
  BY FlyFacts DEF Fly
<1>2. iopc[c] # "publish"
  BY DEF Places
<1>3. acks[c] \in Nat /\ Number(c) \in Nat
  BY BasicFacts
<1>4. Flight(c) /\ OpenBlock(c)
  BY DEF Orderly
<1> QED
  BY <1>1, <1>2, <1>3, <1>4 DEF Flight, OpenBlock, Command, Routing

\* A command is executed and answered; its block is gone.
LEMMA OrderlyAnswered ==
    ASSUME Basic, Places, \A d \in Clients : Orderly(d), txpc = "run", txpc' # "run",
           NEW c \in Clients, c = cur.client,
           UNCHANGED <<cells, iopc, script, ref>>, acks' = [acks EXCEPT ![c] = @ + 1],
           \A d \in Clients : d # c => wb'[d] = wb[d] /\ blocks'[d] = blocks[d],
           wb'[c] # 0 => blocks'[c][wb'[c]].st = "waiting",
           Command(c) \notin WaitingTx => wb'[c] = 0
    PROVE  /\ Places' /\ Fly(c)' = {} /\ (\A d \in Clients : d # c => Fly(d)' = Fly(d))
           /\ \A d \in Clients : Orderly(d)'
<1>1. Places' /\ Fly(c)' = {} /\ \A d \in Clients : d # c => Fly(d)' = Fly(d)
  BY PlacesDone
<1>2. Number(c)' = Number(c) /\ Command(c)' = Command(c)
  BY DEF Number, Command
<1>3. acks'[c] = acks[c] + 1 /\ \A d \in Clients : d # c => acks'[d] = acks[d]
  BY BasicFacts
<1>4. /\ iopc[c] \in {"signal", "tail", "idle"} /\ acks[c] + 1 = Number(c) /\ Number(c) \in Nat
  BY RunFacts
<1>5. Orderly(c)'
  <2>1. Flight(c)'
    BY <1>1 DEF Flight
  <2>2. Answers(c)'
    BY <1>2, <1>3, <1>4 DEF Answers, Routing
  <2>3. OpenBlock(c)'
    BY <1>2, <1>4 DEF OpenBlock
  <2> QED
    BY <2>1, <2>2, <2>3 DEF Orderly
<1>6. \A d \in Clients : Orderly(d)'
  BY <1>1, <1>3, <1>5, OthersOrderly
<1> QED
  BY <1>1, <1>6

\* EXEC has queued the open block.
LEMMA OrderlyExec ==
    ASSUME Basic, Places, \A d \in Clients : Orderly(d), NEW c \in Clients, c = cur.client,
           RunExec, wb[c] # 0, Len(cells) # QueueSize
    PROVE  /\ Places' /\ Fly(c)' = {[client |-> c, multi |-> wb[c], n |-> 0]}
           /\ \A d \in Clients : d # c => Fly(d)' = Fly(d)
           /\ \A d \in Clients : Orderly(d)'
<1> DEFINE b == [client |-> c, multi |-> wb[c], n |-> 0]
<1>1. /\ cells' = Append(cells, [blk |-> b, ready |-> TRUE])
      /\ UNCHANGED <<iopc, script, ref, acks>> /\ txpc = "run" /\ txpc' = "drain"
      /\ cur.multi = 0 /\ script[c][cur.n] = "EXEC"
  BY DEF RunExec, Running, Finish, TxGoto
<1>2. wb[c] \in Nat
  BY BasicFacts
<1>3. b \in Block /\ b.client = c /\ b.multi = wb[c]
  BY <1>2 DEF Block
<1> HIDE DEF b
<1>4. /\ Places' /\ Fly(c)' = {b} /\ \A d \in Clients : d # c => Fly(d)' = Fly(d)
  BY <1>1, <1>3, PlacesExec
<1>5. /\ \A d \in Clients : d # c => blocks'[d] = blocks[d]
      /\ blocks'[c][wb[c]] = [st   |-> IF RunDiscard THEN "freed" ELSE "queued",
                              cmds |-> blocks[c][wb[c]].cmds]
      /\ wb' = [wb EXCEPT ![c] = 0]
  BY OpenBlockLeaves DEF Basic
<1>6. ~RunDiscard
  BY <1>1 DEF RunDiscard, Running
<1>7. blocks'[c][wb[c]].st = "queued" /\ wb'[c] = 0 /\ \A d \in Clients : d # c => wb'[d] = wb[d]
  BY <1>5, <1>6, BasicFacts
<1>8. Number(c)' = Number(c) /\ Command(c)' = Command(c)
  BY <1>1 DEF Number, Command
<1>9. /\ iopc[c] \in {"signal", "tail", "idle"} /\ acks[c] + 1 = Number(c) /\ Number(c) \in Nat
      /\ acks[c] \in Nat /\ Command(c) = "EXEC"
  BY <1>1, RunFacts
<1>10. Orderly(c)'
  <2>1. Flight(c)'
    BY <1>1, <1>3, <1>4, <1>7, <1>8, <1>9, <1>2 DEF Flight
  <2>2. Answers(c)'
    BY <1>1, <1>7, <1>8, <1>9 DEF Answers, Routing
  <2>3. OpenBlock(c)'
    BY <1>1, <1>7, <1>8, <1>9 DEF OpenBlock
  <2> QED
    BY <2>1, <2>2, <2>3 DEF Orderly
<1>11. \A d \in Clients : Orderly(d)'
  BY <1>1, <1>4, <1>5, <1>7, <1>10, OthersOrderly
<1> QED
  BY <1>4, <1>11 DEF b

\* Everything else that the transaction thread executes is answered at once.
Answered ==
    \/ RunOp \/ RunMulti \/ RunDiscard \/ RunBlock
    \/ RunExec /\ (wb[cur.client] = 0 \/ Len(cells) = QueueSize)

LEMMA OrderlyRun ==
    ASSUME Basic, Places, \A d \in Clients : Orderly(d), NEW c \in Clients, c = cur.client, Answered
    PROVE  /\ Places' /\ Fly(c)' = {} /\ (\A d \in Clients : d # c => Fly(d)' = Fly(d))
           /\ \A d \in Clients : Orderly(d)'
<1>1. /\ txpc = "run" /\ txpc' = "drain"
      /\ UNCHANGED <<cells, iopc, script, ref>> /\ acks' = [acks EXCEPT ![c] = @ + 1]
  BY DEF Answered, RunOp, RunMulti, RunExec, RunDiscard, RunBlock, Running, Finish, TxGoto, Answer
<1>2. /\ cur.multi = 0 => script[c][cur.n] = Command(c) /\ (Command(c) \notin WaitingTx => wb[c] = 0)
      /\ cur.multi # 0 => Command(c) = "EXEC" /\ wb[c] = 0
      /\ wb[c] # 0 => blocks[c][wb[c]].st = "waiting"
  BY <1>1, RunFacts
<1>3. /\ \A d \in Clients : d # c => wb'[d] = wb[d] /\ blocks'[d] = blocks[d]
      /\ wb'[c] # 0 => blocks'[c][wb'[c]].st = "waiting"
      /\ Command(c) \notin WaitingTx => wb'[c] = 0
  <2>1. CASE UNCHANGED <<wb, blocks>>
    BY <1>2, <2>1 DEF WaitingTx
  <2>2. CASE RunMulti /\ wb[c] = 0
    <3>1. /\ \A d \in Clients : d # c => blocks'[d] = blocks[d]
          /\ blocks'[c][Len(blocks[c]) + 1] = [st |-> "waiting", cmds |-> <<>>]
          /\ wb' = [wb EXCEPT ![c] = Len(blocks[c]) + 1]
      BY <2>2, MultiOpens DEF Basic
    <3>2. Command(c) \in WaitingTx
      BY <1>2, <2>2 DEF RunMulti, Running, WaitingTx
    <3>3. wb'[c] = Len(blocks[c]) + 1 /\ \A d \in Clients : d # c => wb'[d] = wb[d]
      BY <3>1, BasicFacts
    <3> QED
      BY <3>1, <3>2, <3>3
  <2>3. CASE RunDiscard /\ wb[c] # 0
    <3>1. /\ \A d \in Clients : d # c => blocks'[d] = blocks[d]
          /\ wb' = [wb EXCEPT ![c] = 0]
      BY <2>3, OpenBlockLeaves DEF Basic
    <3> QED
      BY <3>1, BasicFacts
  <2>4. CASE RunBlock
    <3>1. \A d \in Clients : d # c => blocks'[d] = blocks[d]
      BY <2>4, RunBlockFrees DEF Basic
    <3>2. wb[c] = 0 /\ wb' = wb
      BY <1>2, <2>4 DEF RunBlock
    <3> QED
      BY <3>1, <3>2
  <2> QED
    BY <2>1, <2>2, <2>3, <2>4 DEF Answered, RunOp, RunMulti, RunExec, RunDiscard
<1> QED
  BY <1>1, <1>3, OrderlyAnswered

\* A client that waits for each answer has one command under way, and the
\* transaction thread and its I/O thread take turns on its waiting block.
OneAtATime == Basic /\ Places /\ \A c \in Clients : Orderly(c)

\* The steps that the lemmas above are about.
LEMMA StepKinds ==
    ASSUME [Next]_vars
    PROVE  \/ \E c \in Clients, op \in Commands : ReadCommand(c, op)
           \/ \E c \in Clients : Route(c) \/ Reserve(c) \/ Publish(c) \/ Signal(c) \/ AppendToBlock(c)
                                 \/ Tail_(c)
           \/ TxLoop \/ TxConsume \/ TxDrain \/ TxPop \/ TxSkip
           \/ KillStore \/ Abort \/ KillSignal \/ DestroyIO \/ FreeBlocks \/ UNCHANGED vars
           \/ Answered
           \/ RunExec /\ wb[cur.client] # 0 /\ Len(cells) # QueueSize
BY DEF Next, IOStep, TxStep, MainStep, SignalFails, KillSignalFails, Answered

LEMMA OneAtATimeInvariant == ASSUME Pipelined = FALSE PROVE Spec => []OneAtATime
<1>1. Init /\ Basic => OneAtATime
  <2> SUFFICES ASSUME Init, Basic PROVE OneAtATime
    OBVIOUS
  <2>1. cells = <<>> /\ txpc = "loop"
    BY DEF Init
  <2>2. InFlight = {} /\ Places
    BY <2>1 DEF InFlight, Places
  <2>3. ASSUME NEW c \in Clients PROVE Orderly(c)
    <3>1. iopc[c] = "idle" /\ acks[c] = 0 /\ wb[c] = 0
      BY DEF Init
    <3>2. Number(c) \in Nat
      BY BasicFacts
    <3> QED
      BY <2>2, <3>1, <3>2 DEF Orderly, Flight, Answers, OpenBlock, Fly, Routing
  <2> QED
    BY <2>2, <2>3 DEF OneAtATime
<1>2. OneAtATime /\ [Next]_vars /\ Basic' => OneAtATime'
  <2> SUFFICES ASSUME OneAtATime, [Next]_vars PROVE Places' /\ \A d \in Clients : Orderly(d)'
    BY DEF OneAtATime
  <2> DEFINE goal == Places' /\ \A d \in Clients : Orderly(d)'
  <2> HIDE DEF goal
  <2>0. Basic /\ Places /\ \A c \in Clients : Orderly(c)
    BY DEF OneAtATime
  <2>1. ASSUME NEW c \in Clients, NEW op \in Commands, ReadCommand(c, op)
        PROVE  goal
    BY <2>0, <2>1, OrderlyRead DEF goal
  <2>2. ASSUME NEW c \in Clients,
               Route(c) \/ Reserve(c) \/ Publish(c) \/ Signal(c) \/ AppendToBlock(c) \/ Tail_(c)
        PROVE  goal
    <3>1. CASE Route(c)
      BY <2>0, <3>1, OrderlyRoute DEF goal
    <3>2. CASE Reserve(c)
      BY <2>0, <3>2, OrderlyReserve DEF goal
    <3>3. CASE Publish(c) \/ Signal(c)
      BY <2>0, <3>3, OrderlyPublish DEF goal
    <3>4. CASE AppendToBlock(c)
      BY <2>0, <3>4, OrderlyAppend DEF goal
    <3>5. CASE Tail_(c)
      BY <2>0, <3>5, OrderlyTail DEF goal
    <3> QED
      BY <2>2, <3>1, <3>2, <3>3, <3>4, <3>5
  <2>3. ASSUME \/ TxLoop \/ TxConsume \/ TxDrain \/ TxPop \/ TxSkip
               \/ KillStore \/ Abort \/ KillSignal \/ DestroyIO \/ FreeBlocks \/ UNCHANGED vars
        PROVE  goal
    BY <2>0, <2>3, OrderlyQuiet DEF goal
  <2>4. ASSUME Answered \/ (RunExec /\ wb[cur.client] # 0 /\ Len(cells) # QueueSize)
        PROVE  goal
    <3>1. PICK c \in Clients : c = cur.client
      BY <2>0, BasicFacts
    <3> QED
      BY <2>0, <2>4, <3>1, OrderlyRun, OrderlyExec DEF goal
  <2>5. \/ \E c \in Clients, op \in Commands : ReadCommand(c, op)
        \/ \E c \in Clients : Route(c) \/ Reserve(c) \/ Publish(c) \/ Signal(c) \/ AppendToBlock(c)
                              \/ Tail_(c)
        \/ TxLoop \/ TxConsume \/ TxDrain \/ TxPop \/ TxSkip
        \/ KillStore \/ Abort \/ KillSignal \/ DestroyIO \/ FreeBlocks \/ UNCHANGED vars
        \/ Answered
        \/ RunExec /\ wb[cur.client] # 0 /\ Len(cells) # QueueSize
    BY StepKinds
  <2>6. (\E c \in Clients, op \in Commands : ReadCommand(c, op)) => goal
    BY <2>1
  <2>7. (\E c \in Clients : Route(c) \/ Reserve(c) \/ Publish(c) \/ Signal(c) \/ AppendToBlock(c)
                           \/ Tail_(c)) => goal
    BY <2>2
  <2>8. goal
    BY <2>3, <2>4, <2>5, <2>6, <2>7
  <2> QED
    BY <2>8 DEF goal
<1> QED
  BY <1>1, <1>2, BasicInvariant, PTL DEF Spec

(***************************************************************************)
(* A client that waits for each answer never gets two for one command: the *)
(* QUEUED of add_transaction and the result of the transaction thread      *)
(* exclude each other, whatever the threads interleave.                    *)
(***************************************************************************)
THEOREM AnsweredAtMostOnceInvariant ==
    ASSUME Pipelined = FALSE PROVE Spec => []AnsweredAtMostOnce
<1>1. OneAtATime => AnsweredAtMostOnce
  BY DEF OneAtATime, Orderly, Answers, AnsweredAtMostOnce
<1> QED
  BY <1>1, OneAtATimeInvariant, PTL

(***************************************************************************)
(* With such clients no I/O thread appends to a block that EXEC queued or  *)
(* DISCARD freed, and no freed block is in tx_queue.                       *)
(***************************************************************************)
THEOREM NoFreedBlockInvariant ==
    ASSUME Pipelined = FALSE PROVE Spec => []NoFreedBlockInUse
<1>1. OneAtATime => NoFreedBlockInUse
  <2> SUFFICES ASSUME OneAtATime PROVE NoFreedBlockInUse
    OBVIOUS
  <2>1. Basic /\ Places /\ \A c \in Clients : Flight(c) /\ OpenBlock(c)
    BY DEF OneAtATime, Orderly
  <2>2. \A c \in Clients : iopc[c] = "append" => blocks[c][ref[c]].st = "waiting"
    BY <2>1 DEF OpenBlock
  <2>3. ASSUME NEW i \in DOMAIN cells, cells[i].blk.multi # 0
        PROVE  blocks[cells[i].blk.client][cells[i].blk.multi].st = "queued"
    <3>1. cells[i].blk \in InFlight /\ cells[i].blk.client \in Clients
      BY <2>1, FlyFacts
    <3> QED
      BY <2>1, <2>3, <3>1 DEF Flight, Fly
  <2> QED
    BY <2>2, <2>3 DEF NoFreedBlockInUse
<1> QED
  BY <1>1, OneAtATimeInvariant, PTL

-----------------------------------------------------------------------------
(***************************************************************************)
(* The numbers of the commands, executed or held in a block.               *)
(***************************************************************************)

\* The commands of client c that were executed.
Done(c) == {log[k][2] : k \in {i \in DOMAIN log : log[i][1] = c}}

\* The last command of c has neither been executed nor joined a block.
Fresh(c) == iopc[c] \in Routing \/ Fly(c) # {}

\* The blocks of c that are open or in flight.
Live(c, k) == k = wb[c] \/ \E b \in Fly(c) : b.multi = k

\* The commands q of a block are in the order in which they were sent.
Listed(c, q) ==
    \A i \in DOMAIN q :
        /\ q[i] \in 1..Number(c)
        /\ Fresh(c) => q[i] # Number(c)
        /\ \A j \in DOMAIN q : i < j => q[i] < q[j]

\* They were all sent after everything that was executed.
Ahead(c, q) == \A i \in DOMAIN q, m \in Done(c) : m < q[i]

Numbers(c) ==
    /\ \A m \in Done(c) : m \in 1..Number(c) /\ (Fresh(c) => m # Number(c))
    /\ \A k \in 1..Len(blocks[c]) : /\ Listed(c, blocks[c][k].cmds)
                                    /\ Live(c, k) => Ahead(c, blocks[c][k].cmds)

\* The log grows by the commands q of client c.
LEMMA LogGrows ==
    ASSUME Basic, ExecutedInOrder, NEW c \in Clients, NEW q \in Seq(Nat),
           Len(log') = Len(log) + Len(q), log' \in Seq(Clients \X Nat),
           \A i \in 1..Len(log) : log'[i] = log[i],
           \A i \in 1..Len(q) : log'[Len(log) + i] = <<c, q[i]>>,
           \A i, j \in 1..Len(q) : i < j => q[i] < q[j],
           \A i \in 1..Len(q), m \in Done(c) : m < q[i]
    PROVE  /\ ExecutedInOrder'
           /\ Done(c)' = Done(c) \cup {q[i] : i \in 1..Len(q)}
           /\ \A d \in Clients : d # c => Done(d)' = Done(d)
<1>0. Typed
  BY ONLY Basic DEF Basic
<1>1. /\ log \in Seq(Clients \X Nat) /\ Len(log) \in Nat /\ Len(q) \in Nat
  <2>1. log \in Seq(Clients \X Nat)
    BY ONLY <1>0, TypedFacts
  <2>2. Len(log) \in Nat
    BY ONLY <2>1
  <2> QED
    BY <2>1, <2>2
<1>2. DOMAIN log = 1..Len(log) /\ DOMAIN log' = 1..(Len(log) + Len(q))
  BY <1>1
<1>3. \A i \in DOMAIN log' :
         \/ i \in DOMAIN log /\ log'[i] = log[i]
         \/ i \notin DOMAIN log /\ i - Len(log) \in 1..Len(q)
            /\ log'[i][1] = c /\ log'[i][2] = q[i - Len(log)]
  <2>1. TAKE i \in DOMAIN log'
  <2>2. CASE i \in 1..Len(log)
    BY <1>2, <2>2
  <2>3. CASE i \notin 1..Len(log)
    <3>1. i - Len(log) \in 1..Len(q) /\ Len(log) + (i - Len(log)) = i
      BY <1>1, <1>2, <2>1, <2>3
    <3>2. log'[Len(log) + (i - Len(log))] = <<c, q[i - Len(log)]>>
      BY <3>1
    <3> QED
      BY <1>2, <2>3, <3>1, <3>2
  <2> QED
    BY <2>2, <2>3
<1>4. \A i \in 1..Len(q) : Len(log) + i \in DOMAIN log' /\ log'[Len(log) + i] = <<c, q[i]>>
  BY <1>1, <1>2
<1>5. \A i \in DOMAIN log : i \in DOMAIN log' /\ log'[i] = log[i]
  BY <1>1, <1>2
<1>6. \A d : d # c => Done(d)' = Done(d)
  <2>2. ASSUME NEW d, d # c PROVE Done(d)' = Done(d)
    <3>1. ASSUME NEW m \in Done(d)' PROVE m \in Done(d)
      <4>1. PICK i \in DOMAIN log' : log'[i][1] = d /\ m = log'[i][2]
        BY <3>1 DEF Done
      <4> QED
        BY <1>3, <2>2, <4>1 DEF Done
    <3>2. ASSUME NEW m \in Done(d) PROVE m \in Done(d)'
      <4>1. PICK i \in DOMAIN log : log[i][1] = d /\ m = log[i][2]
        BY <3>2 DEF Done
      <4> QED
        BY <1>5, <4>1 DEF Done
    <3> QED
      BY <3>1, <3>2
  <2> QED
    BY <2>2
<1>7. Done(c)' = Done(c) \cup {q[i] : i \in 1..Len(q)}
  <2>1. ASSUME NEW m \in Done(c)' PROVE m \in Done(c) \cup {q[i] : i \in 1..Len(q)}
    <3>1. PICK i \in DOMAIN log' : log'[i][1] = c /\ m = log'[i][2]
      BY <2>1 DEF Done
    <3> QED
      BY <1>3, <3>1 DEF Done
  <2>2. ASSUME NEW m \in Done(c) PROVE m \in Done(c)'
    <3>1. PICK i \in DOMAIN log : log[i][1] = c /\ m = log[i][2]
      BY <2>2 DEF Done
    <3> QED
      BY <1>5, <3>1 DEF Done
  <2>3. ASSUME NEW i \in 1..Len(q) PROVE q[i] \in Done(c)'
    <3>1. Len(log) + i \in DOMAIN log' /\ log'[Len(log) + i] = <<c, q[i]>>
      BY <1>4
    <3>2. log'[Len(log) + i][1] = c /\ log'[Len(log) + i][2] = q[i]
      BY <3>1
    <3> QED
      BY <3>1, <3>2 DEF Done
  <2> QED
    BY <2>1, <2>2, <2>3
<1>8. ExecutedInOrder'
  <2> SUFFICES ASSUME NEW j \in DOMAIN log', NEW k \in DOMAIN log', j < k, log'[j][1] = log'[k][1]
               PROVE  log'[j][2] < log'[k][2]
    BY DEF ExecutedInOrder
  <2>1. CASE k \in DOMAIN log
    <3>1. j \in DOMAIN log
      BY <1>1, <1>2, <2>1
    <3> QED
      BY <1>5, <2>1, <3>1 DEF ExecutedInOrder
  <2>2. CASE k \notin DOMAIN log /\ j \in DOMAIN log
    <3>1. k - Len(log) \in 1..Len(q) /\ log'[k][1] = c /\ log'[k][2] = q[k - Len(log)]
      BY <1>3, <2>2
    <3>2. log'[j] = log[j] /\ log[j][1] = c
      BY <1>5, <2>2, <3>1
    <3>3. log[j][2] \in Done(c)
      BY <2>2, <3>2 DEF Done
    <3> QED
      BY <3>1, <3>2, <3>3
  <2>3. CASE k \notin DOMAIN log /\ j \notin DOMAIN log
    <3>1. /\ k - Len(log) \in 1..Len(q) /\ log'[k][2] = q[k - Len(log)]
          /\ j - Len(log) \in 1..Len(q) /\ log'[j][2] = q[j - Len(log)]
      BY <1>3, <2>3
    <3>2. j - Len(log) < k - Len(log)
      BY <1>1, <1>2
    <3>3. q[j - Len(log)] < q[k - Len(log)]
      BY <3>1, <3>2
    <3> QED
      BY <3>1, <3>3
  <2> QED
    BY <2>1, <2>2, <2>3
<1> QED
  BY <1>6, <1>7, <1>8

LEMMA LogSame ==
    ASSUME log' = log
    PROVE  (ExecutedInOrder => ExecutedInOrder') /\ \A d : Done(d)' = Done(d)
BY DEF ExecutedInOrder, Done

\* Steps that execute nothing, and send, open or extend nothing.
LEMMA NumbersFrame ==
    ASSUME NEW d \in Clients, Numbers(d), Number(d)' = Number(d), Done(d)' = Done(d),
           Fresh(d)' => Fresh(d), Len(blocks'[d]) = Len(blocks[d]),
           \A k \in 1..Len(blocks[d]) : /\ blocks'[d][k].cmds = blocks[d][k].cmds
                                        /\ Live(d, k)' => Live(d, k)
    PROVE  Numbers(d)'
<1>1. \A m \in Done(d)' : m \in 1..Number(d)' /\ (Fresh(d)' => m # Number(d)')
  BY DEF Numbers
<1>2. ASSUME NEW k \in 1..Len(blocks'[d])
      PROVE  Listed(d, blocks[d][k].cmds)' /\ (Live(d, k)' => Ahead(d, blocks[d][k].cmds)')
  <2>1. Listed(d, blocks[d][k].cmds) /\ (Live(d, k) => Ahead(d, blocks[d][k].cmds))
    BY DEF Numbers
  <2>2. blocks'[d][k].cmds = blocks[d][k].cmds
    OBVIOUS
  <2>3. Listed(d, blocks[d][k].cmds)'
    BY <2>1, <2>2 DEF Listed
  <2>4. Live(d, k)' => Ahead(d, blocks[d][k].cmds)'
    BY <2>1, <2>2 DEF Ahead
  <2> QED
    BY <2>3, <2>4
<1> QED
  BY <1>1, <1>2 DEF Numbers

LEMMA OthersNumbered ==
    ASSUME NEW c \in Clients, \A d \in Clients : Numbers(d), Numbers(c)',
           \A d \in Clients : d # c =>
              /\ iopc'[d] = iopc[d] /\ script'[d] = script[d] /\ wb'[d] = wb[d]
              /\ blocks'[d] = blocks[d] /\ Done(d)' = Done(d) /\ Fly(d)' \subseteq Fly(d)
    PROVE  \A d \in Clients : Numbers(d)'
<1>1. ASSUME NEW d \in Clients, d # c PROVE Numbers(d)'
  <2>1. Number(d)' = Number(d) /\ (Fresh(d)' => Fresh(d))
    BY <1>1 DEF Number, Fresh
  <2>2. \A k : Live(d, k)' => Live(d, k)
    BY <1>1 DEF Live
  <2> QED
    BY <1>1, <2>1, <2>2, NumbersFrame
<1> QED
  BY <1>1

LEMMA NumbersRead ==
    ASSUME OneAtATime, \A d \in Clients : Numbers(d), Pipelined = FALSE,
           NEW c \in Clients, NEW op \in Commands, ReadCommand(c, op)
    PROVE  \A d \in Clients : Numbers(d)'
<1>0. Basic /\ Places /\ \A d \in Clients : Orderly(d)
  BY DEF OneAtATime
<1>1. Fly(c) = {} /\ Number(c)' = Number(c) + 1
  BY <1>0, OrderlyRead
<1>2. /\ UNCHANGED <<cells, txpc, cur, wb, blocks, log>>
      /\ script' = [script EXCEPT ![c] = Append(@, op)] /\ iopc' = [iopc EXCEPT ![c] = "route"]
  BY DEF ReadCommand, IOGoto, txvars
<1>3. \A d \in Clients : d # c => iopc'[d] = iopc[d] /\ script'[d] = script[d]
  BY <1>0, <1>2, BasicFacts
<1>4. \A d : Fly(d)' = Fly(d) /\ Done(d)' = Done(d)
  BY <1>2 DEF Fly, InFlight, Done
<1>5. Number(c) \in Nat
  BY <1>0, BasicFacts
<1>6. Numbers(c)'
  <2>1. \A m \in Done(c)' : m \in 1..Number(c)' /\ (Fresh(c)' => m # Number(c)')
    BY <1>1, <1>4, <1>5 DEF Numbers
  <2>2. ASSUME NEW k \in 1..Len(blocks'[c])
        PROVE  Listed(c, blocks[c][k].cmds)' /\ (Live(c, k)' => Ahead(c, blocks[c][k].cmds)')
    <3>1. Listed(c, blocks[c][k].cmds) /\ (Live(c, k) => Ahead(c, blocks[c][k].cmds))
      BY <1>2 DEF Numbers
    <3>2. blocks'[c][k].cmds = blocks[c][k].cmds
      BY <1>2
    <3>3. Listed(c, blocks[c][k].cmds)'
      BY <1>1, <1>5, <3>1, <3>2 DEF Listed
    <3>4. Live(c, k)' => Ahead(c, blocks[c][k].cmds)'
      BY <1>2, <1>4, <3>1, <3>2 DEF Ahead, Live
    <3> QED
      BY <3>3, <3>4
  <2> QED
    BY <2>1, <2>2 DEF Numbers
<1> QED
  BY <1>2, <1>3, <1>4, <1>6, OthersNumbered

\* The other steps of an I/O thread, but for the command that joins a block.
LEMMA NumbersIO ==
    ASSUME OneAtATime, \A d \in Clients : Numbers(d), NEW c \in Clients,
           Route(c) \/ Reserve(c) \/ Publish(c) \/ Signal(c) \/ Tail_(c)
    PROVE  \A d \in Clients : Numbers(d)'
<1>0. Basic /\ Places /\ \A d \in Clients : Orderly(d)
  BY DEF OneAtATime
<1>1. UNCHANGED <<script, wb, blocks, log>>
  BY DEF Route, Reserve, Publish, Signal, Tail_, hist
<1>2. \A d \in Clients : d # c => iopc'[d] = iopc[d]
  BY <1>0, BasicFacts DEF Route, Reserve, Publish, Signal, Tail_, IOGoto
<1>3. \A d : Done(d)' = Done(d)
  BY <1>1, LogSame
<1>4. Number(c)' = Number(c)
  BY <1>1 DEF Number
<1>5. /\ Fresh(c)' => Fresh(c)
      /\ \A k \in 1..Len(blocks[c]) : Live(c, k)' => Live(c, k)
      /\ \A d \in Clients : d # c => Fly(d)' = Fly(d)
  <2>1. CASE Route(c)
    <3>1. \A d : Fly(d)' = Fly(d)
      BY <1>0, <2>1, OrderlyRoute DEF Fly
    <3> QED
      BY <1>1, <2>1, <3>1 DEF Fresh, Live, Routing, Route
  <2>2. CASE Reserve(c)
    <3> DEFINE b == [client |-> c, multi |-> 0, n |-> Number(c)]
    <3>1. Fly(c)' = {b} /\ \A d \in Clients : d # c => Fly(d)' = Fly(d)
      BY <1>0, <2>2, OrderlyReserve
    <3>2. b.multi = 0
      OBVIOUS
    <3> HIDE DEF b
    <3>3. \A k \in 1..Len(blocks[c]) : k # 0
      BY <1>0, TypedFacts DEF Basic
    <3>4. iopc[c] = "push"
      BY <2>2 DEF Reserve
    <3> QED
      BY <1>1, <3>1, <3>2, <3>3, <3>4 DEF Fresh, Live, Routing
  <2>3. CASE Publish(c) \/ Signal(c) \/ Tail_(c)
    <3>1. InFlight' = InFlight
      BY <1>0, <2>3, OrderlyPublish, OrderlyTail
    <3>2. \A d : Fly(d)' = Fly(d)
      BY <3>1 DEF Fly
    <3>3. iopc'[c] \notin Routing
      BY <1>0, <2>3, BasicFacts DEF Publish, Signal, Tail_, IOGoto, Routing
    <3> QED
      BY <1>1, <3>2, <3>3 DEF Fresh, Live
  <2> QED
    BY <2>1, <2>2, <2>3
<1>6. Numbers(c)'
  BY <1>1, <1>3, <1>4, <1>5, NumbersFrame
<1> QED
  BY <1>1, <1>2, <1>3, <1>5, <1>6, OthersNumbered

LEMMA NumbersQuiet ==
    ASSUME OneAtATime, \A d \in Clients : Numbers(d),
           \/ TxLoop \/ TxConsume \/ TxDrain \/ TxPop \/ TxSkip
           \/ KillStore \/ Abort \/ KillSignal \/ DestroyIO \/ FreeBlocks \/ UNCHANGED vars
    PROVE  \A d \in Clients : Numbers(d)'
<1>1. /\ \A d : Fly(d)' \subseteq Fly(d)
      /\ UNCHANGED <<iopc, script, wb, blocks, log>>
  BY OrderlyQuiet DEF OneAtATime
<1>2. \A d : Done(d)' = Done(d)
  BY <1>1, LogSame
<1>3. ASSUME NEW d \in Clients PROVE Numbers(d)'
  <2>1. Number(d)' = Number(d) /\ (Fresh(d)' => Fresh(d))
    BY <1>1 DEF Number, Fresh
  <2>2. \A k : Live(d, k)' => Live(d, k)
    BY <1>1 DEF Live
  <2> QED
    BY <1>1, <1>2, <2>1, <2>2, NumbersFrame
<1> QED
  BY <1>3

\* The types of a client's blocks.
LEMMA BlockFacts ==
    ASSUME Basic, NEW c \in Clients
    PROVE  /\ Len(blocks[c]) \in Nat
           /\ \A k \in 1..Len(blocks[c]) :
                 /\ blocks[c][k].cmds \in Seq(Nat) /\ Len(blocks[c][k].cmds) \in Nat
                 /\ DOMAIN blocks[c][k].cmds = 1..Len(blocks[c][k].cmds)
<1>1. blocks[c] \in Seq(MultiBlock)
  BY TypedFacts DEF Basic
<1>2. ASSUME NEW k \in 1..Len(blocks[c]) PROVE blocks[c][k].cmds \in Seq(Nat)
  <2>1. blocks[c][k] \in MultiBlock
    BY <1>1, ElementOfSeq
  <2> QED
    BY <2>1, RecordUpdates
<1> QED
  BY <1>1, <1>2

\* A command joins the open block: it is the youngest of all.
LEMMA NumbersAppend ==
    ASSUME OneAtATime, \A d \in Clients : Numbers(d), NEW c \in Clients, AppendToBlock(c)
    PROVE  \A d \in Clients : Numbers(d)'
<1>0. Basic /\ Places /\ \A d \in Clients : Orderly(d)
  BY DEF OneAtATime
<1> DEFINE r == ref[c]
           q == blocks[c][r].cmds
           N == Number(c)
<1>1. /\ UNCHANGED <<script, wb, log>> /\ iopc[c] = "append"
      /\ iopc' = [iopc EXCEPT ![c] = "tail"]
  BY DEF AppendToBlock, IOGoto, hist
<1>2. iopc'[c] = "tail" /\ \A d \in Clients : d # c => iopc'[d] = iopc[d]
  BY <1>0, <1>1, BasicFacts
<1>3. Number(c)' = N /\ N \in Nat
  BY <1>0, <1>1, BasicFacts DEF Number
<1>4. \A d : Fly(d)' = Fly(d) /\ Done(d)' = Done(d)
  BY <1>0, <1>1, OrderlyAppend, LogSame DEF Fly
<1>5. /\ \A d \in Clients : d # c => blocks'[d] = blocks[d]
      /\ Len(blocks'[c]) = Len(blocks[c]) /\ r \in 1..Len(blocks[c])
      /\ blocks'[c][r].cmds = IF blocks[c][r].st = "freed" THEN q ELSE Append(q, N)
      /\ \A j \in 1..Len(blocks[c]) : j # r => blocks'[c][j] = blocks[c][j]
  BY <1>0, AppendAdds DEF Basic
<1>6. Fresh(c) /\ Fly(c) = {} /\ r = wb[c] /\ blocks[c][r].st = "waiting"
  BY <1>0, <1>1 DEF Fresh, Routing, Orderly, OpenBlock, Flight
<1>7. ~Fresh(c)'
  BY <1>2, <1>4, <1>6 DEF Fresh, Routing
<1>8. /\ \A m \in Done(c) : m \in 1..N /\ m # N
      /\ Listed(c, q) /\ Ahead(c, q)
  BY <1>5, <1>6 DEF Numbers, Live
<1>9. q \in Seq(Nat) /\ Len(q) \in Nat /\ DOMAIN q = 1..Len(q)
  BY <1>0, <1>5, BlockFacts
<1>10. blocks'[c][r].cmds = Append(q, N)
  BY <1>5, <1>6
<1>11. ASSUME NEW u \in Seq(Nat), NEW n \in Nat
       PROVE  /\ DOMAIN Append(u, n) = 1..(Len(u) + 1) /\ Append(u, n)[Len(u) + 1] = n
              /\ \A i \in 1..Len(u) : Append(u, n)[i] = u[i]
  BY AppendProperties
<1>12. 1 <= N
  <2>1. acks[c] + 1 = N /\ acks[c] \in Nat
    BY <1>0, <1>1, BasicFacts DEF Orderly, Answers, Routing
  <2> QED
    BY <1>3, <2>1
<1>13. PICK p : p = Append(q, N)
  OBVIOUS
<1>14. \A i \in DOMAIN q : q[i] \in 1..N /\ q[i] # N /\ \A j \in DOMAIN q : i < j => q[i] < q[j]
  BY <1>6, <1>8 DEF Listed
<1>15. \A i \in DOMAIN q, m \in Done(c) : m < q[i]
  BY <1>8 DEF Ahead
<1> HIDE DEF q, N, r
<1>16. DOMAIN p = 1..(Len(q) + 1) /\ (\A i \in 1..Len(q) : p[i] = q[i]) /\ p[Len(q) + 1] = N
  BY <1>3, <1>9, <1>11, <1>13
<1>17. \A i \in 1..Len(q) : p[i] \in 1..N /\ p[i] < N /\ \A j \in 1..Len(q) : i < j => p[i] < p[j]
  <2>1. \A x \in 1..N : x # N => x < N
    BY <1>3
  <2> QED
    BY <1>9, <1>14, <1>16, <2>1
<1>18. \A i \in DOMAIN p : p[i] \in 1..N /\ \A j \in DOMAIN p : i < j => p[i] < p[j]
  <2>1. TAKE i \in DOMAIN p
  <2>2. CASE i \in 1..Len(q)
    <3>1. ASSUME NEW j \in DOMAIN p, i < j PROVE p[i] < p[j]
      <4>1. CASE j \in 1..Len(q)
        BY <1>17, <2>2, <3>1, <4>1
      <4>2. CASE j = Len(q) + 1
        BY <1>16, <1>17, <2>2, <4>2
      <4> QED
        BY <1>9, <1>16, <4>1, <4>2
    <3> QED
      BY <1>17, <2>2, <3>1
  <2>3. CASE i = Len(q) + 1
    BY <1>3, <1>9, <1>12, <1>16, <2>3
  <2> QED
    BY <1>9, <1>16, <2>2, <2>3
<1>19. \A i \in DOMAIN p, m \in Done(c) : m < p[i]
  <2>1. TAKE i \in DOMAIN p, m \in Done(c)
  <2>2. CASE i \in 1..Len(q)
    BY <1>9, <1>15, <1>16, <2>2
  <2>3. CASE i = Len(q) + 1
    BY <1>3, <1>8, <1>16, <2>3
  <2> QED
    BY <1>9, <1>16, <2>2, <2>3
<1>20. Listed(c, p)' /\ Ahead(c, p)'
  BY <1>3, <1>4, <1>7, <1>18, <1>19 DEF Listed, Ahead
<1>21. Numbers(c)'
  <2>1. \A m \in Done(c)' : m \in 1..Number(c)' /\ (Fresh(c)' => m # Number(c)')
    BY <1>3, <1>4, <1>7, <1>8
  <2>2. ASSUME NEW k \in 1..Len(blocks'[c]), NEW x, x = blocks'[c][k].cmds
        PROVE  Listed(c, x)' /\ (Live(c, k)' => Ahead(c, x)')
    <3>1. CASE k = r
      BY <1>10, <1>13, <1>20, <2>2, <3>1
    <3>2. CASE k # r
      <4>1. k \in 1..Len(blocks[c]) /\ x = blocks[c][k].cmds
        BY <1>5, <2>2, <3>2
      <4>2. Listed(c, x) /\ (Live(c, k) => Ahead(c, x))
        BY <4>1 DEF Numbers
      <4>3. Live(c, k)' => Live(c, k)
        BY <1>1, <1>4 DEF Live
      <4> QED
        BY <1>3, <1>4, <1>7, <4>2, <4>3 DEF Listed, Ahead, N
    <3> QED
      BY <3>1, <3>2
  <2> QED
    BY <2>1, <2>2 DEF Numbers
<1> QED
  BY <1>1, <1>2, <1>4, <1>5, <1>21, OthersNumbered

\* Commands of c were executed, and no block of c is left open or in flight.
LEMMA NumbersExecuted ==
    ASSUME NEW c \in Clients, Numbers(c), NEW S, \A m \in S : m \in 1..Number(c),
           Number(c)' = Number(c), Done(c)' = Done(c) \cup S, ~Fresh(c)',
           Len(blocks'[c]) = Len(blocks[c]),
           \A k \in 1..Len(blocks[c]) : blocks'[c][k].cmds = blocks[c][k].cmds /\ ~Live(c, k)'
    PROVE  Numbers(c)'
<1>1. \A m \in Done(c)' : m \in 1..Number(c)' /\ (Fresh(c)' => m # Number(c)')
  BY DEF Numbers
<1>2. ASSUME NEW k \in 1..Len(blocks'[c]), NEW x, x = blocks'[c][k].cmds
      PROVE  Listed(c, x)' /\ (Live(c, k)' => Ahead(c, x)')
  <2>1. Listed(c, x)
    BY <1>2 DEF Numbers
  <2> QED
    BY <2>1 DEF Listed
<1> QED
  BY <1>1, <1>2 DEF Numbers

\* A command is executed alone, or all commands of a block.
LEMMA NumbersLogged ==
    ASSUME OneAtATime, ExecutedInOrder, \A d \in Clients : Numbers(d),
           NEW c \in Clients, c = cur.client, RunOp \/ RunBlock
    PROVE  /\ ExecutedInOrder' /\ \A d \in Clients : Numbers(d)'
           /\ \A d \in Clients : d # c => Done(d)' = Done(d)
           /\ RunOp => Done(c)' = Done(c) \cup {Number(c)}
           /\ RunBlock => /\ \A m \in Done(c)' : m \in Done(c) \/ m \in 1..(Number(c) - 1)
                          /\ Number(c) \in Nat
<1>0. Basic /\ Places /\ \A d \in Clients : Orderly(d)
  BY DEF OneAtATime
<1>1. /\ txpc = "run" /\ UNCHANGED <<iopc, script, wb>> /\ Answered
  BY DEF RunOp, RunBlock, Running, Finish, Answered
<1>2. /\ cur \in Fly(c) /\ iopc[c] \notin Routing /\ Number(c) \in Nat /\ 1 <= Number(c)
      /\ cur.multi = 0 => cur.n = Number(c) /\ script[c][cur.n] = Command(c)
                          /\ (Command(c) \notin WaitingTx => wb[c] = 0)
      /\ cur.multi # 0 => wb[c] = 0
  <2>1. acks[c] \in Nat /\ Number(c) \in Nat /\ acks[c] + 1 = Number(c)
    BY <1>0, <1>1, RunFacts
  <2>2. 1 <= Number(c)
    BY <2>1
  <2> QED
    BY <1>0, <1>1, <2>2, RunFacts
<1>3. Fly(c)' = {} /\ \A d \in Clients : d # c => Fly(d)' = Fly(d)
  BY <1>0, <1>1, OrderlyRun
<1>4. Number(c)' = Number(c) /\ ~Fresh(c)' /\ Fresh(c)
  BY <1>1, <1>2, <1>3 DEF Number, Fresh
<1>5. wb[c] = 0
  BY <1>2 DEF RunOp, RunBlock, Running, WaitingTx
<1>6. Len(blocks[c]) \in Nat /\ \A k \in 1..Len(blocks[c]) : ~Live(c, k)'
  <2>1. Len(blocks[c]) \in Nat
    BY <1>0, BlockFacts
  <2> QED
    BY <1>1, <1>3, <1>5, <2>1 DEF Live
<1>7. ASSUME NEW q \in Seq(Nat), log' \in Seq(Clients \X Nat), Len(log') = Len(log) + Len(q),
             \A i \in 1..Len(log) : log'[i] = log[i],
             \A i \in 1..Len(q) : log'[Len(log) + i] = <<c, q[i]>>,
             \A i, j \in 1..Len(q) : i < j => q[i] < q[j],
             \A i \in 1..Len(q), m \in Done(c) : m < q[i],
             \A i \in 1..Len(q) : q[i] \in 1..Number(c),
             \A d \in Clients : d # c => blocks'[d] = blocks[d],
             Len(blocks'[c]) = Len(blocks[c]),
             \A k \in 1..Len(blocks[c]) : blocks'[c][k].cmds = blocks[c][k].cmds
      PROVE  /\ ExecutedInOrder' /\ \A d \in Clients : Numbers(d)'
             /\ \A d \in Clients : d # c => Done(d)' = Done(d)
             /\ Done(c)' = Done(c) \cup {q[i] : i \in 1..Len(q)}
  <2>1. /\ ExecutedInOrder' /\ Done(c)' = Done(c) \cup {q[i] : i \in 1..Len(q)}
        /\ \A d \in Clients : d # c => Done(d)' = Done(d)
    BY <1>0, <1>7, LogGrows
  <2>2. Numbers(c)'
    <3>1. \A m \in {q[i] : i \in 1..Len(q)} : m \in 1..Number(c)
      BY <1>7
    <3> HIDE DEF Numbers
    <3> QED
      BY <1>4, <1>6, <1>7, <2>1, <3>1, NumbersExecuted
  <2>3. \A d \in Clients : Numbers(d)'
    BY <1>1, <1>3, <1>7, <2>1, <2>2, OthersNumbered
  <2> QED
    BY <2>1, <2>3
<1>8. CASE RunOp
  <2> DEFINE q == <<Number(c)>>
  <2>1. log' = Append(log, <<c, Number(c)>>) /\ blocks' = blocks
    BY <1>2, <1>8 DEF RunOp, Running
  <2>2. log \in Seq(Clients \X Nat) /\ Len(log) \in Nat /\ <<c, Number(c)>> \in Clients \X Nat
    BY <1>0, <1>2, TypedFacts DEF Basic
  <2>3. /\ log' \in Seq(Clients \X Nat) /\ Len(log') = Len(log) + 1
        /\ \A i \in 1..Len(log) : log'[i] = log[i]
        /\ log'[Len(log) + 1] = <<c, Number(c)>>
    BY <2>1, <2>2, AppendProperties
  <2>4. q \in Seq(Nat) /\ Len(q) = 1 /\ q[1] = Number(c) /\ \A i \in 1..1 : i = 1
    BY <1>2
  <2>5. \A m \in Done(c) : m < Number(c)
    BY <1>2, <1>4 DEF Numbers
  <2>6. {q[i] : i \in 1..Len(q)} = {Number(c)}
    BY <2>4
  <2>7. ~RunBlock
    BY <1>8 DEF RunOp, Running, RunBlock
  <2> HIDE DEF q
  <2>8. /\ ExecutedInOrder' /\ \A d \in Clients : Numbers(d)'
        /\ \A d \in Clients : d # c => Done(d)' = Done(d)
        /\ Done(c)' = Done(c) \cup {q[i] : i \in 1..Len(q)}
    <3>1. \A i \in 1..Len(q) : log'[Len(log) + i] = <<c, q[i]>>
      BY <2>3, <2>4
    <3>2. /\ \A i, j \in 1..Len(q) : ~(i < j)
          /\ \A i \in 1..Len(q), m \in Done(c) : m < q[i]
          /\ \A i \in 1..Len(q) : q[i] \in 1..Number(c)
      BY <1>2, <2>4, <2>5
    <3> QED
      BY <1>7, <2>1, <2>3, <2>4, <3>1, <3>2
  <2> QED
    BY <2>6, <2>7, <2>8
<1>9. CASE RunBlock
  <2> DEFINE k == cur.multi
             q == blocks[c][k].cmds
  <2>1. /\ \A d \in Clients : d # c => blocks'[d] = blocks[d]
        /\ Len(blocks'[c]) = Len(blocks[c]) /\ k \in 1..Len(blocks[c])
        /\ blocks'[c][k] = [st |-> "freed", cmds |-> q]
        /\ \A j \in 1..Len(blocks[c]) : j # k => blocks'[c][j] = blocks[c][j]
    BY <1>0, <1>9, RunBlockFrees DEF Basic
  <2>2. \A j \in 1..Len(blocks[c]) : blocks'[c][j].cmds = blocks[c][j].cmds
    BY <2>1
  <2>3. log' = log \o Executed(c, k)
    BY <1>9 DEF RunBlock, Executed
  <2>4. /\ Executed(c, k) \in Seq(Clients \X Nat) /\ Len(Executed(c, k)) = Len(q)
        /\ Len(q) \in Nat /\ q \in Seq(Nat)
        /\ \A i \in 1..Len(q) : Executed(c, k)[i] = <<c, q[i]>>
    BY <1>0, <2>1, ExecutedTyped DEF Basic
  <2>5. DOMAIN q = 1..Len(q)
    BY <1>0, <2>1, BlockFacts
  <2>6. Listed(c, q) /\ Ahead(c, q)
    BY <1>2, <2>1 DEF Numbers, Live
  <2>7. /\ \A i \in DOMAIN q : q[i] \in 1..Number(c) /\ q[i] # Number(c)
        /\ \A i, j \in DOMAIN q : i < j => q[i] < q[j]
        /\ \A i \in DOMAIN q, m \in Done(c) : m < q[i]
    BY <1>4, <2>6 DEF Listed, Ahead
  <2>8. log \in Seq(Clients \X Nat) /\ Len(log) \in Nat
    BY <1>0, TypedFacts DEF Basic
  <2> HIDE DEF k, q
  <2>9. /\ log' \in Seq(Clients \X Nat) /\ Len(log') = Len(log) + Len(q)
        /\ \A i \in 1..Len(log) : log'[i] = log[i]
        /\ \A i \in 1..Len(q) : log'[Len(log) + i] = <<c, q[i]>>
    <3> DEFINE e == Executed(c, k)
    <3>0. e \in Seq(Clients \X Nat) /\ Len(e) = Len(q) /\ log' = log \o e
          /\ \A i \in 1..Len(q) : e[i] = <<c, q[i]>>
      BY <2>3, <2>4
    <3> HIDE DEF e
    <3>1. /\ log' \in Seq(Clients \X Nat) /\ Len(log') = Len(log) + Len(q)
          /\ \A i \in 1..(Len(log) + Len(q)) :
                log'[i] = IF i <= Len(log) THEN log[i] ELSE e[i - Len(log)]
      <4> DEFINE S == Clients \X Nat
      <4> HIDE DEF S
      <4>1. e \in Seq(S) /\ log \in Seq(S)
        BY <2>8, <3>0 DEF S
      <4>2. /\ log \o e \in Seq(S) /\ Len(log \o e) = Len(log) + Len(e)
            /\ \A i \in 1..(Len(log) + Len(e)) :
                  (log \o e)[i] = IF i <= Len(log) THEN log[i] ELSE e[i - Len(log)]
        BY <4>1, ConcatProperties
      <4> QED
        BY <3>0, <4>2 DEF S
    <3>2. \A i \in 1..Len(log) : i \in 1..(Len(log) + Len(q)) /\ i <= Len(log)
      BY <2>4, <2>8
    <3>3. \A i \in 1..Len(q) : /\ Len(log) + i \in 1..(Len(log) + Len(q)) /\ ~(Len(log) + i <= Len(log))
                               /\ Len(log) + i - Len(log) = i
      BY <2>4, <2>8
    <3>4. \A i \in 1..Len(q) : log'[Len(log) + i] = e[i]
      BY <3>1, <3>3
    <3> QED
      BY <3>0, <3>1, <3>2, <3>4
  <2>10. /\ ExecutedInOrder' /\ \A d \in Clients : Numbers(d)'
         /\ \A d \in Clients : d # c => Done(d)' = Done(d)
         /\ Done(c)' = Done(c) \cup {q[i] : i \in 1..Len(q)}
    BY <1>7, <2>1, <2>2, <2>4, <2>5, <2>7, <2>9
  <2>11. \A i \in 1..Len(q) : q[i] \in 1..(Number(c) - 1)
    BY <1>2, <2>5, <2>7
  <2>12. ~RunOp
    BY <1>9 DEF RunOp, Running, RunBlock
  <2> QED
    BY <1>2, <2>10, <2>11, <2>12
<1> QED
  BY <1>8, <1>9

\* MULTI, EXEC and DISCARD execute nothing.
LEMMA NumbersControl ==
    ASSUME OneAtATime, \A d \in Clients : Numbers(d), NEW c \in Clients, c = cur.client,
           RunMulti \/ RunExec \/ RunDiscard
    PROVE  \A d \in Clients : Numbers(d)'
<1>0. Basic /\ Places /\ \A d \in Clients : Orderly(d)
  BY DEF OneAtATime
<1>1. /\ txpc = "run" /\ UNCHANGED <<iopc, script, log>>
  BY DEF RunMulti, RunExec, RunDiscard, Running, Finish
<1>2. cur \in Fly(c) /\ iopc[c] \notin Routing
  BY <1>0, <1>1, RunFacts
<1>3. Number(c)' = Number(c) /\ Fresh(c) /\ \A d : Done(d)' = Done(d)
  BY <1>1, <1>2, LogSame DEF Number, Fresh
<1>4. Len(blocks[c]) \in Nat /\ wb[c] \in Nat
  BY <1>0, BlockFacts, BasicFacts
<1>5. CASE Answered
  <2>1. Fly(c)' = {} /\ \A d \in Clients : d # c => Fly(d)' = Fly(d)
    BY <1>0, <1>5, OrderlyRun
  <2>2. ~Fresh(c)'
    BY <1>1, <1>2, <2>1 DEF Fresh
  <2>3. CASE UNCHANGED <<wb, blocks>>
    <3>1. \A k : Live(c, k)' => Live(c, k)
      BY <2>1, <2>3 DEF Live
    <3>2. Numbers(c)'
      BY <1>3, <2>2, <2>3, <3>1, NumbersFrame
    <3> QED
      BY <1>1, <1>3, <2>1, <2>3, <3>2, OthersNumbered
  <2>4. CASE RunMulti /\ wb[c] = 0
    <3> DEFINE L == Len(blocks[c])
    <3>1. /\ \A d \in Clients : d # c => blocks'[d] = blocks[d]
          /\ Len(blocks'[c]) = L + 1
          /\ blocks'[c][L + 1] = [st |-> "waiting", cmds |-> <<>>]
          /\ \A j \in 1..L : blocks'[c][j] = blocks[c][j]
          /\ wb' = [wb EXCEPT ![c] = L + 1]
      BY <1>0, <2>4, MultiOpens DEF Basic
    <3>2. wb'[c] = L + 1 /\ \A d \in Clients : d # c => wb'[d] = wb[d]
      BY <1>0, <3>1, BasicFacts
    <3>3. Numbers(c)'
      <4>1. \A m \in Done(c)' : m \in 1..Number(c)' /\ (Fresh(c)' => m # Number(c)')
        BY <1>3, <2>2 DEF Numbers
      <4>2. ASSUME NEW k \in 1..Len(blocks'[c]), NEW x, x = blocks'[c][k].cmds
            PROVE  Listed(c, x)' /\ (Live(c, k)' => Ahead(c, x)')
        <5>1. CASE k = L + 1
          <6>1. x = <<>>
            BY <3>1, <4>2, <5>1
          <6>2. DOMAIN x = {}
            BY <6>1
          <6> QED
            BY <6>2 DEF Listed, Ahead
        <5>2. CASE k # L + 1
          <6>1. k \in 1..L
            BY <1>4, <3>1, <5>2
          <6>2. Listed(c, x) /\ ~Live(c, k)'
            BY <2>1, <3>1, <3>2, <4>2, <5>2, <6>1 DEF Numbers, Live
          <6> QED
            BY <1>3, <2>2, <6>2 DEF Listed
        <5> QED
          BY <5>1, <5>2
      <4> QED
        BY <4>1, <4>2 DEF Numbers
    <3> QED
      BY <1>1, <1>3, <2>1, <3>1, <3>2, <3>3, OthersNumbered
  <2>5. CASE RunDiscard /\ wb[c] # 0
    <3>1. /\ \A d \in Clients : d # c => blocks'[d] = blocks[d]
          /\ Len(blocks'[c]) = Len(blocks[c]) /\ wb[c] \in 1..Len(blocks[c])
          /\ blocks'[c][wb[c]] = [st |-> IF RunDiscard THEN "freed" ELSE "queued",
                                  cmds |-> blocks[c][wb[c]].cmds]
          /\ \A j \in 1..Len(blocks[c]) : j # wb[c] => blocks'[c][j] = blocks[c][j]
          /\ wb' = [wb EXCEPT ![c] = 0]
      BY <1>0, <2>5, OpenBlockLeaves DEF Basic
    <3>2. wb'[c] = 0 /\ \A d \in Clients : d # c => wb'[d] = wb[d]
      BY <1>0, <3>1, BasicFacts
    <3>3. \A k \in 1..Len(blocks[c]) : blocks'[c][k].cmds = blocks[c][k].cmds
      BY <3>1
    <3>4. \A k \in 1..Len(blocks[c]) : ~Live(c, k)'
      BY <1>4, <2>1, <3>2 DEF Live
    <3>5. Numbers(c)'
      BY <1>3, <2>2, <3>1, <3>3, <3>4, NumbersFrame
    <3> QED
      BY <1>1, <1>3, <2>1, <3>1, <3>2, <3>5, OthersNumbered
  <2> QED
    BY <1>5, <2>3, <2>4, <2>5 DEF Answered, RunMulti, RunExec, RunDiscard, RunOp, RunBlock, Running
<1>6. CASE RunExec /\ wb[c] # 0 /\ Len(cells) # QueueSize
  <2> DEFINE b == [client |-> c, multi |-> wb[c], n |-> 0]
  <2>1. Fly(c)' = {b} /\ \A d \in Clients : d # c => Fly(d)' = Fly(d)
    BY <1>0, <1>6, OrderlyExec
  <2>2. b.multi = wb[c]
    OBVIOUS
  <2> HIDE DEF b
  <2>3. /\ \A d \in Clients : d # c => blocks'[d] = blocks[d]
        /\ Len(blocks'[c]) = Len(blocks[c]) /\ wb[c] \in 1..Len(blocks[c])
        /\ blocks'[c][wb[c]] = [st |-> IF RunDiscard THEN "freed" ELSE "queued",
                                cmds |-> blocks[c][wb[c]].cmds]
        /\ \A j \in 1..Len(blocks[c]) : j # wb[c] => blocks'[c][j] = blocks[c][j]
        /\ wb' = [wb EXCEPT ![c] = 0]
    BY <1>0, <1>6, OpenBlockLeaves DEF Basic
  <2>4. wb'[c] = 0 /\ \A d \in Clients : d # c => wb'[d] = wb[d]
    BY <1>0, <2>3, BasicFacts
  <2>5. \A k \in 1..Len(blocks[c]) : blocks'[c][k].cmds = blocks[c][k].cmds
    BY <2>3
  <2>6. \A k \in 1..Len(blocks[c]) : Live(c, k)' => Live(c, k)
    BY <1>4, <2>1, <2>2, <2>4 DEF Live
  <2>7. Numbers(c)'
    BY <1>3, <2>3, <2>5, <2>6, NumbersFrame
  <2> QED
    BY <1>1, <1>3, <2>1, <2>3, <2>4, <2>7, OthersNumbered
<1> QED
  BY <1>5, <1>6 DEF Answered

\* The order of the executed commands, with what it rests on.
Sequenced == ExecutedInOrder /\ \A c \in Clients : Numbers(c)

\* RunOp and RunBlock are the only steps that write the log.
LEMMA SequencedStep ==
    ASSUME Pipelined = FALSE, OneAtATime, Sequenced, [Next]_vars
    PROVE  Sequenced'
<1>0. ExecutedInOrder /\ \A d \in Clients : Numbers(d)
  BY DEF Sequenced
<1>1. ASSUME NEW c \in Clients, NEW op \in Commands, ReadCommand(c, op) PROVE Sequenced'
  <2>1. log' = log
    BY <1>1 DEF ReadCommand
  <2> QED
    BY <1>0, <1>1, <2>1, NumbersRead, LogSame DEF Sequenced
<1>2. ASSUME NEW c \in Clients,
             Route(c) \/ Reserve(c) \/ Publish(c) \/ Signal(c) \/ AppendToBlock(c) \/ Tail_(c)
      PROVE  Sequenced'
  <2>1. log' = log
    BY <1>2 DEF Route, Reserve, Publish, Signal, AppendToBlock, Tail_, hist
  <2>2. CASE AppendToBlock(c)
    BY <1>0, <2>1, <2>2, NumbersAppend, LogSame DEF Sequenced
  <2>3. CASE Route(c) \/ Reserve(c) \/ Publish(c) \/ Signal(c) \/ Tail_(c)
    BY <1>0, <2>1, <2>3, NumbersIO, LogSame DEF Sequenced
  <2> QED
    BY <1>2, <2>2, <2>3
<1>3. ASSUME \/ TxLoop \/ TxConsume \/ TxDrain \/ TxPop \/ TxSkip
             \/ KillStore \/ Abort \/ KillSignal \/ DestroyIO \/ FreeBlocks \/ UNCHANGED vars
      PROVE  Sequenced'
  <2>1. log' = log
    BY <1>3, OrderlyQuiet DEF OneAtATime
  <2> QED
    BY <1>0, <1>3, <2>1, NumbersQuiet, LogSame DEF Sequenced
<1>4. ASSUME RunOp \/ RunMulti \/ RunExec \/ RunDiscard \/ RunBlock PROVE Sequenced'
  <2>1. PICK c \in Clients : c = cur.client
    BY BasicFacts DEF OneAtATime
  <2>2. CASE RunOp \/ RunBlock
    BY <1>0, <2>1, <2>2, NumbersLogged DEF Sequenced
  <2>3. CASE RunMulti \/ RunExec \/ RunDiscard
    <3>1. log' = log
      BY <2>3 DEF RunMulti, RunExec, RunDiscard
    <3> QED
      BY <1>0, <2>1, <2>3, <3>1, NumbersControl, LogSame DEF Sequenced
  <2> QED
    BY <1>4, <2>2, <2>3
<1> QED
  BY <1>1, <1>2, <1>3, <1>4, StepKinds DEF Answered

LEMMA SequencedInvariant == ASSUME Pipelined = FALSE PROVE Spec => []Sequenced
<1>1. Init => Sequenced
  <2> SUFFICES ASSUME Init PROVE Sequenced
    OBVIOUS
  <2>1. log = <<>> /\ \A c \in Clients : blocks[c] = <<>>
    BY DEF Init
  <2>2. ExecutedInOrder /\ \A c \in Clients : Done(c) = {}
    BY <2>1 DEF ExecutedInOrder, Done
  <2>3. \A c \in Clients : 1..Len(blocks[c]) = {}
    BY <2>1
  <2> QED
    BY <2>2, <2>3 DEF Sequenced, Numbers
<1>2. OneAtATime /\ Sequenced /\ [Next]_vars => Sequenced'
  BY SequencedStep
<1> QED
  BY <1>1, <1>2, OneAtATimeInvariant, PTL DEF Spec

(***************************************************************************)
(* The commands of a client that waits for each answer are executed in the *)
(* order in which it sent them and none twice, alone or inside a block.    *)
(***************************************************************************)
THEOREM ExecutedInOrderInvariant ==
    ASSUME Pipelined = FALSE PROVE Spec => []ExecutedInOrder
<1>1. Sequenced => ExecutedInOrder
  BY DEF Sequenced
<1> QED
  BY <1>1, SequencedInvariant, PTL

-----------------------------------------------------------------------------
(***************************************************************************)
(* Commands wait for EXEC.                                                 *)
(***************************************************************************)
LEMMA HasMax ==
    ASSUME NEW n \in Nat, NEW S \in SUBSET (1..n), S # {}
    PROVE  \E i \in S : \A j \in S : j <= i
<1> DEFINE T == {n - i : i \in S}
           R == OpToRel(<, Nat)
<1> HIDE DEF R
<1>1. T \subseteq Nat /\ T # {}
  <2>1. \A i \in S : n - i \in Nat
    OBVIOUS
  <2>2. PICK i \in S : TRUE
    OBVIOUS
  <2>3. n - i \in T
    BY <2>2
  <2> QED
    BY <2>1, <2>3
<1>2. IsWellFoundedOn(R, Nat)
  BY NatLessThanWellFounded DEF R
<1>3. PICK x \in T : \A y \in T : ~(<<y, x>> \in R)
  <2> HIDE DEF T
  <2> QED
    BY <1>1, <1>2, WFMin
<1>4. \A y \in T : ~(y < x)
  BY <1>1, <1>3 DEF R, OpToRel
<1>5. PICK i \in S : x = n - i
  BY <1>3
<1>6. \A j \in S : ~(n - j < n - i)
  BY <1>4, <1>5
<1>7. i \in 1..n /\ \A j \in S : j \in 1..n
  BY <1>5
<1> QED
  BY <1>6, <1>7

\* The control commands that were sent before command n.
Controls(c, n) == {i \in 1..(n - 1) : script[c][i] \in WaitingTx}

LEMMA LastControlIs ==
    ASSUME NEW c \in Clients, NEW n \in Nat
    PROVE  /\ Controls(c, n) = {} => LastControl(c, n) = "OP"
           /\ \A i \in Controls(c, n) :
                 (\A j \in Controls(c, n) : j <= i) => LastControl(c, n) = script[c][i]
           /\ Controls(c, n) # {} => \E i \in Controls(c, n) : \A j \in Controls(c, n) : j <= i
<1> DEFINE B == Controls(c, n)
<1>1. LastControl(c, n) = IF B = {} THEN "OP"
                          ELSE script[c][CHOOSE i \in B : \A j \in B : j <= i]
  BY DEF LastControl, Controls
<1>2. B \in SUBSET (1..n) /\ B \subseteq Nat
  BY DEF Controls
<1> HIDE DEF B
<1>3. B # {} => \E i \in B : \A j \in B : j <= i
  BY <1>2, HasMax
<1>4. ASSUME NEW i \in B, \A j \in B : j <= i PROVE (CHOOSE k \in B : \A j \in B : j <= k) = i
  <2> DEFINE k == CHOOSE k \in B : \A j \in B : j <= k
  <2>1. k \in B /\ \A j \in B : j <= k
    BY <1>4
  <2> HIDE DEF k
  <2>2. k = i
    BY <1>2, <1>4, <2>1
  <2> QED
    BY <2>2 DEF k
<1>5. ASSUME NEW i \in B, \A j \in B : j <= i PROVE LastControl(c, n) = script[c][i]
  BY <1>1, <1>4, <1>5
<1> QED
  BY <1>1, <1>3, <1>5 DEF B

\* One command later.
LEMMA LastControlNext ==
    ASSUME NEW c \in Clients, NEW n \in Nat, 1 <= n
    PROVE  LastControl(c, n + 1) = IF script[c][n] \in WaitingTx THEN script[c][n]
                                   ELSE LastControl(c, n)
<1>1. \A i : i \in Controls(c, n + 1) <=> i \in Controls(c, n) \/ (i = n /\ script[c][n] \in WaitingTx)
  BY DEF Controls
<1>2. \A i \in Controls(c, n) : i < n /\ i \in Nat
  BY DEF Controls
<1>3. CASE script[c][n] \in WaitingTx
  <2>1. n \in Controls(c, n + 1) /\ \A j \in Controls(c, n + 1) : j <= n
    BY <1>1, <1>2, <1>3
  <2>2. LastControl(c, n + 1) = script[c][n]
    BY <2>1, LastControlIs
  <2> QED
    BY <1>3, <2>2
<1>4. CASE script[c][n] \notin WaitingTx
  <2>1. Controls(c, n + 1) = Controls(c, n)
    BY <1>1, <1>4
  <2>2. LastControl(c, n + 1) = LastControl(c, n)
    <3> DEFINE last(B) == IF B = {} THEN "OP" ELSE script[c][CHOOSE i \in B : \A j \in B : j <= i]
    <3>1. /\ LastControl(c, n + 1) = last(Controls(c, n + 1))
          /\ LastControl(c, n) = last(Controls(c, n))
      BY Zenon DEF LastControl, Controls
    <3> HIDE DEF last
    <3> QED
      BY <2>1, <3>1
  <2> QED
    BY <1>4, <2>2
<1> QED
  BY <1>3, <1>4

\* A command that is read changes nothing of what was sent before it.
LEMMA LastControlKept ==
    ASSUME Basic, NEW c \in Clients, NEW op \in Commands, script'[c] = Append(script[c], op),
           NEW n \in Nat, n <= Number(c) + 1
    PROVE  LastControl(c, n)' = LastControl(c, n)
<1>1. script[c] \in Seq(Commands) /\ Number(c) \in Nat
  BY BasicFacts
<1>2. \A i \in 1..Number(c) : script'[c][i] = script[c][i]
  <2>1. \A i \in 1..Len(script[c]) : Append(script[c], op)[i] = script[c][i]
    BY <1>1, AppendProperties
  <2> QED
    BY <2>1 DEF Number
<1>3. \A i \in 1..(n - 1) : script'[c][i] = script[c][i]
  <2>1. \A i \in 1..(n - 1) : i \in 1..Number(c)
    BY <1>1
  <2> QED
    BY <1>2, <2>1
<1>4. Controls(c, n)' = Controls(c, n)
  BY <1>3 DEF Controls
<1>5. LastControl(c, n) = IF Controls(c, n) = {} THEN "OP"
                          ELSE script[c][CHOOSE i \in Controls(c, n) : \A j \in Controls(c, n) : j <= i]
  BY DEF LastControl, Controls
<1>6. LastControl(c, n)' = IF Controls(c, n)' = {} THEN "OP"
                           ELSE script'[c][CHOOSE i \in Controls(c, n)' : \A j \in Controls(c, n)' : j <= i]
  BY DEF LastControl, Controls
<1>7. CASE Controls(c, n) = {}
  BY <1>4, <1>5, <1>6, <1>7
<1>8. CASE Controls(c, n) # {}
  <2> DEFINE k == CHOOSE i \in Controls(c, n) : \A j \in Controls(c, n) : j <= i
  <2>1. k \in Controls(c, n)
    BY <1>8, LastControlIs
  <2>2. k \in 1..(n - 1)
    BY <2>1 DEF Controls
  <2>3. script'[c][k] = script[c][k]
    BY <1>3, <2>2
  <2> QED
    BY <1>4, <1>5, <1>6, <1>8, <2>3
<1> QED
  BY <1>7, <1>8

\* LastControl as a function of what was sent.
LastOf(q, n) ==
    LET before == {i \in 1..(n - 1) : q[i] \in WaitingTx}
    IN  IF before = {} THEN "OP"
        ELSE q[CHOOSE i \in before : \A j \in before : j <= i]

LEMMA LastControlOf ==
    ASSUME NEW c
    PROVE  /\ \A n : LastControl(c, n) = LastOf(script[c], n)
           /\ \A n : LastControl(c, n)' = LastOf(script'[c], n)
           /\ LastControl(c, Number(c))' = LastOf(script'[c], Number(c)')
           /\ LastControl(c, Number(c) + 1)' = LastOf(script'[c], Number(c)' + 1)
BY Zenon DEF LastControl, LastOf

\* EXEC was sent after command m.
Followed(c, m) == \E i \in (m + 1)..Number(c) : script[c][i] = "EXEC"

\* A block of one command is in flight.
Direct(c) == \E b \in Fly(c) : b.multi = 0

\* The process is over, in order or not.
Ended == mainpc \in {"done", "aborted"}

\* No executed command is still held; and no command that is on its way alone,
\* or will be sent next, is held, unless a block is open.
Held(c) ==
    /\ \A m \in Done(c) : LastControl(c, m) = "MULTI" => Followed(c, m)
    /\ wb[c] = 0 /\ ~Ended =>
          /\ iopc[c] \in Routing \/ Direct(c) => LastControl(c, Number(c)) # "MULTI"
          /\ ~Fresh(c) => LastControl(c, Number(c) + 1) # "MULTI"

\* Steps that read no command.
LEMMA HeldKept ==
    ASSUME NEW c \in Clients, Held(c), script'[c] = script[c],
           \A m \in Done(c)' : m \in Done(c) \/ Followed(c, m) \/ LastControl(c, m) # "MULTI",
           wb'[c] = 0 /\ ~Ended' =>
              /\ iopc'[c] \in Routing \/ Direct(c)' => LastControl(c, Number(c)) # "MULTI"
              /\ ~Fresh(c)' => LastControl(c, Number(c) + 1) # "MULTI"
    PROVE  Held(c)'
<1>1. Number(c)' = Number(c)
  BY DEF Number
<1>2. \A m : LastControl(c, m)' = LastControl(c, m)
  BY LastControlOf
<1>3. \A m : Followed(c, m)' = Followed(c, m)
  BY <1>1 DEF Followed
<1>4. \A m \in Done(c)' : LastControl(c, m)' = "MULTI" => Followed(c, m)'
  <2>1. ASSUME NEW m \in Done(c)', LastControl(c, m)' = "MULTI" PROVE Followed(c, m)'
    <3>1. LastControl(c, m) = "MULTI"
      BY <1>2, <2>1
    <3>2. Followed(c, m)
      BY <2>1, <3>1 DEF Held
    <3> QED
      BY <1>3, <3>2
  <2> QED
    BY <2>1
<1>5. /\ LastControl(c, Number(c))' = LastControl(c, Number(c))
      /\ LastControl(c, Number(c) + 1)' = LastControl(c, Number(c) + 1)
  BY <1>1, LastControlOf
<1> QED
  BY <1>4, <1>5 DEF Held

\* Clients that a step does not touch.
LEMMA OthersHeld ==
    ASSUME NEW c \in Clients, \A d \in Clients : Held(d), Held(c)', Ended => Ended',
           \A d \in Clients : d # c =>
              /\ iopc'[d] = iopc[d] /\ script'[d] = script[d] /\ wb'[d] = wb[d]
              /\ Done(d)' = Done(d) /\ Fly(d)' = Fly(d)
    PROVE  \A d \in Clients : Held(d)'
<1>1. ASSUME NEW d \in Clients, d # c PROVE Held(d)'
  <2>1. Fresh(d)' = Fresh(d) /\ Direct(d)' = Direct(d)
    BY <1>1 DEF Fresh, Direct
  <2>2. wb'[d] = 0 /\ ~Ended' =>
           /\ iopc'[d] \in Routing \/ Direct(d)' => LastControl(d, Number(d)) # "MULTI"
           /\ ~Fresh(d)' => LastControl(d, Number(d) + 1) # "MULTI"
    BY <1>1, <2>1 DEF Held
  <2> QED
    BY <1>1, <2>2, HeldKept
<1> QED
  BY <1>1

LEMMA HeldRead ==
    ASSUME OneAtATime, \A d \in Clients : Numbers(d), \A d \in Clients : Held(d), Pipelined = FALSE,
           NEW c \in Clients, NEW op \in Commands, ReadCommand(c, op)
    PROVE  \A d \in Clients : Held(d)'
<1>0. Basic /\ Places /\ \A d \in Clients : Orderly(d)
  BY DEF OneAtATime
<1>1. Fly(c) = {} /\ Number(c)' = Number(c) + 1
  BY <1>0, OrderlyRead
<1>2. /\ UNCHANGED <<cells, txpc, cur, wb, blocks, log, mainpc>> /\ iopc[c] = "idle"
      /\ script' = [script EXCEPT ![c] = Append(@, op)] /\ iopc' = [iopc EXCEPT ![c] = "route"]
  BY DEF ReadCommand, IOGoto, txvars
<1>3. /\ iopc'[c] = "route" /\ script'[c] = Append(script[c], op)
      /\ \A d \in Clients : d # c => iopc'[d] = iopc[d] /\ script'[d] = script[d]
  BY <1>0, <1>2, BasicFacts
<1>4. \A d : Fly(d)' = Fly(d) /\ Done(d)' = Done(d)
  BY <1>2 DEF Fly, InFlight, Done
<1>5. Number(c) \in Nat /\ script[c] \in Seq(Commands)
  BY <1>0, BasicFacts
<1>6. \A i \in 1..Number(c) : script'[c][i] = script[c][i]
  <2>1. \A i \in 1..Len(script[c]) : Append(script[c], op)[i] = script[c][i]
    BY <1>5, AppendProperties
  <2> QED
    BY <1>3, <2>1 DEF Number
<1>7. Held(c)'
  <2>1. ASSUME NEW m \in Done(c)', LastControl(c, m)' = "MULTI" PROVE Followed(c, m)'
    <3>1. m \in Done(c) /\ m \in Nat /\ m <= Number(c) + 1
      BY <1>4, <1>5, <2>1 DEF Numbers
    <3>2. LastControl(c, m) = "MULTI"
      BY <1>0, <1>3, <2>1, <3>1, LastControlKept
    <3>3. PICK i \in (m + 1)..Number(c) : script[c][i] = "EXEC"
      BY <3>1, <3>2 DEF Held, Followed
    <3>4. i \in 1..Number(c) /\ i \in (m + 1)..(Number(c) + 1)
      BY <1>5, <3>1, <3>3
    <3>5. script'[c][i] = "EXEC"
      BY <1>6, <3>3, <3>4
    <3> QED
      BY <1>1, <3>4, <3>5 DEF Followed
  <2>2. Fresh(c)' /\ ~Fresh(c)
    BY <1>1, <1>2, <1>3 DEF Fresh, Routing
  <2>3. wb[c] = 0 /\ ~Ended => LastControl(c, Number(c))' # "MULTI"
    <3>1. wb[c] = 0 /\ ~Ended => LastControl(c, Number(c) + 1) # "MULTI"
      BY <2>2 DEF Held
    <3>2. PICK n \in Nat : n = Number(c) + 1
      BY <1>5
    <3>3. LastControl(c, n)' = LastControl(c, n)
      BY <1>0, <1>3, <1>5, <3>2, LastControlKept
    <3>4. LastControl(c, Number(c))' = LastControl(c, n)'
      BY <1>1, <3>2, LastControlOf
    <3> QED
      BY <3>1, <3>2, <3>3, <3>4
  <2> QED
    BY <1>2, <2>1, <2>2, <2>3 DEF Held, Ended
<1>8. Ended' = Ended
  BY <1>2 DEF Ended
<1> QED
  BY <1>2, <1>3, <1>4, <1>7, <1>8, OthersHeld

LEMMA HeldIO ==
    ASSUME OneAtATime, \A d \in Clients : Held(d), NEW c \in Clients,
           Route(c) \/ Reserve(c) \/ Publish(c) \/ Signal(c) \/ AppendToBlock(c) \/ Tail_(c)
    PROVE  \A d \in Clients : Held(d)'
<1>0. Basic /\ Places /\ \A d \in Clients : Orderly(d)
  BY DEF OneAtATime
<1>1. UNCHANGED <<script, wb, log, mainpc>>
  BY DEF Route, Reserve, Publish, Signal, AppendToBlock, Tail_, hist
<1>2. \A d \in Clients : d # c => iopc'[d] = iopc[d]
  BY <1>0, BasicFacts DEF Route, Reserve, Publish, Signal, AppendToBlock, Tail_, IOGoto
<1>3. \A d : Done(d)' = Done(d)
  BY <1>1, LogSame
<1>4. /\ wb'[c] = 0 => /\ (iopc'[c] \in Routing \/ Direct(c)' => iopc[c] \in Routing \/ Direct(c))
                       /\ (~Fresh(c)' => ~Fresh(c))
      /\ \A d \in Clients : d # c => Fly(d)' = Fly(d)
  <2>1. CASE Route(c)
    <3>1. \A d : Fly(d)' = Fly(d)
      BY <1>0, <2>1, OrderlyRoute DEF Fly
    <3>2. iopc[c] \in Routing /\ iopc'[c] \in Routing
      BY <1>0, <2>1, BasicFacts DEF Route, IOGoto, Routing
    <3> QED
      BY <3>1, <3>2 DEF Fresh
  <2>2. CASE Reserve(c)
    <3>1. Fly(c)' # {} /\ \A d \in Clients : d # c => Fly(d)' = Fly(d)
      BY <1>0, <2>2, OrderlyReserve
    <3>2. iopc[c] \in Routing
      BY <2>2 DEF Reserve, Routing
    <3> QED
      BY <3>1, <3>2 DEF Fresh
  <2>3. CASE Publish(c) \/ Signal(c) \/ Tail_(c)
    <3>1. InFlight' = InFlight
      BY <1>0, <2>3, OrderlyPublish, OrderlyTail
    <3>2. \A d : Fly(d)' = Fly(d)
      BY <3>1 DEF Fly
    <3>3. iopc'[c] \notin Routing /\ iopc[c] \notin Routing
      BY <1>0, <2>3, BasicFacts DEF Publish, Signal, Tail_, IOGoto, Routing
    <3> QED
      BY <3>2, <3>3 DEF Fresh, Direct
  <2>4. CASE AppendToBlock(c)
    <3>1. \A d : Fly(d)' = Fly(d)
      BY <1>0, <2>4, OrderlyAppend DEF Fly
    <3>2. wb'[c] # 0
      BY <1>0, <1>1, <2>4 DEF Orderly, OpenBlock, AppendToBlock
    <3> QED
      BY <3>1, <3>2
  <2> QED
    BY <2>1, <2>2, <2>3, <2>4
<1>5. wb'[c] = 0 /\ ~Ended' =>
         /\ iopc'[c] \in Routing \/ Direct(c)' => LastControl(c, Number(c)) # "MULTI"
         /\ ~Fresh(c)' => LastControl(c, Number(c) + 1) # "MULTI"
  BY <1>1, <1>4 DEF Held, Ended
<1>6. Held(c)'
  BY <1>1, <1>3, <1>5, HeldKept
<1>7. Ended' = Ended
  BY <1>1 DEF Ended
<1> QED
  BY <1>1, <1>2, <1>3, <1>4, <1>6, <1>7, OthersHeld

LEMMA HeldQuiet ==
    ASSUME OneAtATime, \A d \in Clients : Held(d),
           \/ TxLoop \/ TxConsume \/ TxDrain \/ TxPop \/ TxSkip
           \/ KillStore \/ Abort \/ KillSignal \/ DestroyIO \/ FreeBlocks \/ UNCHANGED vars
    PROVE  \A d \in Clients : Held(d)'
<1>1. InFlight' = InFlight \/ mainpc' = "done"
  BY OrderlyQuiet DEF OneAtATime
<1>2. UNCHANGED <<iopc, script, wb, log>>
  BY OrderlyQuiet DEF OneAtATime
<1>3. Ended => Ended'
  BY DEF Ended, TxLoop, TxConsume, TxDrain, TxPop, TxSkip, KillStore, Abort, KillSignal, DestroyIO, FreeBlocks, vars
<1>4. \A d : Done(d)' = Done(d)
  BY <1>2, LogSame
<1>5. ASSUME NEW d \in Clients PROVE Held(d)'
  <2>1. mainpc' # "done" => Fresh(d)' = Fresh(d) /\ Direct(d)' = Direct(d)
    BY <1>1, <1>2 DEF Fresh, Direct, Fly
  <2>2. wb'[d] = 0 /\ ~Ended' =>
           /\ iopc'[d] \in Routing \/ Direct(d)' => LastControl(d, Number(d)) # "MULTI"
           /\ ~Fresh(d)' => LastControl(d, Number(d) + 1) # "MULTI"
    BY <1>2, <1>3, <2>1 DEF Held, Ended
  <2> QED
    BY <1>2, <1>4, <2>2, HeldKept
<1> QED
  BY <1>5

\* What the transaction thread executes.
LEMMA HeldRun ==
    ASSUME OneAtATime, Sequenced, \A d \in Clients : Held(d), NEW c \in Clients, c = cur.client,
           RunOp \/ RunMulti \/ RunExec \/ RunDiscard \/ RunBlock
    PROVE  \A d \in Clients : Held(d)'
<1>0. Basic /\ Places /\ \A d \in Clients : Orderly(d)
  BY DEF OneAtATime
<1> DEFINE N == Number(c)
<1>1. txpc = "run" /\ UNCHANGED <<iopc, script, mainpc>>
  BY DEF RunOp, RunMulti, RunExec, RunDiscard, RunBlock, Running, Finish
<1>2. /\ cur \in Fly(c) /\ iopc[c] \notin Routing /\ N \in Nat /\ 1 <= N
      /\ cur.multi = 0 => script[c][cur.n] = Command(c) /\ (Command(c) \notin WaitingTx => wb[c] = 0)
      /\ cur.multi # 0 => Command(c) = "EXEC"
  <2>1. acks[c] \in Nat /\ N \in Nat /\ acks[c] + 1 = N
    BY <1>0, <1>1, RunFacts
  <2>2. 1 <= N
    BY <2>1
  <2> QED
    BY <1>0, <1>1, <2>2, RunFacts
<1>3. ~Ended /\ ~Ended'
  BY <1>0, <1>1 DEF Basic, Phases, Ended
<1>4. LastControl(c, N + 1) = IF Command(c) \in WaitingTx THEN Command(c) ELSE LastControl(c, N)
  BY <1>2, LastControlNext DEF Command
<1>5. \A d \in Clients : d # c => wb'[d] = wb[d] /\ Fly(d)' = Fly(d) /\ Done(d)' = Done(d)
  <2>1. \A d \in Clients : d # c => Fly(d)' = Fly(d)
    BY <1>0, OrderlyRun, OrderlyExec DEF Answered
  <2>2. \A d \in Clients : d # c => Done(d)' = Done(d)
    <3>1. CASE RunOp \/ RunBlock
      BY <3>1, NumbersLogged DEF Sequenced
    <3>2. CASE RunMulti \/ RunExec \/ RunDiscard
      <4>1. log' = log
        BY <3>2 DEF RunMulti, RunExec, RunDiscard
      <4> QED
        BY <4>1, LogSame
    <3> QED
      BY <3>1, <3>2
  <2>3. wb' = wb \/ \E n : wb' = [wb EXCEPT ![c] = n]
    BY DEF RunOp, RunMulti, RunExec, RunDiscard, RunBlock
  <2> QED
    BY <1>0, <2>1, <2>2, <2>3, BasicFacts
<1>6. Held(c)'
  <2>1. CASE RunOp
    <3>1. Command(c) = "OP" /\ wb' = wb /\ Direct(c) /\ Answered
      BY <1>2, <2>1 DEF RunOp, Running, Direct, Answered
    <3>2. wb[c] = 0
      BY <1>2, <2>1, <3>1 DEF WaitingTx, RunOp, Running
    <3>3. LastControl(c, N) # "MULTI" /\ LastControl(c, N + 1) # "MULTI"
      BY <1>3, <1>4, <3>1, <3>2 DEF Held, WaitingTx
    <3>4. Done(c)' = Done(c) \cup {N}
      BY <2>1, NumbersLogged DEF Sequenced
    <3> QED
      BY <1>1, <3>3, <3>4, HeldKept
  <2>2. CASE RunMulti
    <3>1. log' = log /\ wb'[c] # 0
      <4>1. CASE wb[c] = 0
        <5>1. wb' = [wb EXCEPT ![c] = Len(blocks[c]) + 1]
          BY <1>0, <2>2, <4>1, MultiOpens DEF Basic
        <5>2. Len(blocks[c]) \in Nat
          BY <1>0, BlockFacts
        <5>3. wb'[c] = Len(blocks[c]) + 1
          BY <1>0, <5>1, BasicFacts
        <5> QED
          BY <2>2, <5>2, <5>3 DEF RunMulti
      <4>2. CASE wb[c] # 0
        BY <2>2, <4>2 DEF RunMulti
      <4> QED
        BY <4>1, <4>2
    <3>2. Done(c)' = Done(c)
      BY <3>1, LogSame
    <3> QED
      BY <1>1, <3>1, <3>2, HeldKept
  <2>3. CASE RunExec \/ RunDiscard
    <3>1. log' = log /\ Command(c) \in {"EXEC", "DISCARD"}
      BY <1>2, <2>3 DEF RunExec, RunDiscard, Running
    <3>2. LastControl(c, N + 1) # "MULTI"
      BY <1>4, <3>1 DEF WaitingTx
    <3>3. Done(c)' = Done(c)
      BY <3>1, LogSame
    <3>4. ~Direct(c)' \/ wb'[c] # 0
      <4>1. CASE Answered
        BY <1>0, <4>1, OrderlyRun DEF Direct
      <4>2. CASE RunExec /\ wb[c] # 0 /\ Len(cells) # QueueSize
        <5> DEFINE b == [client |-> c, multi |-> wb[c], n |-> 0]
        <5>1. Fly(c)' = {b}
          BY <1>0, <4>2, OrderlyExec
        <5>2. b.multi # 0
          BY <4>2
        <5> HIDE DEF b
        <5> QED
          BY <5>1, <5>2 DEF Direct
      <4> QED
        BY <2>3, <4>1, <4>2 DEF Answered
    <3> QED
      BY <1>1, <1>2, <3>2, <3>3, <3>4, HeldKept
  <2>4. CASE RunBlock
    <3>1. Command(c) = "EXEC" /\ Answered
      BY <1>2, <2>4 DEF RunBlock, Answered
    <3>2. LastControl(c, N + 1) # "MULTI"
      BY <1>4, <3>1 DEF WaitingTx
    <3>3. \A m \in Done(c)' : m \in Done(c) \/ m \in 1..(N - 1)
      BY <2>4, NumbersLogged DEF Sequenced
    <3>4. \A m \in 1..(N - 1) : Followed(c, m)
      <4>1. \A m \in 1..(N - 1) : N \in (m + 1)..N
        BY <1>2
      <4> QED
        BY <3>1, <4>1 DEF Followed, Command
    <3>5. ~Direct(c)'
      BY <1>0, <3>1, OrderlyRun DEF Direct
    <3> QED
      BY <1>1, <1>2, <3>2, <3>3, <3>4, <3>5, HeldKept
  <2> QED
    BY <2>1, <2>2, <2>3, <2>4
<1> QED
  BY <1>1, <1>3, <1>5, <1>6, OthersHeld

LEMMA HeldStep ==
    ASSUME Pipelined = FALSE, OneAtATime, Sequenced, \A d \in Clients : Held(d), [Next]_vars
    PROVE  \A d \in Clients : Held(d)'
<1>1. ASSUME NEW c \in Clients, NEW op \in Commands, ReadCommand(c, op)
      PROVE  \A d \in Clients : Held(d)'
  BY <1>1, HeldRead DEF Sequenced
<1>2. ASSUME NEW c \in Clients,
             Route(c) \/ Reserve(c) \/ Publish(c) \/ Signal(c) \/ AppendToBlock(c) \/ Tail_(c)
      PROVE  \A d \in Clients : Held(d)'
  BY <1>2, HeldIO
<1>3. ASSUME \/ TxLoop \/ TxConsume \/ TxDrain \/ TxPop \/ TxSkip
             \/ KillStore \/ Abort \/ KillSignal \/ DestroyIO \/ FreeBlocks \/ UNCHANGED vars
      PROVE  \A d \in Clients : Held(d)'
  BY <1>3, HeldQuiet
<1>4. ASSUME RunOp \/ RunMulti \/ RunExec \/ RunDiscard \/ RunBlock
      PROVE  \A d \in Clients : Held(d)'
  <2>1. PICK c \in Clients : c = cur.client
    BY BasicFacts DEF OneAtATime
  <2> QED
    BY <1>4, <2>1, HeldRun
<1> QED
  BY <1>1, <1>2, <1>3, <1>4, StepKinds DEF Answered

(***************************************************************************)
(* What a client sends between MULTI and EXEC is not executed before it    *)
(* has sent EXEC, for clients that wait for each answer.                   *)
(***************************************************************************)
THEOREM HeldUntilExecInvariant ==
    ASSUME Pipelined = FALSE PROVE Spec => []HeldUntilExec
<1> DEFINE AllHeld == \A c \in Clients : Held(c)
<1>1. Init => AllHeld
  <2> SUFFICES ASSUME Init, NEW c \in Clients PROVE Held(c)
    OBVIOUS
  <2>1. log = <<>> /\ script[c] = <<>> /\ cells = <<>> /\ txpc = "loop" /\ iopc[c] = "idle"
    BY DEF Init
  <2>2. Done(c) = {} /\ Fly(c) = {}
    BY <2>1 DEF Done, Fly, InFlight
  <2>3. Number(c) = 0
    BY <2>1 DEF Number
  <2>4. Controls(c, 1) = {}
    BY DEF Controls
  <2>5. LastControl(c, 1) = "OP"
    BY <2>4, LastControlIs
  <2> QED
    BY <2>1, <2>2, <2>3, <2>5 DEF Held, Direct, Routing
<1>2. OneAtATime /\ Sequenced /\ AllHeld /\ [Next]_vars => AllHeld'
  BY HeldStep
<1>3. Basic /\ AllHeld => HeldUntilExec
  <2> SUFFICES ASSUME Basic, AllHeld, NEW k \in DOMAIN log,
                      LastControl(log[k][1], log[k][2]) = "MULTI"
               PROVE  \E i \in (log[k][2] + 1)..Number(log[k][1]) : script[log[k][1]][i] = "EXEC"
    BY DEF HeldUntilExec
  <2>1. log \in Seq(Clients \X Nat)
    BY TypedFacts DEF Basic
  <2>2. log[k] \in Clients \X Nat
    BY <2>1
  <2>3. PICK c \in Clients : c = log[k][1]
    BY <2>2
  <2>4. log[k][2] \in Done(c)
    BY <2>3 DEF Done
  <2> QED
    BY <2>3, <2>4 DEF Held, Followed
<1> HIDE DEF AllHeld
<1> QED
  BY <1>1, <1>2, <1>3, BasicInvariant, OneAtATimeInvariant, SequencedInvariant, PTL DEF Spec
=============================================================================
