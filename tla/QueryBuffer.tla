---------------------------- MODULE QueryBuffer ----------------------------
(***************************************************************************)
(* The query buffer of a client: what read_command (server/read_command.c) *)
(* reads from the socket and take_n_bytes (resp/take.h) hands to the       *)
(* parser, and the reference count by which queued transactions share it,  *)
(* as their arguments point into it.                                       *)
(*                                                                         *)
(* The I/O thread of one client runs read_command while the transaction    *)
(* thread releases transactions; in which order it does is the subject of  *)
(* TxPipeline, here any may be next.  A command is a few pieces, each what *)
(* one TAKE_BYTES asks for; sizes are counted in pieces and an argument    *)
(* lies in every piece.                                                    *)
(***************************************************************************)
EXTENDS Integers, Sequences, FiniteSets

CONSTANTS
    Buffers,      \* memory for QueryBuffer objects (bound: a leak keeps one)
    BufSize,      \* RESP_BUF_SIZE
    MaxLen,       \* bound: pieces of a command
    MaxCommands   \* bound: commands the peer sends

ASSUME QueryAssumption ==
    /\ IsFiniteSet(Buffers) /\ Buffers # {}
    /\ BufSize \in Nat \ {0} /\ MaxLen \in Nat \ {0} /\ MaxCommands \in Nat

VARIABLES
    socket,    \* pieces that have arrived
    rest,      \* pieces of the last command that are still on their way
    sent,      \* commands sent so far
    hung,      \* the peer has closed the connection
    edge,      \* an event for the main thread
    jobs,      \* READ jobs of the I/O thread
    buf,       \* the objects: [live, refs, size]
    mine,      \* client->read_buf
    cells,     \* what the read has put into it
    at,        \* how much of that the parser has taken
    ending,    \* size was set to -1
    command,   \* the command being parsed or routed
    txs,       \* transactions that are not yet released
    pc,        \* where the I/O thread is in read_command
    asked      \* a TERMINATE job is queued

peer   == <<socket, rest, sent, hung, edge, jobs>>
parser == <<cells, at, ending, command>>
vars   == <<peer, buf, mine, parser, txs, pc, asked>>

\* A piece opens its command, is in the middle or completes it; or it is what a
\* short read leaves, of which the parser may make anything.
Piece == [first : BOOLEAN, last : BOOLEAN, junk : BOOLEAN]
Junk  == [first |-> FALSE, last |-> FALSE, junk |-> TRUE]
Pieces(n) == [i \in 1..n |-> [first |-> i = 1, last |-> i = n, junk |-> FALSE]]

\* `arg`: the buffer its arguments point into, from cell `from` on; `tail`: it
\* was parsed last out of a full buffer.
NoCommand == [n |-> 0, arg |-> mine, from |-> 0, tail |-> FALSE, args |-> "intact"]

Init ==
    /\ socket = << >> /\ rest = << >> /\ sent = 0
    /\ hung = FALSE /\ edge = FALSE /\ jobs = 0
    /\ \E b \in Buffers :
         /\ mine = b
         /\ buf = [x \in Buffers |-> [live |-> x = b, refs |-> IF x = b THEN 1 ELSE 0,
                                      size |-> BufSize]]
    /\ cells = << >> /\ at = 0 /\ ending = FALSE
    /\ command = NoCommand
    /\ txs = {}
    /\ pc = "idle" /\ asked = FALSE

-----------------------------------------------------------------------------
(* The peer, whose bytes may be cut anywhere on the way, and the main thread. *)

Connected == ~hung /\ pc # "gone"

Send(n, k) ==
    /\ Connected /\ rest = << >> /\ sent < MaxCommands
    /\ sent' = sent + 1
    /\ socket' = socket \o SubSeq(Pieces(n), 1, k)
    /\ rest' = SubSeq(Pieces(n), k + 1, n)
    /\ edge' = TRUE
    /\ UNCHANGED <<hung, jobs, buf, mine, parser, txs, pc, asked>>

Arrive ==
    /\ Connected /\ rest # << >>
    /\ socket' = socket \o rest /\ rest' = << >>
    /\ edge' = TRUE
    /\ UNCHANGED <<sent, hung, jobs, buf, mine, parser, txs, pc, asked>>

HangUp ==
    /\ Connected
    /\ hung' = TRUE /\ rest' = << >> /\ edge' = TRUE
    /\ UNCHANGED <<socket, sent, jobs, buf, mine, parser, txs, pc, asked>>

\* handle_events.
Event ==
    /\ edge /\ pc # "gone"
    /\ edge' = FALSE /\ jobs' = jobs + 1
    /\ asked' = (asked \/ hung)
    /\ UNCHANGED <<socket, rest, sent, hung, buf, mine, parser, txs, pc>>

-----------------------------------------------------------------------------
(* read_command: a buffer that no transaction points into. *)

\* Seeded fault: a transaction alone is not reckoned with.
SharedByMore(b) == buf[b].refs > 2

Shared(b) == buf[b].refs > 1

ReadStart ==
    /\ pc = "idle" /\ jobs > 0
    /\ jobs' = jobs - 1
    /\ pc' = IF Shared(mine) THEN "unshare" ELSE "read"
    /\ UNCHANGED <<socket, rest, sent, hung, edge, buf, mine, parser, txs, asked>>

\* Seeded fault: the old buffer is left without giving up its reference.
LeaveKept(b) ==
    /\ buf' = [buf EXCEPT ![b] = [live |-> TRUE, refs |-> 1, size |-> BufSize]]
    /\ mine' = b

\* The reference is given up after it was tested: if it was the last one by now,
\* nobody frees the buffer.
Leave(b) ==
    /\ buf' = [buf EXCEPT ![b] = [live |-> TRUE, refs |-> 1, size |-> BufSize],
                          ![mine].refs = @ - 1]
    /\ mine' = b

Unshare ==
    /\ pc \in {"unshare", "reunshare"}
    /\ \E b \in Buffers : ~buf[b].live /\ Leave(b)
    /\ pc' = IF pc = "unshare" THEN "read" ELSE "reread"
    /\ UNCHANGED <<peer, parser, txs, asked>>

\* Arguments that are in the first n cells of the buffer are written over.
Overwritten(t, n) ==
    IF t.arg = mine /\ t.from <= n /\ t.args = "intact" THEN [t EXCEPT !.args = "lost"] ELSE t

\* read_from_socket into the whole buffer, at the start and when it was full.  It
\* returns what there is, which may be nothing; at the end of file also an error.
Read ==
    /\ pc \in {"read", "reread"}
    /\ LET n == IF Len(socket) < buf[mine].size THEN Len(socket) ELSE buf[mine].size
       IN  /\ cells' = SubSeq(socket, 1, n)
           /\ socket' = SubSeq(socket, n + 1, Len(socket))
           /\ at' = 0
           /\ txs' = {Overwritten(t, n) : t \in txs}
           /\ command' = IF pc = "read" THEN [NoCommand EXCEPT !.from = 1]
                                        ELSE Overwritten(command, n)
           /\ \E error \in IF n = 0 /\ hung THEN BOOLEAN ELSE {FALSE} :
                /\ ending' = (error /\ pc = "reread")
                /\ asked' = (asked \/ (pc = "read" /\ n = 0 /\ ~error))
                /\ pc' = IF pc = "reread" THEN "route" ELSE IF n = 0 THEN "idle" ELSE "take"
    /\ UNCHANGED <<rest, sent, hung, edge, jobs, buf, mine>>

-----------------------------------------------------------------------------
(* get_command_data, a piece at a time. *)

\* What the parser makes of a piece: the command is not complete, it is, or it
\* is not a command.
Outcomes(p) ==
    IF p.junk THEN {"more", "done", "bad"}
    ELSE IF p.first # (command.n = 0) THEN {"bad"}
    ELSE IF p.last THEN {"done"} ELSE {"more"}

\* A parse error only goes back to the loop's head; a command that ends a buffer
\* ends the loop, unless the buffer is full.
Taken(p, size) ==
    \E outcome \in Outcomes(p) :
        /\ at' = at + 1
        /\ command' = CASE outcome = "more" -> [command EXCEPT !.n = @ + 1, !.arg = mine]
                        [] outcome = "done" -> [command EXCEPT !.n = @ + 1, !.arg = mine,
                                                  !.tail = at' = size /\ size = buf'[mine].size]
                        [] outcome = "bad"  -> [NoCommand EXCEPT !.from = at' + 1]
        /\ ending' = (outcome = "done" /\ at' = size /\ size # buf'[mine].size)
        /\ pc' = IF outcome # "done" THEN "take"
                 ELSE IF ~command'.tail THEN "route"
                 ELSE IF Shared(mine) THEN "reunshare" ELSE "reread"

Take ==
    /\ pc = "take" /\ at < Len(cells)
    /\ UNCHANGED buf
    /\ Taken(cells[at + 1], Len(cells))
    /\ UNCHANGED <<peer, mine, cells, txs, asked>>

\* realloc, if the piece does not fit: the block may move, and what points into
\* it is not told.
Moved(t) == IF t.arg = mine /\ t.args = "intact" THEN [t EXCEPT !.args = "moved"] ELSE t

Grown ==
    IF Len(cells) < buf[mine].size THEN UNCHANGED <<buf, txs>>
    ELSE /\ buf' = [buf EXCEPT ![mine].size = Len(cells) + 1]
         /\ \E moves \in BOOLEAN : txs' = IF moves THEN {Moved(t) : t \in txs} ELSE txs

\* The piece is read from the socket; of a cut piece a part may be there, which
\* is taken for the whole (bound: once for each piece).
TakeMore ==
    /\ pc = "take" /\ at = Len(cells)
    /\ Grown
    /\ \/ /\ socket # << >>
          /\ socket' = Tail(socket) /\ UNCHANGED rest
          /\ cells' = Append(cells, Head(socket))
          /\ Taken(Head(socket), Len(cells) + 1)
       \/ /\ socket = << >> /\ rest # << >> /\ ~Head(rest).junk
          /\ rest' = <<Junk>> \o Tail(rest) /\ UNCHANGED socket
          /\ cells' = Append(cells, Junk)
          /\ Taken(Junk, Len(cells) + 1)
    /\ UNCHANGED <<sent, hung, edge, jobs, mine, asked>>

\* There is nothing to read: the command is given up, and the loop goes on.
TakeNothing ==
    /\ pc = "take" /\ at = Len(cells) /\ socket = << >>
    /\ Grown
    /\ command' = [NoCommand EXCEPT !.from = at + 1]
    /\ UNCHANGED <<peer, mine, cells, at, ending, pc, asked>>

-----------------------------------------------------------------------------
(* The rest of the loop's body. *)

\* The locals of read_command end with it.
Return ==
    /\ pc' = "idle"
    /\ cells' = << >> /\ at' = 0 /\ ending' = FALSE
    /\ command' = [NoCommand EXCEPT !.arg = mine]

Looped ==
    \/ ending /\ Return
    \/ /\ ~ending
       /\ pc' = "take" /\ command' = [NoCommand EXCEPT !.from = at + 1]
       /\ UNCHANGED <<cells, at, ending>>

\* Seeded fault: a transaction does not count as a user of the buffer.
PrepareUncounted(b) == UNCHANGED buf

\* prepare_transaction: the reference is to the buffer the client has now.
Prepare(b) == buf' = [buf EXCEPT ![b].refs = @ + 1]

NewId == CHOOSE i \in 1..(Cardinality(txs) + 1) : \A t \in txs : t.id # i

RouteQueued ==
    /\ pc = "route"
    /\ Prepare(mine)
    /\ txs' = txs \cup {[id |-> NewId, arg |-> command.arg, from |-> command.from,
                         tail |-> command.tail, args |-> command.args, held |-> mine]}
    /\ Looped
    /\ UNCHANGED <<peer, mine, asked>>

\* The client is locked, or there is no such command.
RouteRefused ==
    /\ pc = "route"
    /\ Looped
    /\ UNCHANGED <<peer, buf, mine, txs, asked>>

\* Out of memory: read_command returns, whatever is still in the buffer.
RouteFails ==
    /\ pc = "route"
    /\ Return
    /\ UNCHANGED <<peer, buf, mine, txs, asked>>

-----------------------------------------------------------------------------
(* Release of the references. *)

Freed(b, t) == IF t.arg = b /\ t.args = "intact" THEN [t EXCEPT !.args = "lost"] ELSE t

\* What is behind a reference that is given up: freed with the last one.
Drop(b, left) ==
    /\ buf' = [buf EXCEPT ![b].refs = @ - 1, ![b].live = buf[b].refs # 1]
    /\ IF buf[b].refs = 1
       THEN txs' = {Freed(b, t) : t \in left} /\ command' = Freed(b, command)
       ELSE txs' = left /\ UNCHANGED command

\* remove_transaction_block.
Release(t) ==
    /\ Drop(t.held, txs \ {t})
    /\ UNCHANGED <<peer, mine, cells, at, ending, pc, asked>>

\* terminate_connection, by the I/O thread itself: free_client.  (CLIENT KILL frees
\* the buffer from the transaction thread, in the middle of read_command too; what
\* happens to a thread that goes on with freed memory is left out.)
Terminate ==
    /\ pc = "idle" /\ asked
    /\ Drop(mine, txs)
    /\ pc' = "gone"
    /\ UNCHANGED <<peer, mine, cells, at, ending, asked>>

Next ==
    \/ \E n \in 1..MaxLen : \E k \in 1..n : Send(n, k)
    \/ Arrive \/ HangUp \/ Event
    \/ ReadStart \/ Unshare \/ Read
    \/ Take \/ TakeMore \/ TakeNothing
    \/ RouteQueued \/ RouteRefused \/ RouteFails
    \/ \E t \in txs : Release(t)
    \/ Terminate

Spec == Init /\ [][Next]_vars

\* The I/O thread and the transaction thread go on as long as they can.
Reader == ReadStart \/ Unshare \/ Read \/ Take \/ TakeMore \/ TakeNothing
          \/ RouteQueued \/ RouteRefused \/ RouteFails
FairSpec == Spec /\ WF_vars(Reader) /\ WF_vars(\E t \in txs : Release(t))

-----------------------------------------------------------------------------
(* Properties. *)

Parsed == [n : Nat, arg : Buffers, from : Nat, tail : BOOLEAN,
           args : {"intact", "lost", "moved"}]

TypeOK ==
    /\ socket \in Seq(Piece) /\ rest \in Seq(Piece)
    /\ sent \in 0..MaxCommands /\ hung \in BOOLEAN /\ edge \in BOOLEAN /\ jobs \in Nat
    /\ buf \in [Buffers -> [live : BOOLEAN, refs : Nat, size : Nat]]
    /\ mine \in Buffers
    /\ cells \in Seq(Piece) /\ at \in 0..Len(cells) /\ ending \in BOOLEAN
    /\ command \in Parsed
    /\ \A t \in txs : t.held \in Buffers /\ t.arg \in Buffers
    /\ pc \in {"idle", "unshare", "read", "take", "reunshare", "reread", "route", "gone"}
    /\ asked \in BOOLEAN

\* Every reference is counted exactly once, and what is referred to exists: though
\* read_command tests the count and gives its reference up in two steps, while
\* remove_transaction_block gives up others, no buffer is freed too early or twice.
ReferencesCounted ==
    \A b \in Buffers :
        LET users == Cardinality({t \in txs : t.held = b})
                     + (IF mine = b /\ pc # "gone" THEN 1 ELSE 0)
        IN  /\ buf[b].live => buf[b].refs = users
            /\ users > 0 => buf[b].live

\* The arguments of a queued transaction are still there when it is executed,
\* whatever read_command reads meanwhile; except for the command that ended a full
\* buffer, and for those whose buffer was reallocated behind them.
ArgumentsIntact == \A t \in txs : ~t.tail => t.args # "lost"

\* The same without the exceptions.
ArgumentsKept == \A t \in txs : t.args = "intact"

\* A buffer that nobody refers to is freed.
NoLeak == \A b \in Buffers : buf[b].live => buf[b].refs > 0

\* read_command returns: its I/O thread serves other clients too.
ReadEnds == []<>(pc \in {"idle", "gone"})
=============================================================================
