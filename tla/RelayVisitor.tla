----------------------------- MODULE RelayVisitor -----------------------------
(***************************************************************************)
(* run_visitor: role B.  Three kinds of coroutines share the map sessions: *)
(*   - the accept loop, which registers a client and announces it;         *)
(*   - one pump per client, which sends what it reads to A;                *)
(*   - the reader, which dispatches the frames that come back.             *)
(* They run on one io_context thread, so what happens between two co_await *)
(* is one action, and every co_await ends an action.                       *)
(*                                                                         *)
(* `if (ec == eof || n == 0)` precedes `if (ec)` in the pump, and a failed *)
(* read returns n = 0: every end of the stream, a reset and an aborted     *)
(* read included, takes the DATA_EOF branch.                               *)
(***************************************************************************)
EXTENDS RelayWire

CONSTANT MaxUp          \* bound: units a client sends

ASSUME MaxUpAssumption == MaxUp \in Nat

VARIABLES
    b_accepting,        \* the accept loop has not been left
    b_sessions,         \* keys of the map sessions
    b_pump,             \* where the coroutine of a client is
    b_client,           \* ClientSession::client
    b_half_close_recv,  \* ClientSession flags
    b_half_close_send,
    b_closed,
    b_read,             \* units read from the client so far
    b_written,          \* units written to the client, in order
    b_reader,           \* where the reader is
    b_cur,              \* the session the reader works for across an await
    b_unit,             \* the unit it writes
    b_inserted          \* the map has grown since it found that session

b_flags == <<b_half_close_recv, b_half_close_send, b_closed>>
b_readerVars == <<b_reader, b_cur, b_unit, b_inserted>>
visitorVars == <<b_accepting, b_sessions, b_pump, b_client, b_flags, b_read,
                 b_written, b_readerVars>>

\* announcing: the accept loop awaits the NEW_SESSION write, no pump yet;
\* aborted: the pump reads from a socket that was closed before the call.
PumpState == {"none", "announcing", "read", "aborted", "sendData", "sendEof",
              "done"}
SocketState == {"none", "open", "shut", "closed"}
ReaderState == {"read", "write", "sendClose", "stopped", "crashed"}

VisitorInit ==
    /\ b_accepting = TRUE
    /\ b_sessions = {}
    /\ b_pump = [u \in Uuid |-> "none"]
    /\ b_client = [u \in Uuid |-> "none"]
    /\ b_half_close_recv = [u \in Uuid |-> FALSE]
    /\ b_half_close_send = [u \in Uuid |-> FALSE]
    /\ b_closed = [u \in Uuid |-> FALSE]
    /\ b_read = [u \in Uuid |-> 0]
    /\ b_written = [u \in Uuid |-> <<>>]
    /\ b_reader = "read"
    /\ b_cur = NoUuid
    /\ b_unit = 0
    /\ b_inserted = FALSE

-----------------------------------------------------------------------------
(* The map and the sockets *)

\* A ClientSession lives as long as the map or its pump refers to it; its
\* destructor closes the socket.
b_Reaped(client, sessions, pump) ==
    [u \in Uuid |-> IF u \notin sessions /\ pump[u] = "done"
                    THEN "closed" ELSE client[u]]

\* s->closed = true; s->client.close(); sessions->erase(it)
b_Drop(u) ==
    /\ b_closed' = [b_closed EXCEPT ![u] = TRUE]
    /\ b_client' = [b_client EXCEPT ![u] = "closed"]
    /\ b_sessions' = b_sessions \ {u}

\* close every client of the map, then clear it; the closed flags stay.
b_CloseAll ==
    /\ b_client' = [u \in Uuid |-> IF u \in b_sessions THEN "closed"
                                                       ELSE b_client[u]]
    /\ b_sessions' = {}

-----------------------------------------------------------------------------
(* The accept loop *)

\* One client at a time: the loop awaits the write of NEW_SESSION before it
\* accepts again.  generate_uuid returns a fresh identifier.  The insertion may
\* rehash the map, which invalidates the iterator of the reader.
Accept(u) ==
    /\ b_accepting
    /\ b_pump[u] = "none"
    /\ \A v \in Uuid : b_pump[v] # "announcing"
    /\ b_pump' = [b_pump EXCEPT ![u] = "announcing"]
    /\ b_client' = [b_client EXCEPT ![u] = "open"]
    /\ b_sessions' = b_sessions \union {u}
    /\ b_inserted' = (b_reader \in {"write", "sendClose"})
    /\ aconn_write_up(ControlFrame("NEW_SESSION", u))
    /\ UNCHANGED <<down, linkB, linkC, b_accepting, b_flags, b_read,
                   b_written, b_reader, b_cur, b_unit>>

\* async_accept fails (for want of descriptors, say): the loop is left and
\* the map emptied, whatever the reader is doing.
AcceptFail ==
    /\ b_accepting
    /\ \A v \in Uuid : b_pump[v] # "announcing"
    /\ b_accepting' = FALSE
    /\ b_CloseAll
    /\ UNCHANGED <<wireVars, b_pump, b_flags, b_read, b_written,
                   b_readerVars>>

-----------------------------------------------------------------------------
(* The pump of client u *)

\* The head of the loop: stop when closed, else start the next read.
b_LoopHead(u) == IF b_closed[u] THEN "done"
                 ELSE IF b_client[u] = "closed" THEN "aborted" ELSE "read"

\* An aconn_write returned, NEW_SESSION for the accept loop (which spawns the
\* pump) or DATA for the pump: back to the head of the loop.
PumpLoop(u) ==
    /\ b_pump[u] \in {"announcing", "sendData"}
    /\ b_pump' = [b_pump EXCEPT ![u] = b_LoopHead(u)]
    /\ b_sessions' = IF b_closed[u] THEN b_sessions \ {u} ELSE b_sessions
    /\ b_client' = b_Reaped(b_client, b_sessions', b_pump')
    /\ UNCHANGED <<wireVars, b_accepting, b_flags, b_read, b_written,
                   b_readerVars>>

\* A read that was started on an open socket may have completed before the
\* socket was closed under it.
PumpRead(u) ==
    /\ b_pump[u] = "read"
    /\ b_read[u] < MaxUp
    /\ b_read' = [b_read EXCEPT ![u] = @ + 1]
    /\ b_pump' = [b_pump EXCEPT ![u] = "sendData"]
    /\ aconn_write_up(DataFrame(u, b_read[u] + 1))
    /\ UNCHANGED <<down, linkB, linkC, b_accepting, b_sessions, b_client,
                   b_flags, b_written, b_readerVars>>

PumpEof(u) ==
    /\ b_pump[u] \in {"read", "aborted"}
    /\ b_half_close_send' = [b_half_close_send EXCEPT ![u] = TRUE]
    /\ b_pump' = [b_pump EXCEPT ![u] = "sendEof"]
    /\ aconn_write_up(ControlFrame("DATA_EOF", u))
    /\ UNCHANGED <<down, linkB, linkC, b_accepting, b_sessions, b_client,
                   b_half_close_recv, b_closed, b_read, b_written,
                   b_readerVars>>

\* Mutant: the pump erases the session without asking whether the other
\* direction has ended.
PumpEofSent_erases(u) ==
    /\ b_pump[u] = "sendEof"
    /\ b_pump' = [b_pump EXCEPT ![u] = "done"]
    /\ b_sessions' = b_sessions \ {u}
    /\ b_client' = b_Reaped(b_client, b_sessions', b_pump')
    /\ UNCHANGED <<wireVars, b_accepting, b_flags, b_read, b_written,
                   b_readerVars>>

\* Mutant: the break after DATA_EOF is missing.
PumpEofSent_noBreak(u) ==
    /\ b_pump[u] = "sendEof"
    /\ b_pump' = [b_pump EXCEPT ![u] = b_LoopHead(u)]
    /\ UNCHANGED <<wireVars, b_accepting, b_sessions, b_client, b_flags,
                   b_read, b_written, b_readerVars>>

\* Mutant: half_close_recv is not looked at.
PumpEofSent_leaks(u) ==
    /\ b_pump[u] = "sendEof"
    /\ b_pump' = [b_pump EXCEPT ![u] = "done"]
    /\ b_sessions' = IF b_closed[u] THEN b_sessions \ {u} ELSE b_sessions
    /\ b_client' = b_Reaped(b_client, b_sessions', b_pump')
    /\ UNCHANGED <<wireVars, b_accepting, b_flags, b_read, b_written,
                   b_readerVars>>

\* The DATA_EOF write returned: the pump ends, and the session with it when
\* the other direction ended meanwhile.
PumpEofSent(u) ==
    LET closed == b_closed[u] \/ b_half_close_recv[u]
    IN  /\ b_pump[u] = "sendEof"
        /\ b_closed' = [b_closed EXCEPT ![u] = closed]
        /\ b_pump' = [b_pump EXCEPT ![u] = "done"]
        /\ b_sessions' = IF closed THEN b_sessions \ {u} ELSE b_sessions
        /\ b_client' = b_Reaped(b_client, b_sessions', b_pump')
        /\ UNCHANGED <<wireVars, b_accepting, b_half_close_recv,
                       b_half_close_send, b_read, b_written, b_readerVars>>

-----------------------------------------------------------------------------
(* The reader *)

\* read_frame returned the frame at the head of the stream.
ReaderGets(methods) ==
    /\ b_reader = "read"
    /\ down # <<>>
    /\ Head(down).method \in methods
    /\ down' = Tail(down)
    /\ UNCHANGED <<up, linkB, linkC>>

\* A frame for a session the map does not hold, or SESSION_OK, changes
\* nothing.
ReaderIgnore ==
    /\ ReaderGets(Method)
    /\ \/ Head(down).uuid \notin b_sessions
       \/ Head(down).method = "SESSION_OK"
    /\ UNCHANGED visitorVars

\* Mutant: the session is forgotten, its client stays open.
ReaderReject_keepsClient ==
    LET u == Head(down).uuid
    IN  /\ ReaderGets({"SESSION_ERR", "SESSION_CLOSE"})
        /\ u \in b_sessions
        /\ b_closed' = [b_closed EXCEPT ![u] = TRUE]
        /\ b_sessions' = b_sessions \ {u}
        /\ UNCHANGED <<b_accepting, b_pump, b_client, b_half_close_recv,
                       b_half_close_send, b_read, b_written, b_readerVars>>

\* SESSION_ERR; SESSION_CLOSE has the same branch.
ReaderReject ==
    LET u == Head(down).uuid
    IN  /\ ReaderGets({"SESSION_ERR", "SESSION_CLOSE"})
        /\ u \in b_sessions
        /\ b_Drop(u)
        /\ UNCHANGED <<b_accepting, b_pump, b_half_close_recv,
                       b_half_close_send, b_read, b_written, b_readerVars>>

\* DATA: the reader starts the write to the client and holds the iterator it
\* and the reference s across the await.
ReaderData ==
    /\ ReaderGets({"DATA"})
    /\ Head(down).uuid \in b_sessions
    /\ b_reader' = "write"
    /\ b_cur' = Head(down).uuid
    /\ b_unit' = Head(down).unit
    /\ b_inserted' = FALSE
    /\ UNCHANGED <<b_accepting, b_sessions, b_pump, b_client, b_flags,
                   b_read, b_written>>

ReaderDataEof ==
    LET u == Head(down).uuid
        closed == b_closed[u] \/ b_half_close_send[u]
        shut == [b_client EXCEPT ![u] = IF @ = "open" THEN "shut" ELSE @]
    IN  /\ ReaderGets({"DATA_EOF"})
        /\ u \in b_sessions
        /\ b_half_close_recv' = [b_half_close_recv EXCEPT ![u] = TRUE]
        /\ b_closed' = [b_closed EXCEPT ![u] = closed]
        /\ b_sessions' = IF b_half_close_send[u] THEN b_sessions \ {u}
                                                 ELSE b_sessions
        /\ b_client' = b_Reaped(shut, b_sessions', b_pump)
        /\ UNCHANGED <<b_accepting, b_pump, b_half_close_send, b_read,
                       b_written, b_readerVars>>

ReaderWrote ==
    /\ b_reader = "write"
    /\ b_written' = [b_written EXCEPT ![b_cur] = Append(@, b_unit)]
    /\ b_reader' = "read"
    /\ b_cur' = NoUuid
    /\ b_inserted' = FALSE
    /\ UNCHANGED <<wireVars, b_accepting, b_sessions, b_pump, b_client,
                   b_flags, b_read, b_unit>>

\* Mutant: a failed write is passed over.
ReaderWriteFail_continues ==
    /\ b_reader = "write"
    /\ b_reader' = "read"
    /\ b_cur' = NoUuid
    /\ b_inserted' = FALSE
    /\ UNCHANGED <<wireVars, b_accepting, b_sessions, b_pump, b_client,
                   b_flags, b_read, b_written, b_unit>>

\* Mutant: the reader forgets the session while it awaits the write.
ReaderWriteFail_forgets ==
    /\ b_reader = "write"
    /\ b_reader' = "sendClose"
    /\ b_cur' = NoUuid
    /\ aconn_write_up(ControlFrame("SESSION_CLOSE", b_cur))
    /\ UNCHANGED <<down, linkB, linkC, b_accepting, b_sessions, b_pump,
                   b_client, b_flags, b_read, b_written, b_unit, b_inserted>>

\* The client reset the connection: the reader announces the end of the
\* session and awaits that write too.
ReaderWriteFail ==
    /\ b_reader = "write"
    /\ b_reader' = "sendClose"
    /\ aconn_write_up(ControlFrame("SESSION_CLOSE", b_cur))
    /\ UNCHANGED <<down, linkB, linkC, b_accepting, b_sessions, b_pump,
                   b_client, b_flags, b_read, b_written, b_cur, b_unit,
                   b_inserted>>

ReaderCloseSent ==
    /\ b_reader = "sendClose"
    /\ b_Drop(b_cur)
    /\ b_reader' = "read"
    /\ b_cur' = NoUuid
    /\ b_inserted' = FALSE
    /\ UNCHANGED <<wireVars, b_accepting, b_pump, b_half_close_recv,
                   b_half_close_send, b_read, b_written, b_unit>>

\* The same step with an iterator that may be invalid: the entry has gone from
\* the map, and then s dangles too, or an insertion has rehashed the map (how
\* full the buckets are is left open).  erase(it) may still do its work
\* (ReaderCloseSent), or the process dies.
ReaderStaleIterator ==
    /\ b_reader = "sendClose"
    /\ b_cur \notin b_sessions \/ b_inserted
    /\ b_reader' = "crashed"
    /\ b_cur' = NoUuid
    /\ b_accepting' = FALSE
    /\ b_pump' = [u \in Uuid |-> "done"]
    /\ b_client' = [u \in Uuid |-> "closed"]
    /\ b_sessions' = {}
    /\ b_inserted' = FALSE
    /\ BreakLink(FALSE, linkC)
    /\ UNCHANGED <<b_flags, b_read, b_written, b_unit>>

\* read_frame failed or EOF_ came: the connection to A is gone.  The clients
\* of the map are closed and the coroutine ends.  The accept loop goes on.
ReaderStop ==
    /\ b_reader = "read"
    /\ down = <<>>
    /\ ~linkB
    /\ b_reader' = "stopped"
    /\ b_CloseAll
    /\ UNCHANGED <<wireVars, b_accepting, b_pump, b_flags, b_read,
                   b_written, b_cur, b_unit, b_inserted>>

-----------------------------------------------------------------------------

AcceptNext == AcceptFail \/ \E u \in Uuid : Accept(u)

PumpNext(u) == PumpLoop(u) \/ PumpRead(u) \/ PumpEof(u) \/ PumpEofSent(u)

ReaderNext ==
    \/ ReaderIgnore \/ ReaderReject \/ ReaderData \/ ReaderDataEof
    \/ ReaderWrote \/ ReaderWriteFail \/ ReaderCloseSent
    \/ ReaderStaleIterator \/ ReaderStop

VisitorNext == AcceptNext \/ ReaderNext \/ \E u \in Uuid : PumpNext(u)

\* Every variable of B has its type.
VisitorTypeOK ==
    /\ b_accepting \in BOOLEAN
    /\ b_sessions \in SUBSET Uuid
    /\ b_pump \in [Uuid -> PumpState]
    /\ b_client \in [Uuid -> SocketState]
    /\ b_half_close_recv \in [Uuid -> BOOLEAN]
    /\ b_half_close_send \in [Uuid -> BOOLEAN]
    /\ b_closed \in [Uuid -> BOOLEAN]
    /\ b_read \in [Uuid -> Nat]
    /\ b_written \in [Uuid -> Seq(Nat)]
    /\ b_reader \in ReaderState
    /\ b_cur \in Uuid \union {NoUuid}
    /\ b_reader \in {"write", "sendClose"} => b_cur \in Uuid
    /\ b_unit \in Nat
    /\ b_inserted \in BOOLEAN
==============================================================================
