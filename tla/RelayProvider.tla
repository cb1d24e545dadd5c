---------------------------- MODULE RelayProvider ----------------------------
(***************************************************************************)
(* run_provider: role C.  The main loop reads the frames that arrive from  *)
(* A; each FORWARD_SESSION starts a coroutine that connects to the target, *)
(* drains what was buffered meanwhile and pumps what the remote sends.     *)
(* Both write to the remote: the main loop the DATA that arrives once      *)
(* remote_connected is set, the coroutine the buffered units.  One         *)
(* io_context thread: every co_await ends an action.                       *)
(*                                                                         *)
(* remote_connected is set in the step that sets remote, and connecting is *)
(* true of a session of the map until then, so c_remote stands for all     *)
(* three.  As in the visitor, every failed read takes the DATA_EOF branch. *)
(***************************************************************************)
EXTENDS RelayWire

CONSTANT MaxDown        \* bound: units a remote sends

ASSUME MaxDownAssumption == MaxDown \in Nat

VARIABLES
    c_sessions,         \* keys of the map sessions
    c_co,               \* where the coroutine of a session is
    c_remote,           \* SessionState::remote; "none" until connected
    c_half_close_recv,  \* SessionState flags
    c_half_close_send,
    c_closed,
    c_arrival_buffer,   \* units of arrival_buffer not yet written
    c_pending,          \* writes under way on the remote, oldest first
    c_read,             \* units read from the remote so far
    c_written,          \* units written to the remote, in order
    c_main,             \* where the main loop is
    c_cur               \* the session whose write it awaits

c_flags == <<c_half_close_recv, c_half_close_send, c_closed>>
c_mainVars == <<c_main, c_cur>>
providerVars == <<c_sessions, c_co, c_remote, c_flags, c_arrival_buffer,
                  c_pending, c_read, c_written, c_mainVars>>

\* thrown: an exception left the coroutine, which is detached, so that
\* nothing after the throw has run.
CoState == {"none", "connecting", "sendErr", "sendOk", "drain", "read",
            "aborted", "sendData", "sendEof", "done", "thrown"}
RemoteState == {"none", "open", "shut", "closed"}
MainState == {"read", "write", "stopped"}
Writer == {"main", "drain"}
RemoteWrite == [by : Writer, unit : Nat]

ProviderInit ==
    /\ c_sessions = {}
    /\ c_co = [u \in Uuid |-> "none"]
    /\ c_remote = [u \in Uuid |-> "none"]
    /\ c_half_close_recv = [u \in Uuid |-> FALSE]
    /\ c_half_close_send = [u \in Uuid |-> FALSE]
    /\ c_closed = [u \in Uuid |-> FALSE]
    /\ c_arrival_buffer = [u \in Uuid |-> <<>>]
    /\ c_pending = [u \in Uuid |-> <<>>]
    /\ c_read = [u \in Uuid |-> 0]
    /\ c_written = [u \in Uuid |-> <<>>]
    /\ c_main = "read"
    /\ c_cur = NoUuid

-----------------------------------------------------------------------------
(* Sockets *)

remote_connected(u) == c_remote[u] # "none"

\* The state, and with it the remote, lives as long as the map or the
\* coroutine refers to it.
c_Reaped(remote, sessions, co) ==
    [u \in Uuid |-> IF /\ u \notin sessions
                       /\ co[u] \in {"done", "thrown"}
                       /\ remote[u] # "none"
                    THEN "closed" ELSE remote[u]]

\* shutdown(shutdown_send)
c_Shut(remote, u) == [remote EXCEPT ![u] = IF @ = "open" THEN "shut" ELSE @]

\* remote->close() on the remotes of some sessions; one that is still
\* connecting has none to close.
c_Close(remote, us) == [u \in Uuid |-> IF u \in us /\ remote[u] # "none"
                                       THEN "closed" ELSE remote[u]]

\* async_write(*remote, ...): concurrent writes on a socket are served in the
\* order they were started.
c_StartWrite(writer, u, n) ==
    c_pending' = [c_pending EXCEPT ![u] = Append(@, [by |-> writer, unit |-> n])]

c_Oldest(writer, u) == c_pending[u] # <<>> /\ Head(c_pending[u]).by = writer

-----------------------------------------------------------------------------
(* The main loop *)

\* Mutant: the loop itself awaits the writes to A.
MainGets_awaitsWrites(methods) ==
    /\ c_main = "read"
    /\ up # <<>>
    /\ Head(up).method \in methods
    /\ down = <<>>
    /\ up' = Tail(up)
    /\ UNCHANGED <<down, linkB, linkC>>

MainGets(methods) ==
    /\ c_main = "read"
    /\ up # <<>>
    /\ Head(up).method \in methods
    /\ up' = Tail(up)
    /\ UNCHANGED <<down, linkB, linkC>>

MainForwardSession ==
    LET u == Head(up).uuid
    IN  /\ MainGets({"FORWARD_SESSION"})
        /\ c_sessions' = c_sessions \union {u}
        /\ c_co' = [c_co EXCEPT ![u] = "connecting"]
        /\ UNCHANGED <<c_remote, c_flags, c_arrival_buffer, c_pending, c_read,
                       c_written, c_mainVars>>

\* DATA goes to the sessions of the map that are not closed.
c_Live(u) == u \in c_sessions /\ ~c_closed[u]

\* A frame for a session the map does not hold.
MainIgnore ==
    /\ MainGets({"DATA", "DATA_EOF", "SESSION_CLOSE"})
    /\ IF Head(up).method = "DATA" THEN ~c_Live(Head(up).uuid)
                                   ELSE Head(up).uuid \notin c_sessions
    /\ UNCHANGED providerVars

\* Mutant: what comes before the remote is connected is dropped.
MainBuffer_drops ==
    /\ MainGets({"DATA"})
    /\ c_Live(Head(up).uuid)
    /\ ~remote_connected(Head(up).uuid)
    /\ UNCHANGED providerVars

\* DATA before the remote is connected is buffered.
MainBuffer ==
    LET u == Head(up).uuid
    IN  /\ MainGets({"DATA"})
        /\ c_Live(u)
        /\ ~remote_connected(u)
        /\ c_arrival_buffer' = [c_arrival_buffer EXCEPT
                                  ![u] = Append(@, Head(up).unit)]
        /\ UNCHANGED <<c_sessions, c_co, c_remote, c_flags, c_pending, c_read,
                       c_written, c_mainVars>>

\* DATA afterwards is written by the main loop, which reads no other frame
\* until the write returns.
MainData ==
    LET u == Head(up).uuid
    IN  /\ MainGets({"DATA"})
        /\ c_Live(u)
        /\ remote_connected(u)
        /\ c_StartWrite("main", u, Head(up).unit)
        /\ c_main' = "write"
        /\ c_cur' = u
        /\ UNCHANGED <<c_sessions, c_co, c_remote, c_flags, c_arrival_buffer,
                       c_read, c_written>>

MainWrote ==
    /\ c_main = "write"
    /\ c_Oldest("main", c_cur)
    /\ c_pending' = [c_pending EXCEPT ![c_cur] = Tail(@)]
    /\ c_written' = [c_written EXCEPT
                        ![c_cur] = Append(@, Head(c_pending[c_cur]).unit)]
    /\ c_main' = "read"
    /\ c_cur' = NoUuid
    /\ UNCHANGED <<wireVars, c_sessions, c_co, c_remote, c_flags,
                   c_arrival_buffer, c_read>>

MainDataEof ==
    LET u == Head(up).uuid
    IN  /\ MainGets({"DATA_EOF"})
        /\ u \in c_sessions
        /\ c_half_close_recv' = [c_half_close_recv EXCEPT ![u] = TRUE]
        /\ c_closed' = [c_closed EXCEPT ![u] = @ \/ c_half_close_send[u]]
        /\ c_sessions' = IF c_half_close_send[u] THEN c_sessions \ {u}
                                                 ELSE c_sessions
        /\ c_remote' = c_Reaped(c_Shut(c_remote, u), c_sessions', c_co)
        /\ UNCHANGED <<c_co, c_half_close_send, c_arrival_buffer, c_pending,
                       c_read, c_written, c_mainVars>>

\* Mutant: the closed session stays in the map.
MainSessionClose_keepsEntry ==
    LET u == Head(up).uuid
    IN  /\ MainGets({"SESSION_CLOSE"})
        /\ u \in c_sessions
        /\ c_closed' = [c_closed EXCEPT ![u] = TRUE]
        /\ c_remote' = c_Close(c_remote, {u})
        /\ UNCHANGED <<c_sessions, c_co, c_half_close_recv, c_half_close_send,
                       c_arrival_buffer, c_pending, c_read, c_written,
                       c_mainVars>>

MainSessionClose ==
    LET u == Head(up).uuid
    IN  /\ MainGets({"SESSION_CLOSE"})
        /\ u \in c_sessions
        /\ c_closed' = [c_closed EXCEPT ![u] = TRUE]
        /\ c_remote' = c_Close(c_remote, {u})
        /\ c_sessions' = c_sessions \ {u}
        /\ UNCHANGED <<c_co, c_half_close_recv, c_half_close_send,
                       c_arrival_buffer, c_pending, c_read, c_written,
                       c_mainVars>>

\* The code after the loop: close the remotes of the map and clear it.  No
\* closed flag is set, so a session that is connecting goes on.
c_Teardown ==
    /\ c_remote' = c_Close(c_remote, c_sessions)
    /\ c_sessions' = {}
    /\ c_main' = "stopped"
    /\ c_cur' = NoUuid

\* Mutant: the loop is left only when no session is left.
MainStop_waits ==
    /\ c_main = "read"
    /\ up = <<>>
    /\ ~linkC
    /\ c_sessions = {}
    /\ c_Teardown
    /\ UNCHANGED <<wireVars, c_co, c_flags, c_arrival_buffer, c_pending,
                   c_read, c_written>>

\* read_frame failed or EOF_ came.
MainStop ==
    /\ c_main = "read"
    /\ up = <<>>
    /\ ~linkC
    /\ c_Teardown
    /\ UNCHANGED <<wireVars, c_co, c_flags, c_arrival_buffer, c_pending,
                   c_read, c_written>>

\* The write throws (the remote reset the connection, or the pump's end
\* destroyed the socket): the exception leaves the loop.
MainWriteFail ==
    /\ c_main = "write"
    /\ c_Oldest("main", c_cur)
    /\ c_pending' = [c_pending EXCEPT ![c_cur] = Tail(@)]
    /\ c_Teardown
    /\ UNCHANGED <<wireVars, c_co, c_flags, c_arrival_buffer, c_read,
                   c_written>>

-----------------------------------------------------------------------------
(* The coroutine of session u *)

ConnectFail(u) ==
    /\ c_co[u] = "connecting"
    /\ c_co' = [c_co EXCEPT ![u] = "sendErr"]
    /\ aconn_write_down(ControlFrame("SESSION_ERR", u))
    /\ UNCHANGED <<up, linkB, linkC, c_sessions, c_remote, c_flags,
                   c_arrival_buffer, c_pending, c_read, c_written, c_mainVars>>

\* Mutant: a refused session stays in the map.
ErrSent_keepsEntry(u) ==
    /\ c_co[u] = "sendErr"
    /\ c_closed' = [c_closed EXCEPT ![u] = TRUE]
    /\ c_co' = [c_co EXCEPT ![u] = "done"]
    /\ UNCHANGED <<wireVars, c_sessions, c_remote, c_half_close_recv,
                   c_half_close_send, c_arrival_buffer, c_pending, c_read,
                   c_written, c_mainVars>>

ErrSent(u) ==
    /\ c_co[u] = "sendErr"
    /\ c_closed' = [c_closed EXCEPT ![u] = TRUE]
    /\ c_sessions' = c_sessions \ {u}
    /\ c_co' = [c_co EXCEPT ![u] = "done"]
    /\ UNCHANGED <<wireVars, c_remote, c_half_close_recv, c_half_close_send,
                   c_arrival_buffer, c_pending, c_read, c_written, c_mainVars>>

Connected(u) ==
    /\ c_co[u] = "connecting"
    /\ c_remote' = [c_remote EXCEPT ![u] = "open"]
    /\ c_co' = [c_co EXCEPT ![u] = "sendOk"]
    /\ aconn_write_down(ControlFrame("SESSION_OK", u))
    /\ UNCHANGED <<up, linkB, linkC, c_sessions, c_flags, c_arrival_buffer,
                   c_pending, c_read, c_written, c_mainVars>>

\* The pump's loop with the remote in state r: read again, or fall through
\* and erase the session whatever its flags say.
c_LoopHead(u, r) ==
    /\ c_co' = [c_co EXCEPT ![u] =
                  IF c_closed[u] THEN "done"
                  ELSE IF r = "closed" THEN "aborted" ELSE "read"]
    /\ c_sessions' = IF c_closed[u] THEN c_sessions \ {u} ELSE c_sessions
    /\ c_remote' = c_Reaped([c_remote EXCEPT ![u] = r], c_sessions', c_co')

\* The code between SESSION_OK, or the return of a drained write, and the
\* next await; pending is what is left of the writes on the remote.
c_Drain(u, pending) ==
    \* the next buffered unit
    \/ /\ c_arrival_buffer[u] # <<>>
       /\ c_remote[u] = "open"
       /\ c_pending' = [c_pending EXCEPT ![u] =
              Append(pending, [by |-> "drain", unit |-> Head(c_arrival_buffer[u])])]
       /\ c_arrival_buffer' = [c_arrival_buffer EXCEPT ![u] = Tail(@)]
       /\ c_co' = [c_co EXCEPT ![u] = "drain"]
       /\ UNCHANGED <<c_sessions, c_remote>>
    \* the socket was shut down or closed meanwhile: the write throws
    \/ /\ c_arrival_buffer[u] # <<>>
       /\ c_remote[u] # "open"
       /\ c_pending' = [c_pending EXCEPT ![u] = pending]
       /\ c_co' = [c_co EXCEPT ![u] = "thrown"]
       /\ c_remote' = c_Reaped(c_remote, c_sessions, c_co')
       /\ UNCHANGED <<c_sessions, c_arrival_buffer>>
    \* drained: propagate a DATA_EOF that came before the connection
    \/ /\ c_arrival_buffer[u] = <<>>
       /\ c_pending' = [c_pending EXCEPT ![u] = pending]
       /\ c_LoopHead(u, IF c_half_close_recv[u] THEN c_Shut(c_remote, u)[u]
                                                ELSE c_remote[u])
       /\ UNCHANGED c_arrival_buffer

OkSent(u) ==
    /\ c_co[u] = "sendOk"
    /\ c_Drain(u, c_pending[u])
    /\ UNCHANGED <<wireVars, c_flags, c_read, c_written, c_mainVars>>

DrainWrote(u) ==
    /\ c_co[u] = "drain"
    /\ c_Oldest("drain", u)
    /\ c_written' = [c_written EXCEPT ![u] = Append(@, Head(c_pending[u]).unit)]
    /\ c_Drain(u, Tail(c_pending[u]))
    /\ UNCHANGED <<wireVars, c_flags, c_read, c_mainVars>>

\* A drained write throws.  The state stays in the map.
DrainFail(u) ==
    /\ c_co[u] = "drain"
    /\ c_Oldest("drain", u)
    /\ c_pending' = [c_pending EXCEPT ![u] = Tail(@)]
    /\ c_co' = [c_co EXCEPT ![u] = "thrown"]
    /\ c_remote' = c_Reaped(c_remote, c_sessions, c_co')
    /\ UNCHANGED <<wireVars, c_sessions, c_flags, c_arrival_buffer, c_read,
                   c_written, c_mainVars>>

RemoteRead(u) ==
    /\ c_co[u] = "read"
    /\ c_read[u] < MaxDown
    /\ c_read' = [c_read EXCEPT ![u] = @ + 1]
    /\ c_co' = [c_co EXCEPT ![u] = "sendData"]
    /\ aconn_write_down(DataFrame(u, c_read[u] + 1))
    /\ UNCHANGED <<up, linkB, linkC, c_sessions, c_remote, c_flags,
                   c_arrival_buffer, c_pending, c_written, c_mainVars>>

RemoteSent(u) ==
    /\ c_co[u] = "sendData"
    /\ c_LoopHead(u, c_remote[u])
    /\ UNCHANGED <<wireVars, c_flags, c_arrival_buffer, c_pending, c_read,
                   c_written, c_mainVars>>

RemoteEof(u) ==
    /\ c_co[u] \in {"read", "aborted"}
    /\ c_half_close_send' = [c_half_close_send EXCEPT ![u] = TRUE]
    /\ c_co' = [c_co EXCEPT ![u] = "sendEof"]
    /\ aconn_write_down(ControlFrame("DATA_EOF", u))
    /\ UNCHANGED <<up, linkB, linkC, c_sessions, c_remote, c_half_close_recv,
                   c_closed, c_arrival_buffer, c_pending, c_read, c_written,
                   c_mainVars>>

\* The pump is over: the session is erased whether or not the other
\* direction has ended.
RemoteEofSent(u) ==
    /\ c_co[u] = "sendEof"
    /\ c_closed' = [c_closed EXCEPT ![u] = @ \/ c_half_close_recv[u]]
    /\ c_co' = [c_co EXCEPT ![u] = "done"]
    /\ c_sessions' = c_sessions \ {u}
    /\ c_remote' = c_Reaped(c_remote, c_sessions', c_co')
    /\ UNCHANGED <<wireVars, c_half_close_recv, c_half_close_send,
                   c_arrival_buffer, c_pending, c_read, c_written, c_mainVars>>

-----------------------------------------------------------------------------

\* run_node returns when no coroutine is left, and the process ends.
ProviderExit ==
    /\ c_main = "stopped"
    /\ \A u \in Uuid : c_co[u] \in {"none", "done", "thrown"}
    /\ linkC
    /\ BreakLink(linkB, FALSE)
    /\ UNCHANGED providerVars

MainNext ==
    \/ MainForwardSession \/ MainIgnore \/ MainBuffer \/ MainData
    \/ MainWrote \/ MainWriteFail \/ MainDataEof \/ MainSessionClose
    \/ MainStop

CoNext(u) ==
    \/ ConnectFail(u) \/ ErrSent(u) \/ Connected(u) \/ OkSent(u)
    \/ DrainWrote(u) \/ DrainFail(u) \/ RemoteRead(u) \/ RemoteSent(u)
    \/ RemoteEof(u) \/ RemoteEofSent(u)

ProviderNext == MainNext \/ ProviderExit \/ \E u \in Uuid : CoNext(u)

\* Every variable of C has its type.
ProviderTypeOK ==
    /\ c_sessions \in SUBSET Uuid
    /\ c_co \in [Uuid -> CoState]
    /\ c_remote \in [Uuid -> RemoteState]
    /\ c_half_close_recv \in [Uuid -> BOOLEAN]
    /\ c_half_close_send \in [Uuid -> BOOLEAN]
    /\ c_closed \in [Uuid -> BOOLEAN]
    /\ c_arrival_buffer \in [Uuid -> Seq(Nat)]
    /\ c_pending \in [Uuid -> Seq(RemoteWrite)]
    /\ c_read \in [Uuid -> Nat]
    /\ c_written \in [Uuid -> Seq(Nat)]
    /\ c_main \in MainState
    /\ c_cur \in Uuid \union {NoUuid}
    /\ c_main = "write" => c_cur \in Uuid
==============================================================================
