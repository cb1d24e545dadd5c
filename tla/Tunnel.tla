-------------------------------- MODULE Tunnel --------------------------------
(***************************************************************************)
(* run_tunnel: the accept loop and, for every session, the two read loops  *)
(* and the statistics loop.  One io_context thread; every co_await ends an *)
(* action.  read_local and read_remote are the same code with the sides    *)
(* exchanged and are one set of actions here, read_d for the loop that     *)
(* reads from side d.                                                      *)
(*                                                                         *)
(* What a processor chain makes of a buffer is left to the processors: one *)
(* read gives any number of buffers up to MaxOut, or an exception.  flush_ *)
(* local and flush_remote of the processors of this repository give none.  *)
(***************************************************************************)
EXTENDS Naturals, Sequences

CONSTANTS
    Session,        \* the sessions the accept loop may start
    NoSession,      \* the accept loop works for none
    MaxReads,       \* bound: reads that give data, for each loop
    MaxOut          \* bound: buffers the chain makes of one read

ASSUME SessionAssumption == NoSession \notin Session
ASSUME BoundAssumption == MaxReads \in Nat /\ MaxOut \in Nat

Side == {"local", "remote"}
Other(d) == IF d = "local" THEN "remote" ELSE "local"

VARIABLES
    acceptor,       \* where do_accept is
    accepted,       \* the session it is setting up
    sock,           \* sock[s][d]: local_sock and remote_sock
    loop,           \* loop[s][d]: where read_d is
    output,         \* output[s][d]: buffers it has still to write
    eof,            \* eof[s][d]: local_eof and remote_eof
    closed,
    done_count,
    stat,           \* where stat_loop is
    reads,          \* reads[s][d]: reads of read_d that gave data
    made,           \* made[s][d]: buffers the chain made of them
    written,        \* written[s][d]: buffers read_d wrote to the other side
    close_calls,    \* calls of close_all
    close_logs,     \* conn_close events
    failed          \* an operation failed before the session was closed

\* Variables of the model only: they count what the program did.
flow == <<reads, made, written>>
accVars == <<acceptor, accepted>>
vars == <<accVars, sock, loop, output, eof, closed, done_count, stat, flow,
          close_calls, close_logs, failed>>

AcceptState == {"accept", "connect", "failed", "thrown"}
SockState == {"none", "open", "shut", "closed"}
LoopState == {"none", "read", "write", "done"}
StatState == {"none", "wait", "done"}

Both(v) == [d \in Side |-> v]

Init ==
    /\ acceptor = "accept"
    /\ accepted = NoSession
    /\ sock = [s \in Session |-> Both("none")]
    /\ loop = [s \in Session |-> Both("none")]
    /\ output = [s \in Session |-> Both(0)]
    /\ eof = [s \in Session |-> Both(FALSE)]
    /\ closed = [s \in Session |-> FALSE]
    /\ done_count = [s \in Session |-> 0]
    /\ stat = [s \in Session |-> "none"]
    /\ reads = [s \in Session |-> Both(0)]
    /\ made = [s \in Session |-> Both(0)]
    /\ written = [s \in Session |-> Both(0)]
    /\ close_calls = [s \in Session |-> 0]
    /\ close_logs = [s \in Session |-> 0]
    /\ failed = [s \in Session |-> FALSE]

-----------------------------------------------------------------------------
(* SessionState *)

\* close_all(), when cond holds, with the sockets otherwise as in sk.
close_all(s, cond, sk) ==
    /\ sock' = [sock EXCEPT ![s] = IF cond THEN Both("closed") ELSE sk]
    /\ closed' = [closed EXCEPT ![s] = @ \/ cond]
    /\ close_calls' = [close_calls EXCEPT ![s] = IF cond THEN @ + 1 ELSE @]

\* read_d ends; on_done counts it and reports the session when both ended.
on_done(s, d) ==
    /\ loop' = [loop EXCEPT ![s][d] = "done"]
    /\ output' = [output EXCEPT ![s][d] = 0]
    /\ done_count' = [done_count EXCEPT ![s] = @ + 1]
    /\ close_logs' = [close_logs EXCEPT ![s] =
                        IF done_count'[s] = 2 THEN @ + 1 ELSE @]

\* Mutant: closed is not tested.
Abandon_unguarded(s, d) ==
    /\ close_all(s, TRUE, sock[s])
    /\ failed' = [failed EXCEPT ![s] = @ \/ ~closed[s]]
    /\ on_done(s, d)
    /\ UNCHANGED <<accVars, eof, stat, flow>>

\* An error path of read_d: `if (!s->closed) s->close_all(); co_return;'
Abandon(s, d) ==
    /\ close_all(s, ~closed[s], sock[s])
    /\ failed' = [failed EXCEPT ![s] = @ \/ ~closed[s]]
    /\ on_done(s, d)
    /\ UNCHANGED <<accVars, eof, stat, flow>>

-----------------------------------------------------------------------------
(* do_accept *)

\* A client was accepted, its endpoint logged and the connection to the
\* remote started.
Accept(s) ==
    /\ acceptor = "accept"
    /\ sock[s]["local"] = "none"
    /\ acceptor' = "connect"
    /\ accepted' = s
    /\ sock' = [sock EXCEPT ![s]["local"] = "open"]
    /\ UNCHANGED <<loop, output, eof, closed, done_count, stat, flow,
                   close_calls, close_logs, failed>>

\* The client has reset the connection by the time it is accepted:
\* remote_endpoint() throws, and nothing in do_accept catches it.
AcceptThrows(s) ==
    /\ acceptor = "accept"
    /\ sock[s]["local"] = "none"
    /\ acceptor' = "thrown"
    /\ sock' = [sock EXCEPT ![s]["local"] = "closed"]
    /\ UNCHANGED <<accepted, loop, output, eof, closed, done_count, stat,
                   flow, close_calls, close_logs, failed>>

\* async_accept fails and the loop is left.
AcceptFail ==
    /\ acceptor = "accept"
    /\ acceptor' = "failed"
    /\ UNCHANGED <<accepted, sock, loop, output, eof, closed, done_count,
                   stat, flow, close_calls, close_logs, failed>>

\* start_session
Connected ==
    LET s == accepted
    IN  /\ acceptor = "connect"
        /\ acceptor' = "accept"
        /\ accepted' = NoSession
        /\ sock' = [sock EXCEPT ![s]["remote"] = "open"]
        /\ loop' = [loop EXCEPT ![s] = Both("read")]
        /\ stat' = [stat EXCEPT ![s] = "wait"]
        /\ UNCHANGED <<output, eof, closed, done_count, flow, close_calls,
                       close_logs, failed>>

\* Mutant: the accept loop ends with the failed connection.
ConnectFail_returns ==
    LET s == accepted
    IN  /\ acceptor = "connect"
        /\ acceptor' = "failed"
        /\ accepted' = NoSession
        /\ close_all(s, TRUE, sock[s])
        /\ failed' = [failed EXCEPT ![s] = TRUE]
        /\ UNCHANGED <<loop, output, eof, done_count, stat, flow, close_logs>>

ConnectFail ==
    LET s == accepted
    IN  /\ acceptor = "connect"
        /\ acceptor' = "accept"
        /\ accepted' = NoSession
        /\ close_all(s, TRUE, sock[s])
        /\ failed' = [failed EXCEPT ![s] = TRUE]
        /\ UNCHANGED <<loop, output, eof, done_count, stat, flow, close_logs>>

-----------------------------------------------------------------------------
(* read_local and read_remote *)

\* async_read_some gave data and the chain made k buffers of it.  The loop
\* tests closed before it reads again.  A read that was pending when the
\* session was closed may still have completed with data.
ReadData(s, d, k) ==
    /\ loop[s][d] = "read"
    /\ reads[s][d] < MaxReads
    /\ reads' = [reads EXCEPT ![s][d] = @ + 1]
    /\ made' = [made EXCEPT ![s][d] = @ + k]
    /\ IF k = 0 /\ closed[s]
       THEN on_done(s, d)
       ELSE /\ loop' = [loop EXCEPT ![s][d] = IF k = 0 THEN "read" ELSE "write"]
            /\ output' = [output EXCEPT ![s][d] = k]
            /\ UNCHANGED <<done_count, close_logs>>
    /\ UNCHANGED <<accVars, sock, eof, closed, stat, written, close_calls,
                   failed>>

\* Mutant: the rest of the buffers is dropped.
WriteDone_dropsRest(s, d) ==
    /\ loop[s][d] = "write"
    /\ written' = [written EXCEPT ![s][d] = @ + 1]
    /\ output' = [output EXCEPT ![s][d] = 0]
    /\ loop' = [loop EXCEPT ![s][d] = "read"]
    /\ UNCHANGED <<accVars, sock, eof, closed, done_count, stat, reads, made,
                   close_calls, close_logs, failed>>

\* Mutant: the loop over the buffers ends one too late.
WriteDone_oneTooMany(s, d) ==
    /\ loop[s][d] = "write"
    /\ written' = [written EXCEPT ![s][d] = @ + 1]
    /\ output' = [output EXCEPT ![s][d] = @ - 1]
    /\ loop' = [loop EXCEPT ![s][d] = IF output[s][d] = 0 THEN "read" ELSE "write"]
    /\ UNCHANGED <<accVars, sock, eof, closed, done_count, stat, reads, made,
                   close_calls, close_logs, failed>>

\* A buffer was written; the next one follows, or the head of the loop.
WriteDone(s, d) ==
    /\ loop[s][d] = "write"
    /\ written' = [written EXCEPT ![s][d] = @ + 1]
    /\ IF output[s][d] = 1 /\ closed[s]
       THEN on_done(s, d)
       ELSE /\ output' = [output EXCEPT ![s][d] = @ - 1]
            /\ loop' = [loop EXCEPT ![s][d] = IF output[s][d] = 1 THEN "read"
                                                                  ELSE "write"]
            /\ UNCHANGED <<done_count, close_logs>>
    /\ UNCHANGED <<accVars, sock, eof, closed, stat, reads, made, close_calls,
                   failed>>

\* Mutant: the end of one direction closes the session.
ReadEof_closes(s, d) ==
    /\ loop[s][d] = "read"
    /\ eof' = [eof EXCEPT ![s][d] = TRUE]
    /\ close_all(s, TRUE, sock[s])
    /\ on_done(s, d)
    /\ UNCHANGED <<accVars, stat, flow, failed>>

\* Mutant: nobody closes when both directions have ended.
ReadEof_leaks(s, d) ==
    LET shut == [sock[s] EXCEPT ![Other(d)] = IF @ = "open" THEN "shut" ELSE @]
    IN  /\ loop[s][d] = "read"
        /\ eof' = [eof EXCEPT ![s][d] = TRUE]
        /\ close_all(s, FALSE, shut)
        /\ on_done(s, d)
        /\ UNCHANGED <<accVars, stat, flow, failed>>

\* End of file: half-close the other side; close both when its loop has seen
\* the end, too.
ReadEof(s, d) ==
    LET o == Other(d)
        shut == [sock[s] EXCEPT ![o] = IF @ = "open" THEN "shut" ELSE @]
    IN  /\ loop[s][d] = "read"
        /\ eof' = [eof EXCEPT ![s][d] = TRUE]
        /\ close_all(s, eof[s][o], shut)
        /\ on_done(s, d)
        /\ UNCHANGED <<accVars, stat, flow, failed>>

\* The read is aborted by close_all of the other loop, or starts on a closed
\* socket: nothing is left to do.
ReadAborted(s, d) ==
    /\ loop[s][d] = "read"
    /\ closed[s]
    /\ on_done(s, d)
    /\ UNCHANGED <<accVars, sock, eof, closed, stat, flow, close_calls,
                   failed>>

\* A reset, an exception of the processor chain, or a write that throws,
\* because the other side is gone or was closed meanwhile.
Fails(s, d) ==
    /\ loop[s][d] \in {"read", "write"}
    /\ Abandon(s, d)

-----------------------------------------------------------------------------
(* stat_loop *)

\* Mutant: the loop waits for both streams to end.
StatEnds_waits(s) ==
    /\ stat[s] = "wait"
    /\ \A d \in Side : eof[s][d]
    /\ stat' = [stat EXCEPT ![s] = "done"]
    /\ UNCHANGED <<accVars, sock, loop, output, eof, closed, done_count, flow,
                   close_calls, close_logs, failed>>

\* The timer fired after the session was closed.  Before that a tick only
\* reports rates.
StatEnds(s) ==
    /\ stat[s] = "wait"
    /\ closed[s]
    /\ stat' = [stat EXCEPT ![s] = "done"]
    /\ UNCHANGED <<accVars, sock, loop, output, eof, closed, done_count, flow,
                   close_calls, close_logs, failed>>

-----------------------------------------------------------------------------

LoopNext(s, d) ==
    \/ \E k \in 0..MaxOut : ReadData(s, d, k)
    \/ WriteDone(s, d) \/ ReadEof(s, d) \/ ReadAborted(s, d) \/ Fails(s, d)

Next ==
    \/ AcceptFail \/ Connected \/ ConnectFail
    \/ \E s \in Session : Accept(s) \/ AcceptThrows(s) \/ StatEnds(s)
    \/ \E s \in Session, d \in Side : LoopNext(s, d)

Spec == Init /\ [][Next]_vars

\* Started connections, writes, aborted reads and timers complete; the two
\* ends owe no data and no end of file.
Fairness ==
    /\ WF_vars(Connected \/ ConnectFail)
    /\ \A s \in Session :
        /\ WF_vars(StatEnds(s))
        /\ \A d \in Side :
            /\ WF_vars(ReadAborted(s, d))
            /\ WF_vars(WriteDone(s, d) \/ Fails(s, d))

FairSpec == Spec /\ Fairness

-----------------------------------------------------------------------------
(* Properties *)

\* Every variable has its type.
TypeOK ==
    /\ acceptor \in AcceptState
    /\ accepted \in Session \union {NoSession}
    /\ acceptor = "connect" => accepted \in Session
    /\ sock \in [Session -> [Side -> SockState]]
    /\ loop \in [Session -> [Side -> LoopState]]
    /\ output \in [Session -> [Side -> Nat]]
    /\ eof \in [Session -> [Side -> BOOLEAN]]
    /\ closed \in [Session -> BOOLEAN]
    /\ done_count \in [Session -> Nat]
    /\ stat \in [Session -> StatState]
    /\ reads \in [Session -> [Side -> Nat]]
    /\ made \in [Session -> [Side -> Nat]]
    /\ written \in [Session -> [Side -> Nat]]
    /\ close_calls \in [Session -> Nat]
    /\ close_logs \in [Session -> Nat]
    /\ failed \in [Session -> BOOLEAN]

\* docs/architecture.md:82: the flag closed keeps the two loops from closing
\* the sockets twice, whatever order their ends and errors come in, although
\* the end-of-file branch does not test it.
CloseAllOnce == \A s \in Session : close_calls[s] <= 1

\* When both loops have ended the session is closed, and so are its sockets:
\* no order of ends, errors and aborts leaks a descriptor.  Exactly then is
\* conn_close logged, once.
EndedMeansClosed ==
    \A s \in Session :
        /\ (\A d \in Side : loop[s][d] = "done")
              => closed[s] /\ sock[s] = Both("closed")
        /\ close_logs[s] = (IF \A d \in Side : loop[s][d] = "done" THEN 1 ELSE 0)

\* Without a failure a session is closed only when both streams have ended
\* and every buffer the chain made has been written to the other side: the
\* end of one direction never cuts off the other.
CloseLosesNothing ==
    \A s \in Session : closed[s] /\ ~failed[s] =>
        \A d \in Side : eof[s][d] /\ written[s][d] = made[s][d]

\* One side is told the end of the stream only after everything that was made
\* of the other side's data has been written to it.
FinAfterData ==
    \A s \in Session, d \in Side :
        sock[s][Other(d)] = "shut" => eof[s][d] /\ written[s][d] = made[s][d]

\* A closed session comes to an end: both loops and the statistics loop stop,
\* which frees the session.
ClosedSessionEnds ==
    \A s \in Session :
        closed[s] ~> /\ \A d \in Side : loop[s][d] \in {"none", "done"}
                     /\ stat[s] \in {"none", "done"}

\* The connection to the remote is awaited in the accept loop: a client that
\* was accepted gets its session or is closed, and the loop is back for the
\* next one, whatever became of the connection (tunnel.cpp:442-450).
AcceptLoopComesBack ==
    \A s \in Session :
        accepted = s ~> /\ acceptor = "accept"
                        /\ closed[s] \/ \A d \in Side : loop[s][d] # "none"
==============================================================================
