-------------------------------- MODULE Relay --------------------------------
(***************************************************************************)
(* One IDR pair: the visitor B and the provider C joined by the wire       *)
(* through A.  A step is a step of B, a step of C, or the loss of a        *)
(* connection.                                                             *)
(***************************************************************************)
EXTENDS RelayVisitor, RelayProvider

CONSTANT LinkMayFail    \* bound: whether an instance includes network failures

ASSUME LinkMayFailAssumption == LinkMayFail \in BOOLEAN

vars == <<wireVars, visitorVars, providerVars>>

Init == WireInit /\ VisitorInit /\ ProviderInit

Next ==
    \/ VisitorNext /\ UNCHANGED providerVars
    \/ ProviderNext /\ UNCHANGED visitorVars
    \/ LinkMayFail /\ LinkDown /\ UNCHANGED <<visitorVars, providerVars>>

Spec == Init /\ [][Next]_vars

\* What the executor and the network owe the nodes: a frame that has arrived
\* is read, a started operation completes one way or the other, a resumed
\* coroutine runs.  An aconn_write is owed its return only when its frame has
\* been read (MustReturn), a write to a client or a remote always: they are
\* supposed to read, but not to send, so reads from them are not fair.
Fairness ==
    /\ WF_vars(/\ b_reader = "sendClose" => MustReturn(up, b_cur, {"SESSION_CLOSE"})
               /\ ReaderNext /\ UNCHANGED providerVars)
    /\ WF_vars(MainNext /\ UNCHANGED visitorVars)
    /\ WF_vars(ProviderExit /\ UNCHANGED visitorVars)
    /\ \A u \in Uuid :
        /\ WF_vars(/\ MustReturn(up, u, Method \ {"SESSION_CLOSE"})
                   /\ PumpLoop(u) \/ PumpEofSent(u)
                   /\ UNCHANGED providerVars)
        /\ WF_vars(b_pump[u] = "aborted" /\ PumpEof(u) /\ UNCHANGED providerVars)
        /\ WF_vars((ConnectFail(u) \/ Connected(u)) /\ UNCHANGED visitorVars)
        /\ WF_vars(/\ MustReturn(down, u, Method)
                   /\ ErrSent(u) \/ OkSent(u) \/ RemoteSent(u) \/ RemoteEofSent(u)
                   /\ UNCHANGED visitorVars)
        /\ WF_vars((DrainWrote(u) \/ DrainFail(u)) /\ UNCHANGED visitorVars)
        /\ WF_vars(c_co[u] = "aborted" /\ RemoteEof(u) /\ UNCHANGED visitorVars)

FairSpec == Spec /\ Fairness

-----------------------------------------------------------------------------
(* Safety *)

\* Every variable has its type.
TypeOK == WireTypeOK /\ VisitorTypeOK /\ ProviderTypeOK

\* What a client receives is a prefix of what its remote sent, in the order
\* it was sent, whatever fails on the way (pump of C, wire, reader of B).
DownstreamInOrder ==
    \A u \in Uuid : /\ b_written[u] = [i \in 1..Len(b_written[u]) |-> i]
                    /\ Len(b_written[u]) <= c_read[u]

\* A client is told the end of the stream (shutdown_send in the DATA_EOF
\* branch) only when everything the remote ever sent has been written to it.
ClientFinAfterData ==
    \A u \in Uuid : b_half_close_recv[u] => Len(b_written[u]) = c_read[u]

\* Where the units of a session on their way to the remote are, place by place;
\* a frame of the wire that carries none of them counts as 0.
Places(u) ==
    [wire |-> [i \in DOMAIN up |-> IF up[i].method = "DATA" /\ up[i].uuid = u
                                   THEN up[i].unit ELSE 0],
     buffer |-> c_arrival_buffer[u],
     pending |-> [i \in DOMAIN c_pending[u] |-> c_pending[u][i].unit],
     written |-> c_written[u]]

\* The places hold the units 1 to m, each of them once, and nothing else.
EachOnce(place, m) ==
    /\ \A n \in 1..m : \E k \in DOMAIN place : \E i \in DOMAIN place[k] : place[k][i] = n
    /\ \A k \in DOMAIN place : \A i \in DOMAIN place[k] :
          place[k][i] \in 1..m \/ (k = "wire" /\ place[k][i] = 0)
    /\ \A k, l \in DOMAIN place : \A i \in DOMAIN place[k], j \in DOMAIN place[l] :
          place[k][i] = place[l][j] /\ place[k][i] # 0 => k = l /\ i = j

\* While both connections are up and C still holds a session (or has not yet
\* heard of it), each unit the pump of B read is in exactly one place: on the
\* wire, in the arrival buffer, in a write under way or delivered.
UpstreamConserved ==
    \A u \in Uuid :
        /\ linkB /\ linkC
        /\ u \in c_sessions \/ c_co[u] = "none"
        /\ c_co[u] # "thrown"
        => EachOnce(Places(u), b_read[u])

\* While the accept loop runs, nobody takes from the map the entry that the
\* reader found and works for across its two awaits: the reference s, which a
\* rehash leaves valid, is good when the reader closes the client through it.
\* Of the iterator it this cannot be said: see ReaderStaleIterator.
ReferenceValid ==
    b_accepting /\ b_reader \in {"write", "sendClose"} => b_cur \in b_sessions

\* What the maps hold is alive: no session of B's or C's map is closed or has
\* a closed socket, and C's map holds none whose coroutine ended properly, so
\* that no frame is ever written to a socket that is gone.
MapsHoldLiveSessions ==
    /\ \A u \in b_sessions : ~b_closed[u] /\ b_client[u] \in {"open", "shut"}
    /\ \A u \in c_sessions : /\ ~c_closed[u]
                             /\ c_remote[u] # "closed"
                             /\ c_co[u] # "done"

\* The main loop of C, which a failing write ends for every session, never
\* starts a write on a remote it has shut down: no DATA comes after DATA_EOF.
MainWritesToOpenRemote ==
    [][c_main = "read" /\ c_main' = "write" => c_remote[c_cur'] = "open"]_vars

\* Seen from its two ends, the way from a remote to its client through C, the
\* wire and B is a pipe: what the client gets only ever grows along what the
\* remote sent, and nothing follows the end of the stream.
Down(u) == INSTANCE Pipe WITH
               Item <- Nat,
               sent <- [i \in 1..c_read[u] |-> i],
               received <- b_written[u],
               ended <- c_half_close_send[u],
               fin <- b_half_close_recv[u],
               broken <- FALSE
DownstreamIsPipe ==
    /\ \A u \in Uuid : Down(u)!Init
    /\ [][\A u \in Uuid : [Down(u)!Next]_(Down(u)!pipeVars)]_vars

-----------------------------------------------------------------------------
(* Liveness *)

LinkLost == ~linkB \/ ~linkC

\* Once the main loop of C has ended nobody reads what B writes: until C exits
\* the nodes may wait for each other.
Apart == LinkLost \/ c_main = "stopped"

\* When the target refuses the connection, the client is eventually closed:
\* SESSION_ERR finds its session.
RejectedClientClosed ==
    \A u \in Uuid : c_co[u] = "sendErr" ~> b_client[u] = "closed" \/ Apart

\* When both ends of a session have ended their stream, both sockets are
\* eventually closed and both maps forget the session, whichever DATA_EOF
\* overtakes which.
BothEofCleanUp ==
    \A u \in Uuid :
        b_half_close_send[u] /\ c_half_close_send[u]
        ~> \/ /\ u \notin b_sessions /\ b_client[u] = "closed"
              /\ u \notin c_sessions /\ c_remote[u] = "closed"
           \/ Apart

\* A node that lost its connection to A notices: the reader of B and the main
\* loop of C end, whatever they were waiting for.
DisconnectStopsNodes ==
    /\ ~linkB ~> b_reader \in {"stopped", "crashed"}
    /\ ~linkC ~> c_main = "stopped"

\* However little the connections buffer, the nodes never wait for each other
\* in a circle: every aconn_write returns as long as clients and remotes take
\* what is written to them and the main loop of C runs.  The reader of B may
\* wait for the stream to C, but the reader of that stream waits for no frame
\* to B.
WritersReturn ==
    /\ b_reader = "sendClose" ~> b_reader # "sendClose" \/ Apart
    /\ \A u \in Uuid :
        /\ \A s \in {"announcing", "sendData", "sendEof"} :
              b_pump[u] = s ~> b_pump[u] # s \/ Apart
        /\ \A s \in {"sendErr", "sendOk", "sendData", "sendEof"} :
              c_co[u] = s ~> c_co[u] # s \/ Apart

-----------------------------------------------------------------------------
(* What the documentation and the comments say and the code does not do *)

\* docs/abc_protocol.md:148-149: the arrival buffer is written to the remote
\* in order and only then does DATA go to the remote directly, so a remote
\* receives what the client sent in the order it was sent.
UpstreamInOrder ==
    \A u \in Uuid : \A i, j \in DOMAIN c_written[u] :
        i < j => c_written[u][i] < c_written[u][j]

\* docs/abc_protocol.md:189: with one DATA_EOF a session stays half open; it
\* is cleaned up when both have come.
HalfOpenKept ==
    \A u \in Uuid :
        c_half_close_send[u] /\ ~c_half_close_recv[u] /\ ~c_closed[u]
          /\ c_main # "stopped"
        => u \in c_sessions

\* comment before the teardown of C: its main loop ends because A
\* disconnected, not because one remote failed.
MainStopsOnDisconnect == c_main = "stopped" => ~linkC
==============================================================================
