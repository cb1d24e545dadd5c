---------------------------- MODULE Tunnel_proofs ----------------------------
(***************************************************************************)
(* Theorems about Tunnel: for any number of sessions, reads and buffers a  *)
(* session is closed once, never leaks, and a half-close, or a close that  *)
(* no failure caused, comes after the data.                                *)
(***************************************************************************)
EXTENDS Tunnel, TLAPS

Done(s, d) == loop[s][d] = "done"
Running(s, d) == loop[s][d] \in {"read", "write"}

\* What the loops of a session and its flags say of each other: a loop that
\* ended while the session is open has seen the end of its stream, and a loop
\* that runs on in a closed session outlives one that was abandoned.
Lifecycle(s) ==
    \A d \in Side :
        /\ loop[s][d] = "none" => loop[s][Other(d)] = "none"
        /\ eof[s][d] => Done(s, d)
        /\ Done(s, d) /\ ~closed[s] => eof[s][d]
        /\ eof[s][d] /\ eof[s][Other(d)] => closed[s]
        /\ closed[s] /\ Running(s, d) => Done(s, Other(d)) /\ ~eof[s][Other(d)]
        /\ closed[s] /\ ~failed[s] => eof[s][d]

\* The counters follow: the ends, the report and the calls of close_all.
Counted(s) ==
    /\ \A d \in Side : done_count[s] =
            (IF Done(s, d) THEN 1 ELSE 0) + (IF Done(s, Other(d)) THEN 1 ELSE 0)
    /\ close_logs[s] = IF done_count[s] = 2 THEN 1 ELSE 0
    /\ close_calls[s] = IF closed[s] THEN 1 ELSE 0

\* The sockets: closed with the session, shut only behind the last buffer,
\* and unused before the session is accepted.
Sockets(s) ==
    /\ closed[s] => sock[s] = Both("closed")
    /\ \A d \in Side : sock[s][Other(d)] = "shut" => eof[s][d]
    /\ sock[s]["local"] = "none" => ~closed[s] /\ loop[s] = Both("none")

\* The buffers a loop made and has not written are those in its output.
Buffers(s) ==
    \A d \in Side :
        /\ loop[s][d] = "write" => output[s][d] > 0
        /\ ~Done(s, d) \/ eof[s][d] => made[s][d] = written[s][d] + output[s][d]
        /\ loop[s][d] # "write" => output[s][d] = 0

SessInv(s) == Lifecycle(s) /\ Counted(s) /\ Sockets(s) /\ Buffers(s)

\* The session that do_accept connects has not been started.
Accepting ==
    acceptor = "connect" => /\ ~closed[accepted]
                            /\ loop[accepted] = Both("none")
                            /\ sock[accepted]["local"] = "open"

IndInv == TypeOK /\ Accepting /\ \A s \in Session : SessInv(s)

-----------------------------------------------------------------------------

\* The two sides.
LEMMA SideFacts ==
    /\ "local" \in Side /\ "remote" \in Side
    /\ \A d \in Side : /\ Other(d) \in Side
                       /\ Other(d) # d
                       /\ Other(Other(d)) = d
                       /\ \A e \in Side : e = d \/ e = Other(d)
BY DEF Side, Other

\* Both sides alike.
LEMMA BothFacts ==
    \A v : \A d \in Side : Both(v)[d] = v
BY DEF Both

\* Nothing of session t changes.
Same(t) ==
    /\ sock'[t] = sock[t] /\ loop'[t] = loop[t] /\ output'[t] = output[t]
    /\ eof'[t] = eof[t] /\ closed'[t] = closed[t] /\ failed'[t] = failed[t]
    /\ done_count'[t] = done_count[t] /\ made'[t] = made[t]
    /\ written'[t] = written[t]
    /\ close_calls'[t] = close_calls[t] /\ close_logs'[t] = close_logs[t]

LEMMA SameInv ==
    ASSUME NEW t \in Session, SessInv(t), Same(t)
    PROVE  SessInv(t)'
BY DEF SessInv, Lifecycle, Counted, Sockets, Buffers, Same, Done, Running

\* The program starts in the invariant.
LEMMA InitIndInv == Init => IndInv
<1> SUFFICES ASSUME Init PROVE IndInv
    OBVIOUS
<1>1. TypeOK
    BY DEF Init, TypeOK, AcceptState, SockState, LoopState, StatState, Both
<1>2. Accepting
    BY DEF Init, Accepting
<1>3. ASSUME NEW s \in Session PROVE SessInv(s)
    <2>1. \A d \in Side : /\ loop[s][d] = "none" /\ ~eof[s][d]
                          /\ sock[s][d] = "none" /\ output[s][d] = 0
                          /\ made[s][d] = 0 /\ written[s][d] = 0
        BY DEF Init, Both
    <2>2. loop[s] = Both("none")
        BY DEF Init
    <2>3. ~closed[s] /\ done_count[s] = 0 /\ close_logs[s] = 0
            /\ close_calls[s] = 0
        BY DEF Init
    <2>4. Lifecycle(s)
        BY <2>1, <2>3, SideFacts DEF Lifecycle, Done, Running
    <2>5. Counted(s)
        BY <2>1, <2>3, SideFacts DEF Counted, Done
    <2>6. Sockets(s)
        BY <2>1, <2>2, <2>3, SideFacts DEF Sockets
    <2>7. Buffers(s)
        BY <2>1, SideFacts DEF Buffers, Done
    <2> QED BY <2>4, <2>5, <2>6, <2>7 DEF SessInv
<1> QED BY <1>1, <1>2, <1>3 DEF IndInv

-----------------------------------------------------------------------------
(* The accept loop *)

\* Its actions but Connected and ConnectFail leave the state of the loops.
LEMMA AcceptStep ==
    ASSUME IndInv, NEW s \in Session, Accept(s) \/ AcceptThrows(s)
    PROVE  IndInv'
<1>1. TypeOK'
    <2>1. CASE Accept(s)
        BY <2>1, SideFacts DEF Accept, IndInv, TypeOK, AcceptState, SockState, flow
    <2>2. CASE AcceptThrows(s)
        BY <2>2, SideFacts DEF AcceptThrows, IndInv, TypeOK, AcceptState, SockState, flow
    <2> QED BY <2>1, <2>2
<1>2. /\ sock[s]["local"] = "none" /\ ~closed[s] /\ loop[s] = Both("none")
      /\ UNCHANGED <<loop, output, eof, closed, done_count, flow, close_calls,
                     close_logs, failed>>
      /\ \A t \in Session \ {s} : sock'[t] = sock[t]
      /\ sock'[s]["local"] \in {"open", "closed"}
      /\ sock'[s]["remote"] = sock[s]["remote"]
    BY SideFacts DEF Accept, AcceptThrows, IndInv, SessInv, Sockets, TypeOK
<1>3. Accepting'
    BY <1>2, SideFacts DEF Accept, AcceptThrows, Accepting, IndInv, TypeOK
<1>4. ASSUME NEW t \in Session PROVE SessInv(t)'
    <2>1. CASE t # s
        BY <1>2, <2>1, SameInv DEF IndInv, Same, flow
    <2>2. CASE t = s
        <3>1. (Lifecycle(s) /\ Counted(s) /\ Buffers(s))'
            BY <1>2 DEF IndInv, SessInv, Lifecycle, Counted, Buffers, Done,
               Running, flow
        <3>2. Sockets(s)'
            BY <1>2, SideFacts DEF IndInv, SessInv, Sockets, Side, Other
        <3> QED BY <2>2, <3>1, <3>2 DEF SessInv
    <2> QED BY <2>1, <2>2
<1> QED BY <1>1, <1>3, <1>4 DEF IndInv

LEMMA AcceptFailStep ==
    ASSUME IndInv, AcceptFail
    PROVE  IndInv'
<1>1. TypeOK'
    BY DEF AcceptFail, IndInv, TypeOK, AcceptState, flow
<1>2. Accepting'
    BY DEF AcceptFail, Accepting
<1>3. ASSUME NEW t \in Session PROVE SessInv(t)'
    BY SameInv DEF AcceptFail, IndInv, Same, flow
<1> QED BY <1>1, <1>2, <1>3 DEF IndInv

LEMMA ConnectedStep ==
    ASSUME IndInv, Connected
    PROVE  IndInv'
<1> PICK s \in Session : s = accepted
    BY DEF Connected, IndInv, TypeOK
<1>1. ~closed[s] /\ loop[s] = Both("none")
    BY DEF Connected, IndInv, Accepting
<1>2. TypeOK'
    BY SideFacts DEF Connected, IndInv, TypeOK, AcceptState, SockState,
       LoopState, StatState, flow, Both
<1>3. Accepting'
    BY DEF Connected, Accepting
<1>4. ASSUME NEW t \in Session PROVE SessInv(t)'
    <2>1. CASE t # s
        BY <1>1, <2>1, SameInv DEF Connected, IndInv, TypeOK, Same, flow
    <2>2. CASE t = s
        <3>1. \A d \in Side : loop[s][d] = "none" /\ loop'[s][d] = "read"
            BY <1>1, BothFacts DEF Connected, IndInv, TypeOK
        <3>2. /\ UNCHANGED <<output, eof, closed, done_count, flow, close_calls,
                             close_logs, failed>>
              /\ sock'[s]["local"] = "open" /\ sock'[s]["remote"] = "open"
            BY <1>1, SideFacts DEF Connected, IndInv, TypeOK, Accepting
        <3>3. Lifecycle(s)'
            BY <1>1, <3>1, <3>2, SideFacts DEF IndInv, SessInv, Lifecycle, Done, Running
        <3>4. Counted(s)'
            BY <1>1, <3>1, <3>2, SideFacts DEF IndInv, SessInv, Counted, Done
        <3>5. Sockets(s)'
            BY <1>1, <3>2, SideFacts DEF Sockets, Side, Other
        <3>6. Buffers(s)'
            BY <1>1, <3>1, <3>2, SideFacts DEF IndInv, SessInv, Buffers, Done, flow
        <3> QED BY <2>2, <3>3, <3>4, <3>5, <3>6 DEF SessInv
    <2> QED BY <2>1, <2>2
<1> QED BY <1>2, <1>3, <1>4 DEF IndInv

LEMMA ConnectFailStep ==
    ASSUME IndInv, ConnectFail
    PROVE  IndInv'
<1> PICK s \in Session : s = accepted
    BY DEF ConnectFail, IndInv, TypeOK
<1>1. ~closed[s] /\ loop[s] = Both("none")
    BY DEF ConnectFail, IndInv, Accepting
<1>2. TypeOK'
    BY DEF ConnectFail, close_all, IndInv, TypeOK, AcceptState, SockState,
       flow, Both
<1>3. Accepting'
    BY DEF ConnectFail, Accepting
<1>4. ASSUME NEW t \in Session PROVE SessInv(t)'
    <2>1. CASE t # s
        BY <2>1, SameInv DEF ConnectFail, close_all, IndInv, TypeOK, Same, flow
    <2>2. CASE t = s
        <3>1. \A d \in Side : loop[s][d] = "none"
            BY <1>1, BothFacts
        <3>2. /\ UNCHANGED <<loop, output, eof, done_count, flow, close_logs>>
              /\ sock'[s] = Both("closed") /\ closed'[s] /\ failed'[s]
              /\ close_calls'[s] = close_calls[s] + 1
            BY DEF ConnectFail, close_all, IndInv, TypeOK
        <3>3. Lifecycle(s)'
            BY <3>1, <3>2, SideFacts DEF IndInv, SessInv, Lifecycle, Done, Running
        <3>4. Counted(s)'
            BY <1>1, <3>1, <3>2, SideFacts DEF IndInv, SessInv, Counted, Done
        <3>5. Sockets(s)'
            BY <3>2, SideFacts, BothFacts DEF Sockets
        <3>6. Buffers(s)'
            BY <3>2 DEF IndInv, SessInv, Buffers, Done, flow
        <3> QED BY <2>2, <3>3, <3>4, <3>5, <3>6 DEF SessInv
    <2> QED BY <2>1, <2>2
<1> QED BY <1>2, <1>3, <1>4 DEF IndInv

-----------------------------------------------------------------------------
(* The loops of a session *)

\* A step of a loop of session s leaves the other sessions and the accept
\* loop alone, which does not work for a session that runs.
LEMMA LoopFrame ==
    ASSUME IndInv, NEW s \in Session, NEW d \in Side, Running(s, d),
           TypeOK', UNCHANGED accVars, SessInv(s)',
           \A t \in Session \ {s} : Same(t)
    PROVE  IndInv'
<1>1. acceptor = "connect" => accepted \in Session \ {s}
    BY BothFacts DEF IndInv, TypeOK, Accepting, Running
<1>2. Accepting'
    BY <1>1 DEF IndInv, Accepting, Same, accVars
<1>3. ASSUME NEW t \in Session PROVE SessInv(t)'
    BY SameInv DEF IndInv
<1> QED BY <1>2, <1>3 DEF IndInv

\* on_done of a running loop: what it changes in its own session.
LoopEnds(s, d) ==
    /\ loop' \in [Session -> [Side -> LoopState]]
    /\ output' \in [Session -> [Side -> Nat]]
    /\ done_count' \in [Session -> Nat]
    /\ close_logs' \in [Session -> Nat]
    /\ loop'[s][d] = "done" /\ loop'[s][Other(d)] = loop[s][Other(d)]
    /\ output'[s][d] = 0 /\ output'[s][Other(d)] = output[s][Other(d)]
    /\ done_count'[s] = done_count[s] + 1
    /\ close_logs'[s] = IF done_count'[s] = 2 THEN close_logs[s] + 1
                                               ELSE close_logs[s]
    /\ \A t \in Session \ {s} :
          /\ loop'[t] = loop[t] /\ output'[t] = output[t]
          /\ done_count'[t] = done_count[t] /\ close_logs'[t] = close_logs[t]

LEMMA OnDoneChanges ==
    ASSUME IndInv, NEW s \in Session, NEW d \in Side, on_done(s, d)
    PROVE  LoopEnds(s, d)
<1>1. /\ loop' \in [Session -> [Side -> LoopState]]
      /\ loop'[s][d] = "done" /\ loop'[s][Other(d)] = loop[s][Other(d)]
    BY SideFacts DEF on_done, IndInv, TypeOK, LoopState
<1>2. /\ output' \in [Session -> [Side -> Nat]]
      /\ output'[s][d] = 0 /\ output'[s][Other(d)] = output[s][Other(d)]
    BY SideFacts DEF on_done, IndInv, TypeOK
<1>3. /\ done_count' \in [Session -> Nat]
      /\ done_count'[s] = done_count[s] + 1
    BY DEF on_done, IndInv, TypeOK
<1>4. /\ close_logs' \in [Session -> Nat]
      /\ close_logs'[s] = IF done_count'[s] = 2 THEN close_logs[s] + 1
                                                 ELSE close_logs[s]
    BY DEF on_done, IndInv, TypeOK
<1>5. \A t \in Session \ {s} :
          /\ loop'[t] = loop[t] /\ output'[t] = output[t]
          /\ done_count'[t] = done_count[t] /\ close_logs'[t] = close_logs[t]
    BY DEF on_done, IndInv, TypeOK
<1> QED BY <1>1, <1>2, <1>3, <1>4, <1>5 DEF LoopEnds

\* Its counters follow when close_all was counted as well.
LEMMA OnDoneCounted ==
    ASSUME IndInv, NEW s \in Session, NEW d \in Side, Running(s, d),
           LoopEnds(s, d),
           close_calls'[s] = IF closed'[s] THEN 1 ELSE 0
    PROVE  Counted(s)'
<1>1. /\ ~Done(s, d) /\ Done(s, d)'
      /\ Done(s, Other(d))' <=> Done(s, Other(d))
    BY DEF LoopEnds, Done, Running
<1>2. /\ done_count[s] = IF Done(s, Other(d)) THEN 1 ELSE 0
      /\ close_logs[s] = 0
    BY <1>1, SideFacts DEF IndInv, SessInv, Counted
<1>3. done_count'[s] = IF Done(s, Other(d))' THEN 2 ELSE 1
    BY <1>1, <1>2 DEF LoopEnds
<1>4. close_logs'[s] = IF done_count'[s] = 2 THEN 1 ELSE 0
    BY <1>2 DEF LoopEnds
<1>5. \A e \in Side : done_count'[s] =
          (IF Done(s, e)' THEN 1 ELSE 0) + (IF Done(s, Other(e))' THEN 1 ELSE 0)
    BY <1>1, <1>3, SideFacts
<1> QED BY <1>4, <1>5 DEF Counted

\* A loop ends in a session that is closed already, or abandons it.
LEMMA EndStep ==
    ASSUME IndInv, NEW s \in Session, NEW d \in Side, Running(s, d),
           on_done(s, d), UNCHANGED <<accVars, eof, stat>>,
           close_all(s, ~closed[s], sock[s]),
           failed' = [failed EXCEPT ![s] = @ \/ ~closed[s]],
           reads' \in [Session -> [Side -> Nat]],
           made' \in [Session -> [Side -> Nat]],
           written' \in [Session -> [Side -> Nat]],
           made'[s][Other(d)] = made[s][Other(d)],
           written'[s][Other(d)] = written[s][Other(d)],
           \A t \in Session \ {s} : made'[t] = made[t] /\ written'[t] = written[t]
    PROVE  IndInv'
<1>0. LoopEnds(s, d)
    BY OnDoneChanges
<1>1. /\ sock' \in [Session -> [Side -> SockState]]
      /\ closed' \in [Session -> BOOLEAN]
      /\ close_calls' \in [Session -> Nat]
      /\ failed' \in [Session -> BOOLEAN]
    BY DEF close_all, IndInv, TypeOK, SockState, Both
<1>2. /\ closed'[s] /\ sock'[s] = Both("closed")
      /\ close_calls'[s] = 1
    <2>1. CASE closed[s]
        BY <2>1 DEF close_all, IndInv, TypeOK, SessInv, Counted, Sockets
    <2>2. CASE ~closed[s]
        <3>1. close_calls[s] = 0
            BY <2>2 DEF IndInv, SessInv, Counted
        <3>2. closed'[s]
            BY <2>2 DEF close_all, IndInv, TypeOK
        <3>3. sock'[s] = Both("closed")
            BY <2>2 DEF close_all, IndInv, TypeOK
        <3>4. close_calls'[s] = 1
            BY <2>2, <3>1 DEF close_all, IndInv, TypeOK
        <3> QED BY <3>2, <3>3, <3>4
    <2> QED BY <2>1, <2>2
<1>3. TypeOK'
    BY <1>0, <1>1 DEF LoopEnds, IndInv, TypeOK, accVars
<1>4. ASSUME NEW t \in Session \ {s} PROVE Same(t)
    <2>1. /\ sock'[t] = sock[t] /\ closed'[t] = closed[t]
          /\ close_calls'[t] = close_calls[t] /\ failed'[t] = failed[t]
        BY <1>4 DEF close_all, IndInv, TypeOK
    <2> QED BY <1>0, <1>4, <2>1 DEF LoopEnds, Same
<1>5. ~Done(s, d) /\ ~eof[s][d] /\ loop[s][Other(d)] # "none"
    BY SideFacts DEF IndInv, SessInv, Lifecycle, Done, Running
<1>6. Lifecycle(s)'
    <2>1. \A e \in Side : eof'[s][e] => loop'[s][e] = "done"
        BY <1>0, SideFacts DEF LoopEnds, IndInv, SessInv, Lifecycle, Done
    <2>2. \A e \in Side : loop'[s][e] # "none"
        BY <1>0, <1>5, SideFacts DEF LoopEnds
    <2>3. ~eof'[s][d]
        BY <1>5
    <2>4. \A e \in Side : loop'[s][e] \in {"read", "write"} => e = Other(d)
        BY <1>0, SideFacts DEF LoopEnds
    <2>5. failed'[s]
        BY <1>5 DEF IndInv, TypeOK, SessInv, Lifecycle
    <2> QED BY <1>2, <2>1, <2>2, <2>3, <2>4, <2>5, <1>0, SideFacts
            DEF LoopEnds, Lifecycle, Done, Running
<1>7. Counted(s)'
    BY <1>0, <1>2, OnDoneCounted
<1>8. Sockets(s)'
    BY <1>2, SideFacts, BothFacts DEF Sockets
<1>9. Buffers(s)'
    <2> DEFINE o == Other(d)
    <2>1. /\ loop'[s][d] = "done" /\ ~eof'[s][d] /\ output'[s][d] = 0
          /\ loop'[s][o] = loop[s][o] /\ output'[s][o] = output[s][o]
        BY <1>0, <1>5 DEF LoopEnds
    <2>2. /\ loop[s][o] = "write" => output[s][o] > 0
          /\ loop[s][o] # "done" \/ eof[s][o]
               => made[s][o] = written[s][o] + output[s][o]
          /\ loop[s][o] # "write" => output[s][o] = 0
        BY SideFacts DEF IndInv, SessInv, Buffers, Done
    <2> HIDE DEF o
    <2>3. /\ made'[s][o] = made[s][o] /\ written'[s][o] = written[s][o]
          /\ \A e \in Side : e = d \/ e = o
        BY SideFacts DEF o
    <2> QED BY <2>1, <2>2, <2>3 DEF Buffers, Done
<1> QED BY <1>3, <1>4, <1>6, <1>7, <1>8, <1>9, LoopFrame DEF SessInv

\* Errors, aborted reads, and the test of closed at the head of the loop.
LEMMA FailsStep ==
    ASSUME IndInv, NEW s \in Session, NEW d \in Side, Fails(s, d)
    PROVE  IndInv'
<1>1. Running(s, d)
    BY DEF Fails, Running
<1>2. /\ on_done(s, d) /\ UNCHANGED <<accVars, eof, stat>>
      /\ close_all(s, ~closed[s], sock[s])
      /\ failed' = [failed EXCEPT ![s] = @ \/ ~closed[s]]
      /\ UNCHANGED flow
    BY DEF Fails, Abandon
<1>3. /\ reads' \in [Session -> [Side -> Nat]]
      /\ made' \in [Session -> [Side -> Nat]]
      /\ written' \in [Session -> [Side -> Nat]]
      /\ made' = made /\ written' = written
    BY <1>2 DEF flow, IndInv, TypeOK
<1> QED BY <1>1, <1>2, <1>3, EndStep

\* In a closed session an error path and a mere end are the same.
LEMMA ClosedEnd ==
    ASSUME IndInv, NEW s \in Session, closed[s],
           UNCHANGED <<sock, closed, close_calls, failed>>
    PROVE  /\ close_all(s, ~closed[s], sock[s])
           /\ failed' = [failed EXCEPT ![s] = @ \/ ~closed[s]]
BY DEF close_all, IndInv, TypeOK

LEMMA ReadAbortedStep ==
    ASSUME IndInv, NEW s \in Session, NEW d \in Side, ReadAborted(s, d)
    PROVE  IndInv'
<1>1. Running(s, d)
    BY DEF ReadAborted, Running
<1>2. /\ close_all(s, ~closed[s], sock[s])
      /\ failed' = [failed EXCEPT ![s] = @ \/ ~closed[s]]
    BY ClosedEnd DEF ReadAborted
<1>3. /\ reads' \in [Session -> [Side -> Nat]]
      /\ made' \in [Session -> [Side -> Nat]]
      /\ written' \in [Session -> [Side -> Nat]]
      /\ made' = made /\ written' = written
    BY DEF ReadAborted, flow, IndInv, TypeOK
<1> QED BY <1>1, <1>2, <1>3, EndStep DEF ReadAborted

\* A step of a loop that goes on.
LEMMA GoOnStep ==
    ASSUME IndInv, NEW s \in Session, NEW d \in Side, Running(s, d),
           TypeOK',
           UNCHANGED <<accVars, sock, eof, closed, done_count, close_calls,
                       close_logs, failed>>,
           Running(s, d)', loop'[s][Other(d)] = loop[s][Other(d)],
           output'[s][Other(d)] = output[s][Other(d)],
           made'[s][Other(d)] = made[s][Other(d)],
           written'[s][Other(d)] = written[s][Other(d)],
           made'[s][d] = written'[s][d] + output'[s][d],
           loop'[s][d] = "write" <=> output'[s][d] > 0,
           \A t \in Session \ {s} :
               /\ loop'[t] = loop[t] /\ output'[t] = output[t]
               /\ made'[t] = made[t] /\ written'[t] = written[t]
    PROVE  IndInv'
<1> DEFINE o == Other(d)
<1>1. /\ d \in Side /\ o \in Side /\ o # d /\ Other(o) = d
      /\ \A e \in Side : e = d \/ e = o
    BY SideFacts
<1>2. \A t \in Session \ {s} : Same(t)
    BY DEF Same
<1>3. \A e \in Side : /\ Done(s, e)' <=> Done(s, e)
                      /\ Running(s, e)' <=> Running(s, e)
                      /\ loop'[s][e] = "none" <=> loop[s][e] = "none"
    <2>1. TAKE e \in Side
    <2>2. CASE e = d
        BY <2>2 DEF Done, Running
    <2>3. CASE e = Other(d)
        BY <2>3 DEF Done, Running
    <2> QED BY <1>1, <2>2, <2>3
<1>4. Lifecycle(s)'
    <2>1. Lifecycle(s)
        BY DEF IndInv, SessInv
    <2>2. \A e \in Side : Other(e) \in Side
        BY SideFacts
    <2> QED BY <1>3, <2>1, <2>2 DEF Lifecycle
<1>5. Counted(s)'
    <2>1. Counted(s)
        BY DEF IndInv, SessInv
    <2>2. \A e \in Side : Other(e) \in Side
        BY SideFacts
    <2> QED BY <1>3, <2>1, <2>2 DEF Counted
<1>6. Sockets(s)'
    <2>1. sock[s]["local"] # "none"
        BY BothFacts DEF IndInv, SessInv, Sockets, Running
    <2> QED BY <2>1 DEF IndInv, SessInv, Sockets
<1>7. Buffers(s)'
    <2>1. /\ loop[s][o] = "write" => output[s][o] > 0
          /\ loop[s][o] # "done" \/ eof[s][o]
               => made[s][o] = written[s][o] + output[s][o]
          /\ loop[s][o] # "write" => output[s][o] = 0
        BY <1>1 DEF IndInv, SessInv, Buffers, Done
    <2>2. output'[s][d] \in Nat
        BY <1>1 DEF TypeOK
    <2> HIDE DEF o
    <2>3. /\ made'[s][o] = made[s][o] /\ written'[s][o] = written[s][o]
          /\ loop'[s][o] = loop[s][o] /\ output'[s][o] = output[s][o]
        BY DEF o
    <2> QED BY <1>1, <2>1, <2>2, <2>3 DEF Buffers, Done
<1> QED BY <1>2, <1>4, <1>5, <1>6, <1>7, LoopFrame DEF SessInv

LEMMA ReadDataStep ==
    ASSUME IndInv, NEW s \in Session, NEW d \in Side, NEW k \in 0..MaxOut,
           ReadData(s, d, k)
    PROVE  IndInv'
<1>1. Running(s, d) /\ k \in Nat
    BY BoundAssumption DEF ReadData, Running
<1>2. /\ output[s][d] = 0 /\ made[s][d] = written[s][d]
      /\ written[s][d] \in Nat
    <2>1. output[s][d] = 0 /\ made[s][d] = written[s][d] + output[s][d]
        BY DEF ReadData, IndInv, SessInv, Buffers, Done
    <2>2. written[s][d] \in Nat
        BY DEF IndInv, TypeOK
    <2> QED BY <2>1, <2>2
<1>3. /\ reads' \in [Session -> [Side -> Nat]]
      /\ made' \in [Session -> [Side -> Nat]]
      /\ written' \in [Session -> [Side -> Nat]]
    BY <1>1 DEF ReadData, IndInv, TypeOK
<1>4. /\ made'[s][d] = made[s][d] + k
      /\ made'[s][Other(d)] = made[s][Other(d)]
      /\ \A t \in Session \ {s} : made'[t] = made[t]
      /\ written' = written
    BY SideFacts DEF ReadData, IndInv, TypeOK
<1>5. CASE k = 0 /\ closed[s]
    <2>1. on_done(s, d)
        BY <1>5 DEF ReadData
    <2>2. /\ close_all(s, ~closed[s], sock[s])
          /\ failed' = [failed EXCEPT ![s] = @ \/ ~closed[s]]
        BY <1>5, ClosedEnd DEF ReadData
    <2>3. UNCHANGED <<accVars, eof, stat>>
        BY DEF ReadData
    <2> QED BY <1>1, <1>3, <1>4, <2>1, <2>2, <2>3, EndStep
<1>6. CASE ~(k = 0 /\ closed[s])
    <2>1. /\ loop' = [loop EXCEPT ![s][d] = IF k = 0 THEN "read" ELSE "write"]
          /\ output' = [output EXCEPT ![s][d] = k]
          /\ UNCHANGED <<accVars, sock, eof, closed, done_count, stat,
                         close_calls, close_logs, failed>>
        BY <1>6 DEF ReadData
    <2>2. /\ loop' \in [Session -> [Side -> LoopState]]
          /\ loop'[s][d] = IF k = 0 THEN "read" ELSE "write"
          /\ loop'[s][Other(d)] = loop[s][Other(d)]
          /\ \A t \in Session \ {s} : loop'[t] = loop[t]
        BY <2>1, SideFacts DEF IndInv, TypeOK, LoopState
    <2>3. /\ output' \in [Session -> [Side -> Nat]]
          /\ output'[s][d] = k
          /\ output'[s][Other(d)] = output[s][Other(d)]
          /\ \A t \in Session \ {s} : output'[t] = output[t]
        BY <1>1, <2>1, SideFacts DEF IndInv, TypeOK
    <2>4. TypeOK'
        BY <1>3, <2>1, <2>2, <2>3 DEF IndInv, TypeOK, accVars
    <2>5. Running(s, d)'
        BY <2>2 DEF Running
    <2>6. made'[s][d] = written'[s][d] + output'[s][d]
        BY <1>1, <1>2, <1>4, <2>3
    <2>7. loop'[s][d] = "write" <=> output'[s][d] > 0
        BY <1>1, <2>2, <2>3
    <2> QED BY <1>1, <1>4, <2>1, <2>2, <2>3, <2>4, <2>5, <2>6, <2>7, GoOnStep
<1> QED BY <1>5, <1>6

LEMMA WriteDoneStep ==
    ASSUME IndInv, NEW s \in Session, NEW d \in Side, WriteDone(s, d)
    PROVE  IndInv'
<1>1. Running(s, d)
    BY DEF WriteDone, Running
<1>2. /\ output[s][d] > 0 /\ output[s][d] \in Nat /\ written[s][d] \in Nat
      /\ made[s][d] = written[s][d] + output[s][d]
    <2>1. output[s][d] > 0 /\ made[s][d] = written[s][d] + output[s][d]
        BY DEF WriteDone, IndInv, SessInv, Buffers, Done
    <2>2. output[s][d] \in Nat /\ written[s][d] \in Nat
        BY DEF IndInv, TypeOK
    <2> QED BY <2>1, <2>2
<1>3. /\ reads' \in [Session -> [Side -> Nat]]
      /\ made' \in [Session -> [Side -> Nat]]
      /\ written' \in [Session -> [Side -> Nat]]
    BY DEF WriteDone, IndInv, TypeOK
<1>4. /\ written'[s][d] = written[s][d] + 1
      /\ written'[s][Other(d)] = written[s][Other(d)]
      /\ \A t \in Session \ {s} : written'[t] = written[t]
      /\ made' = made
    BY SideFacts DEF WriteDone, IndInv, TypeOK
<1>5. CASE output[s][d] = 1 /\ closed[s]
    <2>1. on_done(s, d)
        BY <1>5 DEF WriteDone
    <2>2. /\ close_all(s, ~closed[s], sock[s])
          /\ failed' = [failed EXCEPT ![s] = @ \/ ~closed[s]]
        BY <1>5, ClosedEnd DEF WriteDone
    <2>3. UNCHANGED <<accVars, eof, stat>>
        BY DEF WriteDone
    <2> QED BY <1>1, <1>3, <1>4, <2>1, <2>2, <2>3, EndStep
<1>6. CASE ~(output[s][d] = 1 /\ closed[s])
    <2>1. /\ loop' = [loop EXCEPT ![s][d] = IF output[s][d] = 1 THEN "read"
                                                               ELSE "write"]
          /\ output' = [output EXCEPT ![s][d] = @ - 1]
          /\ UNCHANGED <<accVars, sock, eof, closed, done_count, stat,
                         close_calls, close_logs, failed>>
        BY <1>6 DEF WriteDone
    <2>2. /\ loop' \in [Session -> [Side -> LoopState]]
          /\ loop'[s][d] = IF output[s][d] = 1 THEN "read" ELSE "write"
          /\ loop'[s][Other(d)] = loop[s][Other(d)]
          /\ \A t \in Session \ {s} : loop'[t] = loop[t]
        BY <2>1, SideFacts DEF IndInv, TypeOK, LoopState
    <2>3. /\ output' \in [Session -> [Side -> Nat]]
          /\ output'[s][d] = output[s][d] - 1
          /\ output'[s][Other(d)] = output[s][Other(d)]
          /\ \A t \in Session \ {s} : output'[t] = output[t]
        BY <1>2, <2>1, SideFacts DEF IndInv, TypeOK
    <2>4. TypeOK'
        BY <1>3, <2>1, <2>2, <2>3 DEF IndInv, TypeOK, accVars
    <2>5. Running(s, d)'
        BY <2>2 DEF Running
    <2>6. made'[s][d] = written'[s][d] + output'[s][d]
        BY <1>2, <1>4, <2>3
    <2>7. loop'[s][d] = "write" <=> output'[s][d] > 0
        BY <1>2, <2>2, <2>3
    <2> QED BY <1>1, <1>4, <2>1, <2>2, <2>3, <2>4, <2>5, <2>6, <2>7, GoOnStep
<1> QED BY <1>5, <1>6

\* End of file: the branch that closes without testing closed is reached in
\* open sessions only.
LEMMA ReadEofStep ==
    ASSUME IndInv, NEW s \in Session, NEW d \in Side, ReadEof(s, d)
    PROVE  IndInv'
<1> DEFINE o == Other(d)
           shut == [sock[s] EXCEPT ![o] = IF @ = "open" THEN "shut" ELSE @]
<1>1. /\ d \in Side /\ o \in Side /\ o # d /\ Other(d) = o /\ Other(o) = d
      /\ \A e \in Side : e = d \/ e = o
    BY SideFacts
<1>2. /\ loop[s][d] = "read" /\ Running(s, d) /\ on_done(s, d)
      /\ eof' = [eof EXCEPT ![s][d] = TRUE]
      /\ close_all(s, eof[s][o], shut)
      /\ UNCHANGED <<accVars, stat, flow, failed>>
    BY DEF ReadEof, Running
<1>3. LoopEnds(s, d)
    BY <1>2, OnDoneChanges
<1>4. /\ shut \in [Side -> SockState] /\ shut[d] = sock[s][d]
      /\ shut[o] = IF sock[s][o] = "open" THEN "shut" ELSE sock[s][o]
    BY <1>1 DEF IndInv, TypeOK, SockState
<1> HIDE DEF o, shut
<1>5. /\ ~eof[s][d] /\ loop[s][o] # "none"
      /\ eof[s][o] => loop[s][o] = "done" /\ ~closed[s]
      /\ loop[s][o] = "done" /\ ~closed[s] => eof[s][o]
      /\ closed[s] => failed[s]
      /\ closed[s] => loop[s][o] = "done"
    BY <1>1, <1>2 DEF IndInv, SessInv, Lifecycle, Done, Running
<1>6. /\ eof' \in [Session -> [Side -> BOOLEAN]]
      /\ eof'[s][d] /\ eof'[s][o] = eof[s][o]
      /\ \A t \in Session \ {s} : eof'[t] = eof[t]
    BY <1>1, <1>2 DEF IndInv, TypeOK
<1>7. /\ closed' \in [Session -> BOOLEAN]
      /\ closed'[s] <=> closed[s] \/ eof[s][o]
      /\ \A t \in Session \ {s} : closed'[t] = closed[t]
    BY <1>1, <1>2 DEF close_all, IndInv, TypeOK
<1>8. /\ sock' \in [Session -> [Side -> SockState]]
      /\ sock'[s] = IF eof[s][o] THEN Both("closed") ELSE shut
      /\ \A t \in Session \ {s} : sock'[t] = sock[t]
    BY <1>2, <1>4 DEF close_all, IndInv, TypeOK, Both, SockState
<1>9. /\ close_calls' \in [Session -> Nat]
      /\ close_calls'[s] = IF eof[s][o] THEN close_calls[s] + 1
                                        ELSE close_calls[s]
      /\ \A t \in Session \ {s} : close_calls'[t] = close_calls[t]
    BY <1>2 DEF close_all, IndInv, TypeOK
<1>10. TypeOK'
    BY <1>2, <1>3, <1>6, <1>7, <1>8, <1>9 DEF LoopEnds, IndInv, TypeOK,
       accVars, flow
<1>11. \A t \in Session \ {s} : Same(t)
    BY <1>2, <1>3, <1>6, <1>7, <1>8, <1>9 DEF LoopEnds, Same, flow
<1>12. /\ loop'[s][d] = "done" /\ loop'[s][o] = loop[s][o]
       /\ output'[s][d] = 0 /\ output'[s][o] = output[s][o]
    BY <1>1, <1>3 DEF LoopEnds
<1>13. Lifecycle(s)'
    <2>1. ASSUME NEW e \in Side
          PROVE  /\ loop'[s][e] # "none"
                 /\ eof'[s][e] => loop'[s][e] = "done"
                 /\ loop'[s][e] = "done" /\ ~closed'[s] => eof'[s][e]
                 /\ eof'[s][d] /\ eof'[s][o] => closed'[s]
                 /\ closed'[s] => loop'[s][e] = "done"
                 /\ closed'[s] /\ ~failed'[s] => eof'[s][e]
        <3>1. CASE e = d
            BY <1>5, <1>6, <1>7, <1>12, <3>1
        <3>2. CASE e = o
            BY <1>2, <1>5, <1>6, <1>7, <1>12, <3>2
        <3> QED BY <1>1, <3>1, <3>2
    <2>2. \A e \in Side : eof'[s][e] /\ eof'[s][Other(e)] => closed'[s]
        BY <1>1, <2>1
    <2> QED BY <2>1, <2>2 DEF Lifecycle, Done, Running
<1>14. Counted(s)'
    <2>1. close_calls'[s] = IF closed'[s] THEN 1 ELSE 0
        BY <1>5, <1>7, <1>9 DEF IndInv, SessInv, Counted
    <2> QED BY <1>2, <1>3, <2>1, OnDoneCounted
<1>15. Sockets(s)'
    <2>1. /\ closed[s] => sock[s] = Both("closed")
          /\ sock[s][d] = "shut" => eof[s][o]
          /\ sock[s]["local"] # "none"
        BY <1>1, <1>2, BothFacts DEF IndInv, SessInv, Sockets
    <2>2. CASE eof[s][o]
        BY <1>7, <1>8, <2>2, BothFacts, SideFacts DEF Sockets
    <2>3. CASE ~eof[s][o] /\ closed[s]
        <3>1. sock[s][d] = "closed" /\ sock[s][o] = "closed"
            BY <1>1, <2>1, <2>3, BothFacts
        <3>2. shut = Both("closed")
            BY <1>1, <1>4, <3>1 DEF Both
        <3> QED BY <1>8, <2>3, <3>2, BothFacts, SideFacts DEF Sockets
    <2>4. CASE ~eof[s][o] /\ ~closed[s]
        <3>1. ~closed'[s] /\ sock'[s] = shut
            BY <1>7, <1>8, <2>4
        <3>2. shut["local"] # "none"
            BY <1>1, <1>4, <2>1, SideFacts
        <3>3. ASSUME NEW e \in Side, shut[Other(e)] = "shut" PROVE eof'[s][e]
            BY <1>1, <1>4, <1>6, <2>1, <3>3
        <3> QED BY <3>1, <3>2, <3>3 DEF Sockets
    <2> QED BY <2>2, <2>3, <2>4
<1>16. Buffers(s)'
    <2>1. /\ made[s][d] = written[s][d] + output[s][d]
          /\ output[s][d] = 0
          /\ loop[s][o] = "write" => output[s][o] > 0
          /\ loop[s][o] # "done" \/ eof[s][o]
               => made[s][o] = written[s][o] + output[s][o]
          /\ loop[s][o] # "write" => output[s][o] = 0
        BY <1>1, <1>2 DEF IndInv, SessInv, Buffers, Done
    <2>2. made' = made /\ written' = written
        BY <1>2 DEF flow
    <2> QED BY <1>1, <1>6, <1>12, <2>1, <2>2 DEF Buffers, Done
<1> QED BY <1>2, <1>10, <1>11, <1>13, <1>14, <1>15, <1>16, LoopFrame
        DEF SessInv

-----------------------------------------------------------------------------
(* Every step, and the theorems *)

LEMMA StatEndsStep ==
    ASSUME IndInv, NEW s \in Session, StatEnds(s)
    PROVE  IndInv'
<1>1. TypeOK'
    BY DEF StatEnds, IndInv, TypeOK, StatState, accVars, flow
<1>2. Accepting'
    BY DEF StatEnds, IndInv, Accepting, accVars
<1>3. ASSUME NEW t \in Session PROVE SessInv(t)'
    BY SameInv DEF StatEnds, IndInv, Same, flow
<1> QED BY <1>1, <1>2, <1>3 DEF IndInv

LEMMA StepIndInv == IndInv /\ [Next]_vars => IndInv'
<1> SUFFICES ASSUME IndInv, [Next]_vars PROVE IndInv'
    OBVIOUS
<1>1. CASE AcceptFail
    BY <1>1, AcceptFailStep
<1>2. CASE Connected
    BY <1>2, ConnectedStep
<1>3. CASE ConnectFail
    BY <1>3, ConnectFailStep
<1>4. CASE \E s \in Session : Accept(s) \/ AcceptThrows(s) \/ StatEnds(s)
    BY <1>4, AcceptStep, StatEndsStep
<1>5. CASE \E s \in Session, d \in Side : LoopNext(s, d)
    BY <1>5, ReadDataStep, WriteDoneStep, ReadEofStep, ReadAbortedStep,
       FailsStep DEF LoopNext
<1>6. CASE UNCHANGED vars
    <2>1. TypeOK' /\ Accepting'
        BY <1>6 DEF IndInv, TypeOK, Accepting, vars, accVars, flow
    <2>2. ASSUME NEW t \in Session PROVE SessInv(t)'
        BY <1>6, SameInv DEF IndInv, Same, vars, flow
    <2> QED BY <2>1, <2>2 DEF IndInv
<1> QED BY <1>1, <1>2, <1>3, <1>4, <1>5, <1>6 DEF Next

LEMMA Invariance == Spec => []IndInv
BY InitIndInv, StepIndInv, PTL DEF Spec

\* Every variable of the tunnel keeps its type.
THEOREM TypeCorrect == Spec => []TypeOK
<1>1. IndInv => TypeOK
    BY DEF IndInv
<1> QED BY <1>1, Invariance, PTL

\* close_all runs at most once in a session, although read_local and
\* read_remote call it without testing closed when both streams have ended.
THEOREM ClosedOnce == Spec => []CloseAllOnce
<1>1. IndInv => CloseAllOnce
    <2> SUFFICES ASSUME IndInv, NEW s \in Session PROVE close_calls[s] <= 1
        BY DEF CloseAllOnce
    <2>1. close_calls[s] = IF closed[s] THEN 1 ELSE 0
        BY DEF IndInv, SessInv, Counted
    <2> QED BY <2>1
<1> QED BY <1>1, Invariance, PTL

\* When both loops have ended the session and its sockets are closed, and
\* conn_close has been logged exactly once.
THEOREM NoLeak == Spec => []EndedMeansClosed
<1>1. IndInv => EndedMeansClosed
    <2> SUFFICES ASSUME IndInv, NEW s \in Session
                 PROVE  /\ (\A d \in Side : loop[s][d] = "done")
                              => closed[s] /\ sock[s] = Both("closed")
                        /\ close_logs[s] = (IF \A d \in Side : loop[s][d] = "done"
                                            THEN 1 ELSE 0)
        BY DEF EndedMeansClosed
    <2>1. SessInv(s)
        BY DEF IndInv
    <2>2. (\A d \in Side : loop[s][d] = "done") => closed[s]
        BY <2>1, SideFacts DEF SessInv, Lifecycle, Done
    <2>3. closed[s] => sock[s] = Both("closed")
        BY <2>1 DEF SessInv, Sockets
    <2>4. done_count[s] = 2 <=> \A d \in Side : loop[s][d] = "done"
        BY <2>1, SideFacts DEF SessInv, Counted, Done
    <2>5. close_logs[s] = IF done_count[s] = 2 THEN 1 ELSE 0
        BY <2>1 DEF SessInv, Counted
    <2> QED BY <2>2, <2>3, <2>4, <2>5
<1> QED BY <1>1, Invariance, PTL

\* A side is shut down (shutdown_send) only behind the last buffer for it.
THEOREM HalfCloseAfterData == Spec => []FinAfterData
<1>1. IndInv => FinAfterData
    <2> SUFFICES ASSUME IndInv, NEW s \in Session, NEW d \in Side,
                        sock[s][Other(d)] = "shut"
                 PROVE  eof[s][d] /\ written[s][d] = made[s][d]
        BY DEF FinAfterData
    <2>1. eof[s][d]
        BY DEF IndInv, SessInv, Sockets
    <2>2. Done(s, d)
        BY <2>1 DEF IndInv, SessInv, Lifecycle
    <2>3. output[s][d] = 0 /\ made[s][d] = written[s][d] + output[s][d]
        BY <2>1, <2>2 DEF IndInv, SessInv, Buffers, Done
    <2>4. written[s][d] \in Nat
        BY DEF IndInv, TypeOK
    <2> QED BY <2>1, <2>3, <2>4
<1> QED BY <1>1, Invariance, PTL

\* A session in which nothing failed is closed only when both streams have
\* ended and all buffers have been written.
THEOREM CleanClose == Spec => []CloseLosesNothing
<1>1. IndInv => CloseLosesNothing
    <2> SUFFICES ASSUME IndInv, NEW s \in Session, closed[s], ~failed[s],
                        NEW d \in Side
                 PROVE  eof[s][d] /\ written[s][d] = made[s][d]
        BY DEF CloseLosesNothing
    <2>1. eof[s][d]
        BY DEF IndInv, SessInv, Lifecycle
    <2>2. Done(s, d)
        BY <2>1 DEF IndInv, SessInv, Lifecycle
    <2>3. output[s][d] = 0 /\ made[s][d] = written[s][d] + output[s][d]
        BY <2>1, <2>2 DEF IndInv, SessInv, Buffers, Done
    <2>4. written[s][d] \in Nat
        BY DEF IndInv, TypeOK
    <2> QED BY <2>1, <2>3, <2>4
<1> QED BY <1>1, Invariance, PTL
==============================================================================
