----------------------------- MODULE RelayServer -----------------------------
(***************************************************************************)
(* run_server: role A, the matcher.  Every accepted connection gets a      *)
(* handler that reads REGISTER and puts the peer into its slot of          *)
(* pairs[id]; the handler that completes a pair tells both peers READY and *)
(* starts two pumps, which forward frames until one direction ends.        *)
(*                                                                         *)
(* inbox and outbox are the two directions of a connection's byte stream,  *)
(* frame by frame: what the peer has sent and A has not read, and all that *)
(* A has written.  Forwarded frames are numbered by their sender, so that  *)
(* loss and reordering show.  write_frame is not serialised by anything: a *)
(* frame is written from the step that calls it to the step that returns.  *)
(* What a peer does is external: it connects, registers, sends frames, may *)
(* close or vanish at any moment.                                          *)
(***************************************************************************)
EXTENDS Naturals, Sequences

CONSTANTS
    Conn,           \* connections the acceptor may return
    Id,             \* the identifiers peers register
    NoConn,         \* an empty slot
    NoId,           \* the identifier of a connection that has not registered
    MaxFrames,      \* bound: frames the peer sends after REGISTER
    PeersSendEof    \* bound: whether an instance has peers that send EOF_

ASSUME ConnAssumption == NoConn \notin Conn
ASSUME IdAssumption == NoId \notin Id
ASSUME MaxFramesAssumption == MaxFrames \in [Conn -> Nat]
ASSUME PeersSendEofAssumption == PeersSendEof \in BOOLEAN

Role == {"B", "C"}
Other(r) == IF r = "B" THEN "C" ELSE "B"

VARIABLES
    sock,           \* the socket of a connection, as A holds it
    gone,           \* the peer has closed or lost its end
    sent,           \* frames the peer has sent after REGISTER
    inbox,          \* frames the peer sent that A has not read
    outbox,         \* frames A wrote, in order
    handler,        \* where the handler of a connection is
    peer_id,        \* Peer::id and Peer::role, as registered
    peer_role,
    slot,           \* slot[i][r]: Match::b and Match::c of pairs[i]
    dead,           \* Match::dead
    pump,           \* pump[i][r]: where the pump that reads from role r is
    held            \* held[i][r]: the frame that pump is forwarding

vars == <<sock, gone, sent, inbox, outbox, handler, peer_id, peer_role, slot,
          dead, pump, held>>
peers == <<peer_id, peer_role>>

SockState == {"none", "open", "closed"}
HandlerState == {"none", "read", "reject", "readyB", "readyC", "done"}
PumpState == {"none", "read", "forward", "forwardEof", "final", "done",
              "thrown"}

\* Frames, as far as the pumps tell them apart: the peer's n-th frame, EOF_
\* and READY.
Data(n) == [method |-> "DATA", n |-> n]
EOF_ == [method |-> "EOF", n |-> 0]
READY == [method |-> "READY", n |-> 0]
Frame == [method : {"DATA", "EOF", "READY"}, n : Nat]

Init ==
    /\ sock = [c \in Conn |-> "none"]
    /\ gone = [c \in Conn |-> FALSE]
    /\ sent = [c \in Conn |-> 0]
    /\ inbox = [c \in Conn |-> <<>>]
    /\ outbox = [c \in Conn |-> <<>>]
    /\ handler = [c \in Conn |-> "none"]
    /\ peer_id = [c \in Conn |-> NoId]
    /\ peer_role = [c \in Conn |-> "none"]
    /\ slot = [i \in Id |-> [r \in Role |-> NoConn]]
    /\ dead = [i \in Id |-> FALSE]
    /\ pump = [i \in Id |-> [r \in Role |-> "none"]]
    /\ held = [i \in Id |-> [r \in Role |-> EOF_]]

-----------------------------------------------------------------------------
(* Sockets *)

\* A write that starts on a closed socket, or to a peer that is gone, may
\* fail; on an open socket it may also succeed (the kernel takes the bytes
\* before it learns that the peer is gone).
CanWrite(c) == sock[c] = "open"
CanFail(c) == sock[c] # "open" \/ gone[c]

Written(c, f) == outbox' = [outbox EXCEPT ![c] = Append(@, f)]

\* read_frame fails: A closed the socket, or the peer's stream is at its end.
StreamEnds(c) == sock[c] # "open" \/ (gone[c] /\ inbox[c] = <<>>)

-----------------------------------------------------------------------------
(* Peers (external) *)

\* run_node sends nothing before READY.  B and C of this repository send no
\* EOF_; the protocol lets a peer end its stream with one, and A handles it.
PeerSend(c) ==
    /\ sock[c] = "open" /\ ~gone[c]
    /\ outbox[c] # <<>> /\ Head(outbox[c]) = READY
    /\ sent[c] < MaxFrames[c]
    /\ \/ /\ sent' = [sent EXCEPT ![c] = @ + 1]
          /\ inbox' = [inbox EXCEPT ![c] = Append(@, Data(sent[c] + 1))]
       \/ /\ PeersSendEof
          /\ sent' = [sent EXCEPT ![c] = MaxFrames[c]]
          /\ inbox' = [inbox EXCEPT ![c] = Append(@, EOF_)]
    /\ UNCHANGED <<sock, gone, outbox, handler, peers, slot, dead, pump, held>>

\* The peer closes, crashes or is cut off; frames under way may be lost from
\* some point on.
PeerGone(c) ==
    /\ sock[c] # "none" /\ ~gone[c]
    /\ gone' = [gone EXCEPT ![c] = TRUE]
    /\ \E k \in 0..Len(inbox[c]) :
          inbox' = [inbox EXCEPT ![c] = SubSeq(@, 1, k)]
    /\ UNCHANGED <<sock, sent, outbox, handler, peers, slot, dead, pump, held>>

-----------------------------------------------------------------------------
(* The handler of a connection *)

Accept(c) ==
    /\ handler[c] = "none"
    /\ sock' = [sock EXCEPT ![c] = "open"]
    /\ handler' = [handler EXCEPT ![c] = "read"]
    /\ UNCHANGED <<gone, sent, inbox, outbox, peers, slot, dead, pump, held>>

\* No frame, or one that is not a well-formed REGISTER: co_return, and the
\* destructor closes the socket.
BadRegister(c) ==
    /\ handler[c] = "read"
    /\ handler' = [handler EXCEPT ![c] = "done"]
    /\ sock' = [sock EXCEPT ![c] = "closed"]
    /\ UNCHANGED <<gone, sent, inbox, outbox, peers, slot, dead, pump, held>>

\* Mutant: a slot that is taken is taken over.
Register_overwrites(c, i, r) ==
    /\ handler[c] = "read"
    /\ peer_id' = [peer_id EXCEPT ![c] = i]
    /\ peer_role' = [peer_role EXCEPT ![c] = r]
    /\ slot' = [slot EXCEPT ![i][r] = c]
    /\ handler' = [handler EXCEPT ![c] =
                     IF slot[i][Other(r)] # NoConn THEN "readyB" ELSE "done"]
    /\ UNCHANGED <<sock, gone, sent, inbox, outbox, dead, pump, held>>

\* Mutant: the role letter is stored unchecked.
Register_anyRole(c, i, r) ==
    /\ handler[c] = "read"
    /\ peer_id' = [peer_id EXCEPT ![c] = i]
    /\ peer_role' = [peer_role EXCEPT ![c] = "X"]
    /\ handler' = [handler EXCEPT ![c] = "done"]
    /\ UNCHANGED <<sock, gone, sent, inbox, outbox, slot, dead, pump, held>>

\* Mutant: a pair is complete only when C comes second.
Register_bFirst(c, i, r) ==
    /\ handler[c] = "read"
    /\ peer_id' = [peer_id EXCEPT ![c] = i]
    /\ peer_role' = [peer_role EXCEPT ![c] = r]
    /\ slot' = IF slot[i][r] = NoConn THEN [slot EXCEPT ![i][r] = c] ELSE slot
    /\ handler' = [handler EXCEPT ![c] =
                     IF slot[i][r] # NoConn THEN "reject"
                     ELSE IF r = "C" /\ slot[i]["B"] # NoConn THEN "readyB" ELSE "done"]
    /\ UNCHANGED <<sock, gone, sent, inbox, outbox, dead, pump, held>>

\* REGISTER "id role".  The slot is looked up, tested and set without an
\* await in between.
Register(c, i, r) ==
    /\ handler[c] = "read"
    /\ peer_id' = [peer_id EXCEPT ![c] = i]
    /\ peer_role' = [peer_role EXCEPT ![c] = r]
    /\ slot' = IF slot[i][r] = NoConn THEN [slot EXCEPT ![i][r] = c] ELSE slot
    /\ handler' = [handler EXCEPT ![c] =
                     IF slot[i][r] # NoConn THEN "reject"
                     ELSE IF slot[i][Other(r)] # NoConn THEN "readyB" ELSE "done"]
    /\ UNCHANGED <<sock, gone, sent, inbox, outbox, dead, pump, held>>

\* The EOF_ to a duplicate returned, or threw: the handler ends either way
\* and the destructor closes the socket.
Rejected(c) ==
    /\ handler[c] = "reject"
    /\ \/ CanWrite(c) /\ Written(c, EOF_)
       \/ CanFail(c) /\ UNCHANGED outbox
    /\ handler' = [handler EXCEPT ![c] = "done"]
    /\ sock' = [sock EXCEPT ![c] = "closed"]
    /\ UNCHANGED <<gone, sent, inbox, peers, slot, dead, pump, held>>

\* READY to B, then READY to C, by the handler of whichever came second.
ReadyBWritten(c) ==
    LET b == slot[peer_id[c]]["B"]
    IN  /\ handler[c] = "readyB"
        /\ CanWrite(b)
        /\ Written(b, READY)
        /\ handler' = [handler EXCEPT ![c] = "readyC"]
        /\ UNCHANGED <<sock, gone, sent, inbox, peers, slot, dead, pump, held>>

\* After both the pumps are spawned.
ReadyCWritten(c) ==
    LET i == peer_id[c]
        cc == slot[i]["C"]
    IN  /\ handler[c] = "readyC"
        /\ CanWrite(cc)
        /\ Written(cc, READY)
        /\ handler' = [handler EXCEPT ![c] = "done"]
        /\ pump' = [pump EXCEPT ![i] = [r \in Role |-> "read"]]
        /\ UNCHANGED <<sock, gone, sent, inbox, peers, slot, dead, held>>

\* A READY write throws: the exception ends the handler, no pump is spawned
\* and both peers stay in their slots.
ReadyFail(c) ==
    LET r == IF handler[c] = "readyB" THEN "B" ELSE "C"
    IN  /\ handler[c] \in {"readyB", "readyC"}
        /\ CanFail(slot[peer_id[c]][r])
        /\ handler' = [handler EXCEPT ![c] = "done"]
        /\ UNCHANGED <<sock, gone, sent, inbox, outbox, peers, slot, dead,
                       pump, held>>

-----------------------------------------------------------------------------
(* pump_one_way(from, to, match) of pair i, from the peer with role r *)

PumpTo(i, r, s) == pump' = [pump EXCEPT ![i][r] = s]

\* Mutant: the frame is not taken off the stream.
PumpRead_rereads(i, r) ==
    LET from == slot[i][r]
    IN  /\ pump[i][r] = "read"
        /\ sock[from] = "open"
        /\ inbox[from] # <<>>
        /\ held' = [held EXCEPT ![i][r] = Head(inbox[from])]
        /\ PumpTo(i, r, "forward")
        /\ UNCHANGED <<sock, gone, sent, inbox, outbox, handler, peers, slot,
                       dead>>

PumpRead(i, r) ==
    LET from == slot[i][r]
    IN  /\ pump[i][r] = "read"
        /\ sock[from] = "open"
        /\ inbox[from] # <<>>
        /\ held' = [held EXCEPT ![i][r] = Head(inbox[from])]
        /\ inbox' = [inbox EXCEPT ![from] = Tail(@)]
        /\ PumpTo(i, r, IF Head(inbox[from]) = EOF_ THEN "forwardEof" ELSE "forward")
        /\ UNCHANGED <<sock, gone, sent, outbox, handler, peers, slot, dead>>

\* The frame went out (NEW_SESSION as FORWARD_SESSION: see RelayWire).
PumpForwarded(i, r) ==
    LET to == slot[i][Other(r)]
    IN  /\ pump[i][r] = "forward"
        /\ CanWrite(to)
        /\ Written(to, held[i][r])
        /\ PumpTo(i, r, "read")
        /\ UNCHANGED <<sock, gone, sent, inbox, handler, peers, slot, dead, held>>

\* Mutant: the latch is set and not tested.
LeaveLoop_untested(i, r) ==
    /\ dead' = [dead EXCEPT ![i] = TRUE]
    /\ PumpTo(i, r, "final")

\* The loop is left: by a failed read, a failed write (caught), or after an
\* EOF_ frame was passed on.  The first pump of a pair to get here latches
\* dead and goes on to tell the other side; the second one just ends.
LeaveLoop(i, r) ==
    /\ dead' = [dead EXCEPT ![i] = TRUE]
    /\ PumpTo(i, r, IF dead[i] THEN "done" ELSE "final")

\* EOF_ came from the peer: pass it on, close the other side, leave.
PumpEofForwarded(i, r) ==
    LET to == slot[i][Other(r)]
    IN  /\ pump[i][r] = "forwardEof"
        /\ CanWrite(to)
        /\ Written(to, EOF_)
        /\ sock' = [sock EXCEPT ![to] = "closed"]
        /\ LeaveLoop(i, r)
        /\ UNCHANGED <<gone, sent, inbox, handler, peers, slot, held>>

PumpEnds(i, r) ==
    /\ \/ pump[i][r] = "read" /\ StreamEnds(slot[i][r])
       \/ pump[i][r] \in {"forward", "forwardEof"} /\ CanFail(slot[i][Other(r)])
    /\ LeaveLoop(i, r)
    /\ UNCHANGED <<sock, gone, sent, inbox, outbox, handler, peers, slot, held>>

\* Mutant: the other side is told and its socket left open.
FinalWritten_keepsTo(i, r) ==
    LET to == slot[i][Other(r)]
    IN  /\ pump[i][r] = "final"
        /\ CanWrite(to)
        /\ Written(to, EOF_)
        /\ sock' = [sock EXCEPT ![slot[i][r]] = "closed"]
        /\ PumpTo(i, r, "done")
        /\ UNCHANGED <<gone, sent, inbox, handler, peers, slot, dead, held>>

\* write_frame(to, EOF_); to->sock.close(); from->sock.close()
FinalWritten(i, r) ==
    LET to == slot[i][Other(r)]
    IN  /\ pump[i][r] = "final"
        /\ CanWrite(to)
        /\ Written(to, EOF_)
        /\ sock' = [sock EXCEPT ![to] = "closed", ![slot[i][r]] = "closed"]
        /\ PumpTo(i, r, "done")
        /\ UNCHANGED <<gone, sent, inbox, handler, peers, slot, dead, held>>

\* The last write is outside the try block: when it throws, neither socket is
\* closed.
FinalFail(i, r) ==
    /\ pump[i][r] = "final"
    /\ CanFail(slot[i][Other(r)])
    /\ PumpTo(i, r, "thrown")
    /\ UNCHANGED <<sock, gone, sent, inbox, outbox, handler, peers, slot,
                   dead, held>>

-----------------------------------------------------------------------------

HandlerNext(c) ==
    \/ Accept(c) \/ BadRegister(c) \/ Rejected(c)
    \/ ReadyBWritten(c) \/ ReadyCWritten(c) \/ ReadyFail(c)
    \/ \E i \in Id, r \in Role : Register(c, i, r)

PumpStep(i, r) ==
    \/ PumpRead(i, r) \/ PumpForwarded(i, r) \/ PumpEofForwarded(i, r)
    \/ PumpEnds(i, r)
    \/ FinalWritten(i, r) \/ FinalFail(i, r)

Next ==
    \/ \E c \in Conn : PeerSend(c) \/ PeerGone(c) \/ HandlerNext(c)
    \/ \E i \in Id, r \in Role : PumpStep(i, r)

Spec == Init /\ [][Next]_vars

\* A frame that arrived is read and a started operation completes; the peers
\* owe nothing.
Fairness ==
    /\ \A c \in Conn : WF_vars(Rejected(c) \/ ReadyBWritten(c)
                                 \/ ReadyCWritten(c) \/ ReadyFail(c))
    /\ \A i \in Id, r \in Role : WF_vars(PumpStep(i, r))

FairSpec == Spec /\ Fairness

-----------------------------------------------------------------------------
(* Properties *)

\* Every variable has its type.
TypeOK ==
    /\ sock \in [Conn -> SockState]
    /\ gone \in [Conn -> BOOLEAN]
    /\ sent \in [Conn -> Nat]
    /\ inbox \in [Conn -> Seq(Frame)]
    /\ outbox \in [Conn -> Seq(Frame)]
    /\ handler \in [Conn -> HandlerState]
    /\ peer_id \in [Conn -> Id \union {NoId}]
    /\ peer_role \in [Conn -> Role \union {"none"}]
    /\ slot \in [Id -> [Role -> Conn \union {NoConn}]]
    /\ dead \in [Id -> BOOLEAN]
    /\ pump \in [Id -> [Role -> PumpState]]
    /\ held \in [Id -> [Role -> Frame]]

\* The coroutines that have a write_frame under way on the socket of c.
HandlerWrites(d, c) ==
    \/ handler[d] = "reject" /\ d = c
    \/ handler[d] = "readyB" /\ slot[peer_id[d]]["B"] = c
    \/ handler[d] = "readyC" /\ slot[peer_id[d]]["C"] = c

PumpWrites(i, r, c) ==
    /\ pump[i][r] \in {"forward", "forwardEof", "final"}
    /\ slot[i][Other(r)] = c

\* write_frame is not serialised on the server: nothing but the protocol of
\* handlers and pumps keeps two coroutines from writing to one socket at a
\* time, which would mix up their frames.
SingleWriter ==
    \A c \in Conn :
        /\ \A d, e \in Conn :
              HandlerWrites(d, c) /\ HandlerWrites(e, c) => d = e
        /\ \A i, j \in Id, r, s \in Role :
              PumpWrites(i, r, c) /\ PumpWrites(j, s, c) => i = j /\ r = s
        /\ \A d \in Conn, i \in Id, r \in Role :
              ~(HandlerWrites(d, c) /\ PumpWrites(i, r, c))

\* The peer c is paired with, once it holds its slot and the other is taken.
Partner(c) ==
    IF peer_id[c] \in Id /\ slot[peer_id[c]][peer_role[c]] = c
    THEN slot[peer_id[c]][Other(peer_role[c])] ELSE NoConn

\* What A writes to a peer: EOF_ alone to a duplicate, who never gets a frame
\* of the pair it wanted to join, and to a paired peer READY, then the frames
\* its partner sent, in order and without a gap, then at most one EOF_.
OutboxWellFormed ==
    \A c \in Conn :
        \/ outbox[c] = <<>>
        \/ outbox[c] = <<EOF_>> /\ \A i \in Id, r \in Role : slot[i][r] # c
        \/ /\ Partner(c) # NoConn
           /\ \E k \in 0..sent[Partner(c)] :
                 LET stream == <<READY>> \o [n \in 1..k |-> Data(n)]
                 IN  outbox[c] \in {stream, Append(stream, EOF_)}

\* At most one pump of a pair tells the other side and closes the sockets.
ClosedByOnePump ==
    \A i \in Id : ~\A r \in Role : pump[i][r] \in {"final", "thrown"}

Ended(i, r) == pump[i][r] \in {"done", "thrown"}

\* When one pump of a pair has ended the other does not go on for ever.
PumpsEndTogether ==
    \A i \in Id, r \in Role : Ended(i, r) ~> Ended(i, Other(r))

\* Two peers that hold the slots of an identifier get their pumps, whichever
\* of them came first, or one of them is gone: the handler of the second
\* throws only when a peer is lost (relay.cpp:337-343).
PairStarts ==
    \A i \in Id :
        (\A r \in Role : slot[i][r] # NoConn)
          ~> \/ \A r \in Role : pump[i][r] # "none"
             \/ \E r \in Role : slot[i][r] # NoConn /\ gone[slot[i][r]]

-----------------------------------------------------------------------------
(* What the documentation and the comments say and the code does not do *)

\* docs/abc_protocol.md:219-221: when one peer disconnected, A sends EOF to
\* the other and closes its connection.
SurvivorClosed ==
    \A i \in Id, r \in Role :
        LET lost == slot[i][r]
            survivor == slot[i][Other(r)]
        IN  Ended(i, "B") /\ Ended(i, "C") /\ gone[lost] =>
                sock[survivor] = "closed" \/ gone[survivor]
==============================================================================
