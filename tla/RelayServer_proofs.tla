-------------------------- MODULE RelayServer_proofs --------------------------
(***************************************************************************)
(* Theorems about the matcher, for any number of connections, identifiers  *)
(* and frames: type correctness, one writer per socket at a time, one pump *)
(* that closes a pair, and what each peer is sent.                         *)
(***************************************************************************)
EXTENDS RelayServer, SequenceTheorems, TLAPS

-----------------------------------------------------------------------------
(* The inductive invariant *)

Ready(c) == handler[c] \in {"readyB", "readyC"}

\* A connection in a slot registered for that slot, and was not rejected.
SlotsRegistered ==
    \A i \in Id, r \in Role :
        slot[i][r] # NoConn =>
            /\ peer_id[slot[i][r]] = i
            /\ peer_role[slot[i][r]] = r
            /\ handler[slot[i][r]] \in {"readyB", "readyC", "done"}

\* A handler that announces READY completed its pair.
ReadyCompletesPair ==
    \A c \in Conn : Ready(c) =>
        /\ peer_id[c] \in Id
        /\ \A r \in Role : slot[peer_id[c]][r] # NoConn

\* No two handlers announce the same pair.
OneReady ==
    \A c, d \in Conn : Ready(c) /\ Ready(d) /\ peer_id[c] = peer_id[d] => c = d

\* The pumps of a pair run once it is complete and announced.
PumpsAfterReady ==
    \A i \in Id, r \in Role : pump[i][r] # "none" =>
        /\ \A s \in Role : slot[i][s] # NoConn
        /\ \A c \in Conn : Ready(c) => peer_id[c] # i

\* The latch dead is set by the first pump that leaves its loop.
DeadLatched ==
    \A i \in Id, r \in Role : pump[i][r] \in {"final", "thrown"} => dead[i]

\* What registrations keep, and what the pumps keep.
Registration ==
    /\ SlotsRegistered
    /\ ReadyCompletesPair
    /\ OneReady
    /\ PumpsAfterReady

Latch == DeadLatched /\ ClosedByOnePump

IndInv == TypeOK /\ Registration /\ Latch

-----------------------------------------------------------------------------

\* The frames of the model are frames, and the roles come in pairs.
LEMMA FrameFacts ==
    /\ EOF_ \in Frame
    /\ READY \in Frame
    /\ \A n \in Nat : Data(n) \in Frame
BY DEF EOF_, READY, Data, Frame

LEMMA RoleFacts ==
    /\ \A r \in Role : Other(r) \in Role /\ Other(r) # r
    /\ \A r, s \in Role : Other(r) = Other(s) => r = s
    /\ \A r, s \in Role : s # r => s = Other(r)
    /\ "B" \in Role /\ "C" \in Role
BY DEF Role, Other

LEMMA InitIndInv == Init => IndInv
BY FrameFacts DEF Init, IndInv, Registration, Latch, TypeOK, SlotsRegistered,
   ReadyCompletesPair, OneReady, PumpsAfterReady, DeadLatched,
   ClosedByOnePump, Ready, SockState, HandlerState, PumpState, Role, Frame

\* A pump that runs has a connection on either side.
LEMMA PumpHasBothPeers ==
    ASSUME IndInv, NEW i \in Id, NEW r \in Role, pump[i][r] # "none"
    PROVE  \A s \in Role : slot[i][s] \in Conn
BY ConnAssumption DEF IndInv, Registration, TypeOK, PumpsAfterReady

\* So has a handler that announces its pair.
LEMMA ReadyHasBothPeers ==
    ASSUME IndInv, NEW c \in Conn, Ready(c)
    PROVE  peer_id[c] \in Id /\ \A s \in Role : slot[peer_id[c]][s] \in Conn
BY ConnAssumption DEF IndInv, Registration, TypeOK, ReadyCompletesPair

\* What peers do and what only moves frames disturbs neither registrations
\* nor the latch.
LEMMA ControlUnchanged ==
    ASSUME IndInv, UNCHANGED <<handler, peers, slot, dead, pump>>
    PROVE  Registration' /\ Latch'
BY DEF IndInv, Registration, Latch, SlotsRegistered, ReadyCompletesPair,
   OneReady, PumpsAfterReady, DeadLatched, ClosedByOnePump, Ready, peers

\* A pump that moves on from a running state disturbs no registration.
LEMMA PumpMoves ==
    ASSUME IndInv, NEW i \in Id, NEW r \in Role, NEW s \in PumpState,
           pump[i][r] # "none", PumpTo(i, r, s),
           UNCHANGED <<handler, peers, slot>>
    PROVE  Registration'
<1>1. \A j \in Id, q \in Role : pump'[j][q] # "none" => pump[j][q] # "none"
  BY DEF PumpTo, IndInv, TypeOK
<1> QED
  BY <1>1 DEF IndInv, Registration, SlotsRegistered, ReadyCompletesPair,
     OneReady, PumpsAfterReady, Ready, peers

\* Within the loop it does not disturb the latch either.
LEMMA PumpStaysInLoop ==
    ASSUME IndInv, NEW i \in Id, NEW r \in Role,
           NEW s \in {"read", "forward", "forwardEof", "done"},
           PumpTo(i, r, s), UNCHANGED dead
    PROVE  Latch'
BY DEF IndInv, TypeOK, Latch, DeadLatched, ClosedByOnePump, PumpTo

\* Leaving the loop sets the latch, and only the first pump to leave goes on
\* to close the pair.
LEMMA LeaveLoopLatch ==
    ASSUME IndInv, NEW i \in Id, NEW r \in Role, LeaveLoop(i, r)
    PROVE  Latch'
<1>1. pump'[i][r] = IF dead[i] THEN "done" ELSE "final"
  BY DEF LeaveLoop, PumpTo, IndInv, TypeOK
<1>2. \A j \in Id, q \in Role : j # i \/ q # r => pump'[j][q] = pump[j][q]
  BY DEF LeaveLoop, PumpTo, IndInv, TypeOK
<1>3. dead'[i] = TRUE /\ \A j \in Id : j # i => dead'[j] = dead[j]
  BY DEF LeaveLoop, IndInv, TypeOK
<1>4. DeadLatched'
  BY <1>1, <1>2, <1>3 DEF IndInv, Latch, DeadLatched
<1>5. ClosedByOnePump'
  <2>1. ASSUME NEW j \in Id, \A q \in Role : pump'[j][q] \in {"final", "thrown"}
        PROVE  FALSE
    <3>1. CASE j # i
      BY <2>1, <3>1, <1>2 DEF IndInv, Latch, ClosedByOnePump
    <3>2. CASE j = i
      <4>1. ~dead[i]
        BY <2>1, <3>2, <1>1
      <4>2. pump[i][Other(r)] \in {"final", "thrown"}
        BY <2>1, <3>2, <1>2, RoleFacts
      <4> QED
        BY <4>1, <4>2, RoleFacts DEF IndInv, Latch, DeadLatched
    <3> QED
      BY <3>1, <3>2
  <2> QED
    BY <2>1 DEF ClosedByOnePump
<1> QED
  BY <1>4, <1>5 DEF Latch

-----------------------------------------------------------------------------
(* Registration *)

\* REGISTER fills an empty slot, or is rejected.
LEMMA RegisterStep ==
    ASSUME IndInv, NEW c \in Conn, NEW i \in Id, NEW r \in Role,
           Register(c, i, r)
    PROVE  IndInv'
<1> USE DEF IndInv, Registration
<1>1. TypeOK'
  BY DEF TypeOK, Register, HandlerState
<1>2. /\ handler[c] = "read"
      /\ \A d \in Conn : d # c => /\ handler'[d] = handler[d]
                                  /\ peer_id'[d] = peer_id[d]
                                  /\ peer_role'[d] = peer_role[d]
      /\ peer_id'[c] = i /\ peer_role'[c] = r
  BY DEF Register, TypeOK
<1>3. \A j \in Id, q \in Role : slot[j][q] # c
  BY <1>2, ConnAssumption DEF SlotsRegistered
<1>4. CASE slot[i][r] # NoConn
  <2>1. handler'[c] = "reject" /\ slot' = slot /\ pump' = pump
    BY <1>4 DEF Register, TypeOK
  <2>2. SlotsRegistered'
    BY <1>2, <1>3, <2>1, ConnAssumption DEF SlotsRegistered, TypeOK
  <2>3. ReadyCompletesPair' /\ OneReady' /\ PumpsAfterReady'
    BY <1>2, <2>1 DEF ReadyCompletesPair, OneReady, PumpsAfterReady, Ready
  <2> QED
    BY <1>1, <2>2, <2>3 DEF Register, Latch, DeadLatched, ClosedByOnePump
<1>5. CASE slot[i][r] = NoConn
  <2>1. /\ handler'[c] = IF slot[i][Other(r)] # NoConn THEN "readyB" ELSE "done"
        /\ slot'[i][r] = c
        /\ \A j \in Id, q \in Role : j # i \/ q # r => slot'[j][q] = slot[j][q]
        /\ pump' = pump /\ dead' = dead
    BY <1>5, RoleFacts DEF Register, TypeOK
  <2>2. \A q \in Role : pump[i][q] = "none"
    BY <1>5 DEF PumpsAfterReady
  <2>3. \A d \in Conn : Ready(d) => peer_id[d] # i
    BY <1>5 DEF ReadyCompletesPair
  <2>4. SlotsRegistered'
    <3>1. handler'[c] \in {"readyB", "readyC", "done"}
      BY <2>1
    <3>2. ASSUME NEW j \in Id, NEW q \in Role, j # i \/ q # r,
                 slot'[j][q] # NoConn
          PROVE  /\ peer_id'[slot'[j][q]] = j
                 /\ peer_role'[slot'[j][q]] = q
                 /\ handler'[slot'[j][q]] \in {"readyB", "readyC", "done"}
      <4>1. slot'[j][q] = slot[j][q] /\ slot[j][q] \in Conn /\ slot[j][q] # c
        BY <1>3, <2>1, <3>2 DEF TypeOK
      <4> QED
        BY <1>2, <3>2, <4>1 DEF SlotsRegistered
    <3> QED
      BY <1>2, <2>1, <3>1, <3>2 DEF SlotsRegistered
  <2>5. ReadyCompletesPair'
    <3>1. ASSUME NEW d \in Conn, d # c, Ready(d)'
          PROVE  peer_id'[d] \in Id /\ \A q \in Role : slot'[peer_id'[d]][q] # NoConn
      BY <1>2, <2>1, <2>3, <3>1 DEF ReadyCompletesPair, Ready
    <3>2. ASSUME Ready(c)'
          PROVE  peer_id'[c] \in Id /\ \A q \in Role : slot'[peer_id'[c]][q] # NoConn
      <4>1. slot[i][Other(r)] # NoConn
        BY <2>1, <3>2 DEF Ready
      <4> QED
        BY <1>2, <2>1, <4>1, RoleFacts, ConnAssumption
    <3> QED
      BY <3>1, <3>2 DEF ReadyCompletesPair
  <2>6. OneReady'
    BY <1>2, <2>1, <2>3 DEF OneReady, Ready
  <2>7. PumpsAfterReady'
    BY <1>2, <2>1, <2>2 DEF PumpsAfterReady, Ready
  <2>8. Latch'
    BY <2>1 DEF Latch, DeadLatched, ClosedByOnePump
  <2> QED
    BY <1>1, <2>4, <2>5, <2>6, <2>7, <2>8
<1> QED
  BY <1>4, <1>5

\* The handlers end, or go on from READY for B to READY for C.
LEMMA HandlerMoves ==
    ASSUME IndInv, NEW c \in Conn, NEW h \in HandlerState,
           handler' = [handler EXCEPT ![c] = h],
           handler[c] \in {"none", "read", "reject"} => h \in {"read", "done"},
           handler[c] \notin {"none", "read", "reject"} => h \in {"readyC", "done"},
           h = "readyC" => Ready(c),
           UNCHANGED <<peers, slot, dead, pump>>
    PROVE  Registration' /\ Latch'
<1> USE DEF IndInv, Registration
<1>1. /\ handler'[c] = h
      /\ \A d \in Conn : d # c => handler'[d] = handler[d]
      /\ peer_id' = peer_id /\ peer_role' = peer_role /\ slot' = slot
      /\ pump' = pump /\ dead' = dead
  BY DEF TypeOK, peers
<1>2. \A d \in Conn : Ready(d)' => Ready(d)
  BY <1>1 DEF Ready
<1>3. SlotsRegistered'
  <2>1. ASSUME NEW i \in Id, NEW r \in Role, slot[i][r] # NoConn
        PROVE  handler'[slot[i][r]] \in {"readyB", "readyC", "done"}
    <3>1. slot[i][r] \in Conn
      BY <2>1 DEF TypeOK
    <3>2. handler[slot[i][r]] \in {"readyB", "readyC", "done"}
      BY <2>1 DEF SlotsRegistered
    <3> QED
      BY <1>1, <3>1, <3>2
  <2> QED
    BY <1>1, <2>1 DEF SlotsRegistered
<1>4. ReadyCompletesPair'
  BY <1>1, <1>2 DEF ReadyCompletesPair
<1>5. OneReady'
  BY <1>1, <1>2 DEF OneReady
<1>6. PumpsAfterReady'
  BY <1>1, <1>2 DEF PumpsAfterReady
<1>7. Latch'
  BY <1>1 DEF Latch, DeadLatched, ClosedByOnePump
<1> QED
  BY <1>3, <1>4, <1>5, <1>6, <1>7

\* The second READY starts the pumps of a pair that no one else announces.
LEMMA ReadyCWrittenStep ==
    ASSUME IndInv, NEW c \in Conn, ReadyCWritten(c)
    PROVE  IndInv'
<1> USE DEF IndInv, Registration
<1> DEFINE i == peer_id[c]
<1>1. Ready(c)
  BY DEF ReadyCWritten, Ready
<1>2. i \in Id /\ \A r \in Role : slot[i][r] \in Conn
  BY <1>1, ReadyHasBothPeers
<1>3. TypeOK'
  BY <1>2, FrameFacts, RoleFacts DEF TypeOK, ReadyCWritten, Written, peers,
     HandlerState, PumpState
<1>4. /\ handler'[c] = "done"
      /\ \A d \in Conn : d # c => handler'[d] = handler[d]
      /\ peer_id' = peer_id /\ peer_role' = peer_role /\ slot' = slot
      /\ dead' = dead
      /\ \A r \in Role : pump'[i][r] = "read"
      /\ \A j \in Id : j # i => pump'[j] = pump[j]
  BY <1>2 DEF ReadyCWritten, TypeOK, peers
<1>5. \A d \in Conn : Ready(d)' => Ready(d) /\ d # c
  BY <1>4 DEF Ready
<1>6. SlotsRegistered'
  <2>1. ASSUME NEW j \in Id, NEW r \in Role, slot[j][r] # NoConn
        PROVE  handler'[slot[j][r]] \in {"readyB", "readyC", "done"}
    <3>1. slot[j][r] \in Conn
      BY <2>1 DEF TypeOK
    <3> QED
      BY <1>4, <2>1, <3>1 DEF SlotsRegistered
  <2> QED
    BY <1>4, <2>1 DEF SlotsRegistered
<1>7. ReadyCompletesPair' /\ OneReady'
  BY <1>4, <1>5 DEF ReadyCompletesPair, OneReady
<1>8. PumpsAfterReady'
  <2>1. ASSUME NEW j \in Id, NEW r \in Role, pump'[j][r] # "none"
        PROVE  /\ \A s \in Role : slot'[j][s] # NoConn
               /\ \A d \in Conn : Ready(d)' => peer_id'[d] # j
    <3>1. CASE j = i
      BY <1>1, <1>2, <1>4, <1>5, <3>1, ConnAssumption DEF OneReady
    <3>2. CASE j # i
      BY <1>4, <1>5, <2>1, <3>2 DEF PumpsAfterReady
    <3> QED
      BY <3>1, <3>2
  <2> QED
    BY <2>1 DEF PumpsAfterReady
<1>9. Latch'
  BY <1>4, RoleFacts DEF Latch, DeadLatched, ClosedByOnePump
<1> QED
  BY <1>3, <1>6, <1>7, <1>8, <1>9

-----------------------------------------------------------------------------
(* Every step *)

\* A step of a peer.
LEMMA PeerStep ==
    ASSUME IndInv, NEW c \in Conn, PeerSend(c) \/ PeerGone(c)
    PROVE  IndInv'
<1>1. CASE PeerSend(c)
  <2>1. sent' \in [Conn -> Nat]
    <3>1. PICK n \in {sent[c] + 1, MaxFrames[c]} : sent' = [sent EXCEPT ![c] = n]
      BY <1>1 DEF PeerSend
    <3>2. sent[c] + 1 \in Nat /\ MaxFrames[c] \in Nat
      BY MaxFramesAssumption DEF IndInv, TypeOK
    <3>3. n \in Nat
      BY <3>2
    <3> QED
      BY <3>1, <3>3 DEF IndInv, TypeOK
  <2>2. inbox' \in [Conn -> Seq(Frame)]
    <3>1. Data(sent[c] + 1) \in Frame
      BY FrameFacts DEF IndInv, TypeOK
    <3>2. inbox[c] \in Seq(Frame)
      BY DEF IndInv, TypeOK
    <3>3. /\ Append(inbox[c], Data(sent[c] + 1)) \in Seq(Frame)
          /\ Append(inbox[c], EOF_) \in Seq(Frame)
      BY <3>1, <3>2, FrameFacts
    <3> QED
      BY <1>1, <3>3 DEF PeerSend, IndInv, TypeOK
  <2>3. TypeOK'
    BY <1>1, <2>1, <2>2 DEF PeerSend, IndInv, TypeOK, peers
  <2> QED
    BY <1>1, <2>3, ControlUnchanged DEF PeerSend, IndInv, peers
<1>2. CASE PeerGone(c)
  <2>1. PICK k \in 0..Len(inbox[c]) :
            inbox' = [inbox EXCEPT ![c] = SubSeq(inbox[c], 1, k)]
    BY <1>2 DEF PeerGone
  <2>2. SubSeq(inbox[c], 1, k) \in Seq(Frame)
    BY DEF IndInv, TypeOK
  <2>3. TypeOK'
    BY <1>2, <2>1, <2>2 DEF PeerGone, IndInv, TypeOK, peers
  <2> QED
    BY <1>2, <2>3, ControlUnchanged DEF PeerGone, IndInv, peers
<1> QED
  BY <1>1, <1>2

\* A step of a handler.
LEMMA HandlerStep ==
    ASSUME IndInv, NEW c \in Conn, HandlerNext(c)
    PROVE  IndInv'
<1>1. CASE Accept(c)
  <2>1. TypeOK'
    BY <1>1 DEF Accept, IndInv, TypeOK, SockState, HandlerState, peers
  <2>2. Registration' /\ Latch'
    BY <1>1, HandlerMoves DEF Accept, HandlerState, peers
  <2> QED
    BY <2>1, <2>2 DEF IndInv
<1>2. CASE BadRegister(c)
  <2>1. TypeOK'
    BY <1>2 DEF BadRegister, IndInv, TypeOK, SockState, HandlerState, peers
  <2>2. Registration' /\ Latch'
    BY <1>2, HandlerMoves DEF BadRegister, HandlerState, peers
  <2> QED
    BY <2>1, <2>2 DEF IndInv
<1>3. CASE Rejected(c)
  <2>1. outbox' \in [Conn -> Seq(Frame)]
    <3>1. Append(outbox[c], EOF_) \in Seq(Frame)
      BY FrameFacts DEF IndInv, TypeOK
    <3> QED
      BY <1>3, <3>1 DEF Rejected, Written, IndInv, TypeOK
  <2>2. TypeOK'
    BY <1>3, <2>1 DEF Rejected, IndInv, TypeOK, SockState, HandlerState, peers
  <2>3. Registration' /\ Latch'
    BY <1>3, HandlerMoves DEF Rejected, HandlerState, peers
  <2> QED
    BY <2>2, <2>3 DEF IndInv
<1>4. CASE ReadyBWritten(c)
  <2>1. Ready(c)
    BY <1>4 DEF ReadyBWritten, Ready
  <2>2. slot[peer_id[c]]["B"] \in Conn
    BY <2>1, ReadyHasBothPeers, RoleFacts
  <2>3. TypeOK'
    <3>1. outbox' \in [Conn -> Seq(Frame)]
      BY <1>4, <2>2, FrameFacts DEF ReadyBWritten, Written, IndInv, TypeOK
    <3>2. handler' \in [Conn -> HandlerState]
      BY <1>4 DEF ReadyBWritten, IndInv, TypeOK, HandlerState
    <3> QED
      BY <1>4, <3>1, <3>2 DEF ReadyBWritten, IndInv, TypeOK, peers
  <2>4. Registration' /\ Latch'
    BY <1>4, <2>1, HandlerMoves DEF ReadyBWritten, HandlerState, peers
  <2> QED
    BY <2>3, <2>4 DEF IndInv
<1>5. CASE ReadyCWritten(c)
  BY <1>5, ReadyCWrittenStep
<1>6. CASE ReadyFail(c)
  <2>1. TypeOK'
    BY <1>6 DEF ReadyFail, IndInv, TypeOK, HandlerState, peers
  <2>2. Registration' /\ Latch'
    BY <1>6, HandlerMoves DEF ReadyFail, HandlerState, peers
  <2> QED
    BY <2>1, <2>2 DEF IndInv
<1>7. ASSUME NEW i \in Id, NEW r \in Role, Register(c, i, r)
      PROVE  IndInv'
  BY <1>7, RegisterStep
<1> QED
  BY <1>1, <1>2, <1>3, <1>4, <1>5, <1>6, <1>7 DEF HandlerNext

\* A step of a pump.
LEMMA PumpStepInv ==
    ASSUME IndInv, NEW i \in Id, NEW r \in Role, PumpStep(i, r)
    PROVE  IndInv'
<1>1. pump[i][r] # "none"
  BY DEF PumpStep, PumpRead, PumpForwarded, PumpEofForwarded, PumpEnds,
     FinalWritten, FinalFail
<1>2. \A s \in Role : slot[i][s] \in Conn
  BY <1>1, PumpHasBothPeers
<1>3. /\ slot[i][r] \in Conn
      /\ slot[i][Other(r)] \in Conn
      /\ held[i][r] \in Frame
  BY <1>2, RoleFacts DEF IndInv, TypeOK
<1>4. CASE PumpRead(i, r)
  <2>1. Head(inbox[slot[i][r]]) \in Frame /\ Tail(inbox[slot[i][r]]) \in Seq(Frame)
    BY <1>3, <1>4 DEF PumpRead, IndInv, TypeOK
  <2>2. TypeOK'
    BY <1>3, <1>4, <2>1 DEF PumpRead, PumpTo, IndInv, TypeOK, PumpState, peers
  <2>3. Registration'
    BY <1>1, <1>4, PumpMoves DEF PumpRead, PumpState, peers
  <2>4. Latch'
    BY <1>4, PumpStaysInLoop DEF PumpRead
  <2> QED
    BY <2>2, <2>3, <2>4 DEF IndInv
<1>5. CASE PumpForwarded(i, r)
  <2>1. TypeOK'
    BY <1>3, <1>5 DEF PumpForwarded, PumpTo, Written, IndInv, TypeOK,
       PumpState, peers
  <2>2. Registration'
    BY <1>1, <1>5, PumpMoves DEF PumpForwarded, PumpState, peers
  <2>3. Latch'
    BY <1>5, PumpStaysInLoop DEF PumpForwarded
  <2> QED
    BY <2>1, <2>2, <2>3 DEF IndInv
<1>6. CASE PumpEofForwarded(i, r)
  <2>1. TypeOK'
    BY <1>3, <1>6, FrameFacts DEF PumpEofForwarded, LeaveLoop, PumpTo,
       Written, IndInv, TypeOK, PumpState, SockState, peers
  <2>2. Registration'
    BY <1>1, <1>6, PumpMoves DEF PumpEofForwarded, LeaveLoop, PumpState, peers
  <2>3. Latch'
    BY <1>6, LeaveLoopLatch DEF PumpEofForwarded
  <2> QED
    BY <2>1, <2>2, <2>3 DEF IndInv
<1>7. CASE PumpEnds(i, r)
  <2>1. TypeOK'
    BY <1>7 DEF PumpEnds, LeaveLoop, PumpTo, IndInv, TypeOK, PumpState, peers
  <2>2. Registration'
    BY <1>1, <1>7, PumpMoves DEF PumpEnds, LeaveLoop, PumpState, peers
  <2>3. Latch'
    BY <1>7, LeaveLoopLatch DEF PumpEnds
  <2> QED
    BY <2>1, <2>2, <2>3 DEF IndInv
<1>8. CASE FinalWritten(i, r)
  <2>1. TypeOK'
    <3>1. outbox' \in [Conn -> Seq(Frame)]
      BY <1>3, <1>8, FrameFacts DEF FinalWritten, Written, IndInv, TypeOK
    <3>2. sock' \in [Conn -> SockState]
      BY <1>3, <1>8 DEF FinalWritten, IndInv, TypeOK, SockState
    <3>3. pump' \in [Id -> [Role -> PumpState]]
      BY <1>8 DEF FinalWritten, PumpTo, IndInv, TypeOK, PumpState
    <3> QED
      BY <1>8, <3>1, <3>2, <3>3 DEF FinalWritten, IndInv, TypeOK, peers
  <2>2. Registration'
    BY <1>1, <1>8, PumpMoves DEF FinalWritten, PumpState, peers
  <2>3. Latch'
    BY <1>8, PumpStaysInLoop DEF FinalWritten
  <2> QED
    BY <2>1, <2>2, <2>3 DEF IndInv
<1>9. CASE FinalFail(i, r)
  <2>1. TypeOK'
    BY <1>9 DEF FinalFail, PumpTo, IndInv, TypeOK, PumpState, peers
  <2>2. Registration'
    BY <1>1, <1>9, PumpMoves DEF FinalFail, PumpState, peers
  <2>3. Latch'
    BY <1>9 DEF FinalFail, PumpTo, IndInv, TypeOK, Latch, DeadLatched,
       ClosedByOnePump
  <2> QED
    BY <2>1, <2>2, <2>3 DEF IndInv
<1> QED
  BY <1>4, <1>5, <1>6, <1>7, <1>8, <1>9 DEF PumpStep

LEMMA StepIndInv == IndInv /\ [Next]_vars => IndInv'
<1> SUFFICES ASSUME IndInv, [Next]_vars PROVE IndInv'
  OBVIOUS
<1>1. CASE Next
  BY <1>1, PeerStep, HandlerStep, PumpStepInv DEF Next
<1>2. CASE UNCHANGED vars
  <2>1. TypeOK'
    BY <1>2 DEF vars, IndInv, TypeOK
  <2> QED
    BY <1>2, <2>1, ControlUnchanged DEF vars, IndInv, peers
<1> QED
  BY <1>1, <1>2

\* The inductive invariant leaves a socket one writer: the connections in the
\* slots are distinct, and pumps and handlers of a pair do not overlap.
LEMMA IndInvSingleWriter == IndInv => SingleWriter
<1> SUFFICES ASSUME IndInv, NEW c \in Conn
             PROVE  /\ \A d, e \in Conn :
                         HandlerWrites(d, c) /\ HandlerWrites(e, c) => d = e
                    /\ \A i, j \in Id, r, s \in Role :
                         PumpWrites(i, r, c) /\ PumpWrites(j, s, c) => i = j /\ r = s
                    /\ \A d \in Conn, i \in Id, r \in Role :
                         ~(HandlerWrites(d, c) /\ PumpWrites(i, r, c))
  BY DEF SingleWriter
<1> USE DEF IndInv, Registration
<1>1. \A i \in Id, r \in Role : slot[i][r] = c =>
          /\ peer_id[c] = i
          /\ peer_role[c] = r
          /\ handler[c] # "reject"
  BY ConnAssumption DEF SlotsRegistered
<1>2. \A d \in Conn : HandlerWrites(d, c) =>
          \/ d = c /\ handler[c] = "reject"
          \/ Ready(d) /\ peer_id[d] \in Id /\ \E r \in Role : slot[peer_id[d]][r] = c
  BY RoleFacts DEF HandlerWrites, Ready, ReadyCompletesPair
<1>3. ASSUME NEW d \in Conn, NEW e \in Conn, HandlerWrites(d, c), HandlerWrites(e, c)
      PROVE  d = e
  BY <1>1, <1>2, <1>3 DEF OneReady
<1>4. ASSUME NEW i \in Id, NEW j \in Id, NEW r \in Role, NEW s \in Role,
             PumpWrites(i, r, c), PumpWrites(j, s, c)
      PROVE  i = j /\ r = s
  BY <1>1, <1>4, RoleFacts DEF PumpWrites
<1>5. ASSUME NEW d \in Conn, NEW i \in Id, NEW r \in Role,
             HandlerWrites(d, c), PumpWrites(i, r, c)
      PROVE  FALSE
  <2>1. slot[i][Other(r)] = c /\ pump[i][r] # "none"
    BY <1>5 DEF PumpWrites
  <2>2. peer_id[c] = i /\ handler[c] # "reject"
    BY <1>1, <2>1, RoleFacts
  <2>3. Ready(d) /\ peer_id[d] = i
    BY <1>1, <1>2, <1>5, <2>2
  <2> QED
    BY <2>1, <2>3 DEF PumpsAfterReady
<1> QED
  BY <1>3, <1>4, <1>5

-----------------------------------------------------------------------------
(* The theorems *)

LEMMA Invariance == Spec => []IndInv
<1>1. Init => IndInv
  BY InitIndInv
<1>2. IndInv /\ [Next]_vars => IndInv'
  BY StepIndInv
<1> QED
  BY <1>1, <1>2, PTL DEF Spec

\* Every variable of the matcher keeps its type, whatever the peers do.
THEOREM TypeCorrect == Spec => []TypeOK
<1>1. IndInv => TypeOK
  BY DEF IndInv
<1> QED
  BY <1>1, Invariance, PTL

\* No socket of the matcher ever has two write_frame calls under way, for any
\* number of connections, pairs and frames.
THEOREM OneWriterPerSocket == Spec => []SingleWriter
BY IndInvSingleWriter, Invariance, PTL

\* Only one pump of a pair ever gets to tell the other side and to close the
\* sockets.
THEOREM OnePumpCloses == Spec => []ClosedByOnePump
<1>1. IndInv => ClosedByOnePump
  BY DEF IndInv, Latch
<1> QED
  BY <1>1, Invariance, PTL

-----------------------------------------------------------------------------
(* What A writes to a peer *)

\* READY and the first k frames of the partner.
Announced(k) == <<READY>> \o [n \in 1..k |-> Data(n)]

\* The frames of c that A has not read follow the first k, up to a loss or an
\* EOF_; a peer that may still send goes on where they end.
Incoming(c, k) ==
    /\ \A n \in 1..Len(inbox[c]) :
          \/ inbox[c][n] = EOF_
          \/ inbox[c][n] = Data(k + n) /\ k + n <= sent[c]
    /\ ~gone[c] /\ sent[c] < MaxFrames[c] => sent[c] = k + Len(inbox[c])

\* A connection without a slot is silent, and at most told EOF_.
Outsiders ==
    \A c \in Conn : (\A i \in Id, r \in Role : slot[i][r] # c) =>
        /\ sent[c] = 0
        /\ inbox[c] = <<>>
        /\ outbox[c] = <<>> \/ (outbox[c] = <<EOF_>> /\ handler[c] = "done")

\* Before the pump that reads from a peer starts, all it sent is unread; before
\* the pump that writes to it starts, it got at most READY, in a full pair.
BeforePumps ==
    \A i \in Id, r \in Role, c \in Conn : slot[i][r] = c =>
        /\ pump[i][r] = "none" => Incoming(c, 0)
        /\ pump[i][Other(r)] = "none" =>
              \/ outbox[c] = <<>>
              \/ outbox[c] = <<READY>> /\ slot[i][Other(r)] # NoConn

\* How far the handler that announces a pair has come.
Announcing ==
    \A h, b, c \in Conn, i \in Id :
        peer_id[h] = i /\ slot[i]["B"] = b /\ slot[i]["C"] = c =>
            /\ handler[h] = "readyB" => outbox[b] = <<>> /\ outbox[c] = <<>>
            /\ handler[h] = "readyC" => outbox[b] = <<READY>> /\ outbox[c] = <<>>

\* The pump from c to d has passed on k frames.  Once EOF_ is behind them it has
\* left its loop, and d is closed where the pump could still write.
Passed(i, r, c, d, k) ==
    /\ k <= sent[c]
    /\ \/ outbox[d] = Announced(k)
       \/ /\ outbox[d] = Append(Announced(k), EOF_)
          /\ pump[i][r] \in {"final", "done", "thrown"}
          /\ pump[i][r] = "final" => sock[d] # "open"
    /\ pump[i][r] = "read" => Incoming(c, k)
    /\ pump[i][r] = "forward" => /\ held[i][r] = Data(k + 1) /\ k + 1 <= sent[c]
                                 /\ Incoming(c, k + 1)

Pumping ==
    \A i \in Id, r \in Role, c, d \in Conn :
        pump[i][r] # "none" /\ slot[i][r] = c /\ slot[i][Other(r)] = d
        => \E k \in Nat : Passed(i, r, c, d, k)

OutInv == Outsiders /\ BeforePumps /\ Announcing /\ Pumping

-----------------------------------------------------------------------------

LEMMA AnnouncedFacts ==
    /\ Announced(0) = <<READY>>
    /\ \A k \in Nat : Append(Announced(k), Data(k + 1)) = Announced(k + 1)
<1> DEFINE D(k) == [n \in 1..k |-> Data(n)]
<1>1. ASSUME NEW k \in Nat
      PROVE  /\ Announced(k) \in Seq(Frame) /\ Len(Announced(k)) = k + 1
             /\ Announced(k)[1] = READY
             /\ \A n \in 1..k : Announced(k)[n + 1] = Data(n)
  <2>1. D(k) \in Seq(Frame) /\ Len(D(k)) = k /\ \A n \in 1..k : D(k)[n] = Data(n)
    <3>1. \A n \in 1..k : Data(n) \in Frame
      BY FrameFacts
    <3> QED
      BY <3>1
  <2>2. <<READY>> \in Seq(Frame) /\ Len(<<READY>>) = 1 /\ <<READY>>[1] = READY
    BY FrameFacts
  <2>3. Announced(k) = <<READY>> \o D(k)
    BY DEF Announced
  <2> HIDE DEF D
  <2>4. /\ Announced(k) \in Seq(Frame) /\ Len(Announced(k)) = 1 + k
        /\ \A n \in 1..(1 + k) :
              Announced(k)[n] = IF n <= 1 THEN <<READY>>[n] ELSE D(k)[n - 1]
    BY <2>1, <2>2, <2>3, ConcatProperties
  <2>5. 1 \in 1..(1 + k) /\ \A n \in 1..k : n + 1 \in 1..(1 + k) /\ ~(n + 1 <= 1) /\ (n + 1) - 1 = n
    OBVIOUS
  <2> QED
    BY <2>1, <2>2, <2>4, <2>5
<1>2. Announced(0) = <<READY>>
  <2>1. /\ Announced(0) \in Seq(Frame) /\ Len(Announced(0)) = 1 /\ Announced(0)[1] = READY
    <3>1. 0 \in Nat /\ 0 + 1 = 1
      OBVIOUS
    <3>2. Announced(0) \in Seq(Frame) /\ Len(Announced(0)) = 0 + 1 /\ Announced(0)[1] = READY
      BY <1>1, <3>1
    <3> QED
      BY <3>1, <3>2
  <2>2. <<READY>> \in Seq(Frame) /\ Len(<<READY>>) = 1 /\ <<READY>>[1] = READY
    BY FrameFacts
  <2>3. \A n \in 1..1 : n = 1
    OBVIOUS
  <2> QED
    BY <2>1, <2>2, <2>3, SeqEqual
<1>3. ASSUME NEW k \in Nat PROVE Append(Announced(k), Data(k + 1)) = Announced(k + 1)
  <2>1. /\ Append(Announced(k), Data(k + 1)) \in Seq(Frame)
        /\ Len(Append(Announced(k), Data(k + 1))) = k + 2
        /\ Append(Announced(k), Data(k + 1))[k + 2] = Data(k + 1)
        /\ \A n \in 1..(k + 1) : Append(Announced(k), Data(k + 1))[n] = Announced(k)[n]
    BY <1>1, FrameFacts, AppendProperties
  <2>2. /\ Announced(k + 1) \in Seq(Frame) /\ Len(Announced(k + 1)) = k + 2
        /\ Announced(k + 1)[1] = READY
        /\ \A n \in 1..(k + 1) : Announced(k + 1)[n + 1] = Data(n)
    <3>1. k + 1 \in Nat /\ (k + 1) + 1 = k + 2
      OBVIOUS
    <3> QED
      BY <1>1, <3>1
  <2>3. ASSUME NEW m \in 1..(k + 2)
        PROVE  Append(Announced(k), Data(k + 1))[m] = Announced(k + 1)[m]
    <3>1. CASE m = 1
      <4>1. 1 \in 1..(k + 1)
        OBVIOUS
      <4> QED
        BY <1>1, <2>1, <2>2, <3>1, <4>1
    <3>2. CASE m = k + 2
      <4>1. k + 1 \in 1..(k + 1) /\ (k + 1) + 1 = k + 2
        OBVIOUS
      <4> QED
        BY <2>1, <2>2, <3>2, <4>1
    <3>3. CASE m # 1 /\ m # k + 2
      <4>1. m \in 1..(k + 1) /\ m - 1 \in 1..k /\ m - 1 \in 1..(k + 1) /\ (m - 1) + 1 = m
        BY <3>3
      <4>2. Announced(k)[m] = Data(m - 1)
        BY <1>1, <4>1
      <4>3. Announced(k + 1)[m] = Data(m - 1)
        BY <2>2, <4>1
      <4> QED
        BY <2>1, <4>1, <4>2, <4>3
    <3> QED
      BY <3>1, <3>2, <3>3
  <2> QED
    BY <2>1, <2>2, <2>3, SeqEqual
<1> QED
  BY <1>2, <1>3

LEMMA FramesDiffer == EOF_ # READY /\ \A n \in Nat : Data(n) # EOF_
BY DEF EOF_, READY, Data

\* A connection is in one slot.
LEMMA OneSlot ==
    ASSUME IndInv, NEW i \in Id, NEW j \in Id, NEW r \in Role, NEW s \in Role,
           slot[i][r] \in Conn, slot[i][r] = slot[j][s]
    PROVE  i = j /\ r = s
BY ConnAssumption DEF IndInv, Registration, SlotsRegistered

\* What a peer does on its side of one connection.
LEMMA OutPeerKeeps ==
    ASSUME IndInv, OutInv, NEW p \in Conn,
           UNCHANGED <<sock, outbox, handler, peer_id, slot, pump, held>>,
           \A c \in Conn : c # p =>
              gone'[c] = gone[c] /\ inbox'[c] = inbox[c] /\ sent'[c] = sent[c],
           sent'[p] \in Nat, sent'[p] >= sent[p],
           \A k \in Nat : Incoming(p, k) => Incoming(p, k)',
           (\A i \in Id, r \in Role : slot[i][r] # p) => sent'[p] = 0 /\ inbox'[p] = <<>>
    PROVE  OutInv'
<1>1. \A c \in Conn, k \in Nat : Incoming(c, k) => Incoming(c, k)'
  <2> SUFFICES ASSUME NEW c \in Conn, NEW k \in Nat, Incoming(c, k), c # p PROVE Incoming(c, k)'
    OBVIOUS
  <2> QED
    BY DEF Incoming
<1>2. ASSUME NEW c \in Conn, NEW k \in Nat, k <= sent[c] PROVE k <= sent'[c]
  <2>1. sent[c] \in Nat /\ sent[p] \in Nat
    BY DEF IndInv, TypeOK
  <2>2. CASE c = p
    BY <1>2, <2>1, <2>2
  <2>3. CASE c # p
    BY <1>2, <2>3
  <2> QED
    BY <2>2, <2>3
<1>3. Outsiders'
  BY DEF OutInv, Outsiders
<1>4. BeforePumps'
  BY <1>1 DEF OutInv, BeforePumps
<1>5. Announcing'
  <2>1. Announcing
    BY DEF OutInv
  <2>2. peer_id' = peer_id /\ slot' = slot /\ handler' = handler /\ outbox' = outbox
    OBVIOUS
  <2> QED
    BY ONLY <2>1, <2>2 DEF Announcing
<1>6. Pumping'
  <2> SUFFICES ASSUME NEW i \in Id, NEW r \in Role, NEW c \in Conn, NEW d \in Conn,
                      pump[i][r] # "none", slot[i][r] = c, slot[i][Other(r)] = d
               PROVE  \E k \in Nat : Passed(i, r, c, d, k)'
    BY DEF Pumping
  <2>1. PICK k \in Nat : Passed(i, r, c, d, k)
    BY DEF OutInv, Pumping
  <2>2. k + 1 \in Nat
    OBVIOUS
  <2>3. Passed(i, r, c, d, k)'
    BY <1>1, <1>2, <2>1, <2>2 DEF Passed
  <2> QED
    BY <2>3
<1> QED
  BY <1>3, <1>4, <1>5, <1>6 DEF OutInv

\* A peer sends, or goes.
LEMMA OutPeer ==
    ASSUME IndInv, OutInv, NEW p \in Conn, PeerSend(p) \/ PeerGone(p)
    PROVE  OutInv'
<1>t. /\ \A c \in Conn : sent[c] \in Nat /\ MaxFrames[c] \in Nat /\ inbox[c] \in Seq(Frame)
      /\ \A c \in Conn : Len(inbox[c]) \in Nat
  BY MaxFramesAssumption, LenProperties DEF IndInv, TypeOK
<1>1. /\ UNCHANGED <<sock, outbox, handler, peer_id, peer_role, slot, pump, held>>
      /\ \A c \in Conn : c # p => gone'[c] = gone[c] /\ inbox'[c] = inbox[c] /\ sent'[c] = sent[c]
  <2>1. CASE PeerSend(p)
    BY <2>1 DEF PeerSend, peers, IndInv, TypeOK
  <2>2. CASE PeerGone(p)
    BY <2>2 DEF PeerGone, peers, IndInv, TypeOK
  <2> QED
    BY <2>1, <2>2
<1>2. CASE PeerSend(p)
  <2>1. /\ ~gone[p] /\ sent[p] < MaxFrames[p] /\ outbox[p] # <<>> /\ Head(outbox[p]) = READY
        /\ gone'[p] = gone[p]
    BY <1>2 DEF PeerSend
  <2>2. \/ sent'[p] = sent[p] + 1 /\ inbox'[p] = Append(inbox[p], Data(sent[p] + 1))
        \/ sent'[p] = MaxFrames[p] /\ inbox'[p] = Append(inbox[p], EOF_)
    BY <1>2 DEF PeerSend, IndInv, TypeOK
  <2>3. sent'[p] >= sent[p] /\ sent'[p] \in Nat
    BY <1>t, <2>1, <2>2
  <2>4. ~\A i \in Id, r \in Role : slot[i][r] # p
    BY <2>1, FramesDiffer DEF OutInv, Outsiders
  <2>5. ASSUME NEW k \in Nat, Incoming(p, k) PROVE Incoming(p, k)'
    <3>1. sent[p] = k + Len(inbox[p])
      BY <2>1, <2>5 DEF Incoming
    <3> DEFINE f == IF sent'[p] = sent[p] + 1 /\ inbox'[p] = Append(inbox[p], Data(sent[p] + 1))
                    THEN Data(sent[p] + 1) ELSE EOF_
    <3>2. /\ inbox'[p] = Append(inbox[p], f) /\ f \in Frame
          /\ \/ f = EOF_ /\ sent'[p] = MaxFrames[p]
             \/ f = Data(sent[p] + 1) /\ sent'[p] = sent[p] + 1
      BY <1>t, <2>2, FrameFacts
    <3> HIDE DEF f
    <3>3. /\ Len(inbox'[p]) = Len(inbox[p]) + 1 /\ inbox'[p][Len(inbox[p]) + 1] = f
          /\ \A n \in 1..Len(inbox[p]) : inbox'[p][n] = inbox[p][n]
      BY <1>t, <3>2, AppendProperties
    <3>4. ASSUME NEW n \in 1..Len(inbox'[p])
          PROVE  \/ inbox'[p][n] = EOF_
                 \/ inbox'[p][n] = Data(k + n) /\ k + n <= sent'[p]
      <4>1. CASE n = Len(inbox[p]) + 1
        <5>1. k + n = sent[p] + 1
          BY <1>t, <3>1, <4>1
        <5> QED
          BY <1>t, <3>2, <3>3, <4>1, <5>1
      <4>2. CASE n # Len(inbox[p]) + 1
        <5>1. n \in 1..Len(inbox[p]) /\ n \in Nat
          BY <1>t, <3>3, <4>2
        <5>2. inbox[p][n] = EOF_ \/ (inbox[p][n] = Data(k + n) /\ k + n <= sent[p])
          BY <2>5, <5>1 DEF Incoming
        <5> QED
          BY <1>t, <2>3, <3>3, <5>1, <5>2
      <4> QED
        BY <4>1, <4>2
    <3>5. sent'[p] < MaxFrames[p] => sent'[p] = k + Len(inbox'[p])
      BY <1>t, <3>1, <3>2, <3>3
    <3> QED
      BY <3>4, <3>5 DEF Incoming
  <2> QED
    BY <1>1, <2>3, <2>4, <2>5, OutPeerKeeps
<1>3. CASE PeerGone(p)
  <2>1. PICK m \in 0..Len(inbox[p]) : inbox' = [inbox EXCEPT ![p] = SubSeq(inbox[p], 1, m)]
    BY <1>3 DEF PeerGone
  <2>2. inbox'[p] = SubSeq(inbox[p], 1, m) /\ gone'[p] /\ sent'[p] = sent[p]
    BY <1>3, <2>1 DEF PeerGone, IndInv, TypeOK
  <2>3. /\ Len(inbox'[p]) = m /\ m \in Nat /\ m <= Len(inbox[p])
        /\ \A n \in 1..m : inbox'[p][n] = inbox[p][n]
    BY <1>t, <2>1, <2>2
  <2>4. inbox[p] = <<>> => inbox'[p] = <<>>
    <3>1. inbox'[p] \in Seq(Frame)
      BY <1>t, <2>1, <2>2
    <3> QED
      BY <1>t, <2>3, <3>1, EmptySeq
  <2>5. ASSUME NEW k \in Nat, Incoming(p, k) PROVE Incoming(p, k)'
    <3>1. \A n \in 1..Len(inbox'[p]) : n \in 1..Len(inbox[p]) /\ inbox'[p][n] = inbox[p][n]
      BY <1>t, <2>3
    <3> QED
      BY <2>2, <2>5, <3>1 DEF Incoming
  <2>6. (\A i \in Id, r \in Role : slot[i][r] # p) => sent'[p] = 0 /\ inbox'[p] = <<>>
    BY <2>2, <2>4 DEF OutInv, Outsiders
  <2>7. sent'[p] \in Nat /\ sent'[p] >= sent[p]
    BY <1>t, <2>2
  <2> QED
    BY <1>1, <2>5, <2>6, <2>7, OutPeerKeeps
<1> QED
  BY <1>2, <1>3

\* A pump that runs touches only its own direction: it suffices to show that
\* it has passed on what it should.
LEMMA OutPump ==
    ASSUME IndInv, OutInv, NEW i \in Id, NEW r \in Role, NEW c \in Conn, NEW d \in Conn,
           pump[i][r] # "none", slot[i][r] = c, slot[i][Other(r)] = d,
           pump'[i][r] # "none",
           \A j \in Id, s \in Role : j # i \/ s # r =>
              pump'[j][s] = pump[j][s] /\ held'[j][s] = held[j][s],
           \A e \in Conn : e # d => outbox'[e] = outbox[e],
           \A e \in Conn : e # c => inbox'[e] = inbox[e],
           \A e \in Conn : sock'[e] = "open" => sock[e] = "open",
           UNCHANGED <<gone, sent, handler, peer_id, slot>>,
           \E k \in Nat : Passed(i, r, c, d, k)'
    PROVE  OutInv'
<1>1. /\ \A j \in Id, s \in Role : slot[j][s] = c => j = i /\ s = r
      /\ \A j \in Id, s \in Role : slot[j][s] = d => j = i /\ s = Other(r)
  BY OneSlot, RoleFacts
<1>2. \A h \in Conn : Ready(h) => peer_id[h] # i
  BY DEF IndInv, Registration, PumpsAfterReady
<1>3. \A e \in Conn, k \in Nat : e # c /\ Incoming(e, k) => Incoming(e, k)'
  <2> SUFFICES ASSUME NEW e \in Conn, NEW k \in Nat, e # c, Incoming(e, k) PROVE Incoming(e, k)'
    OBVIOUS
  <2> QED
    BY DEF Incoming
<1>4. Outsiders'
  <2>1. Other(r) \in Role
    BY RoleFacts
  <2> QED
    BY <2>1 DEF OutInv, Outsiders
<1>5. BeforePumps'
  <2>1. slot' = slot /\ BeforePumps
    BY DEF OutInv
  <2>2. ASSUME NEW j \in Id, NEW s \in Role, NEW e \in Conn, slot[j][s] = e
        PROVE  /\ pump'[j][s] = "none" => Incoming(e, 0)'
               /\ pump'[j][Other(s)] = "none" =>
                     \/ outbox'[e] = <<>>
                     \/ outbox'[e] = <<READY>> /\ slot[j][Other(s)] # NoConn
    <3>1. /\ pump[j][s] = "none" => Incoming(e, 0)
          /\ pump[j][Other(s)] = "none" =>
                \/ outbox[e] = <<>>
                \/ outbox[e] = <<READY>> /\ slot[j][Other(s)] # NoConn
      BY ONLY <2>1, <2>2, j \in Id, s \in Role, e \in Conn DEF BeforePumps
    <3>2. ASSUME pump'[j][s] = "none" PROVE Incoming(e, 0)'
      <4>1. j # i \/ s # r
        BY <3>2
      <4>2. e # c /\ pump[j][s] = "none"
        BY <1>1, <2>2, <3>2, <4>1
      <4> QED
        BY <1>3, <3>1, <4>2
    <3>3. ASSUME pump'[j][Other(s)] = "none"
          PROVE  pump[j][Other(s)] = "none" /\ outbox'[e] = outbox[e]
      <4>1. Other(s) \in Role /\ Other(Other(r)) = r
        BY RoleFacts DEF Role, Other
      <4>2. j # i \/ Other(s) # r
        BY <3>3
      <4>3. e # d
        BY <1>1, <2>2, <4>1, <4>2
      <4> QED
        BY <3>3, <4>1, <4>2, <4>3
    <3> QED
      BY ONLY <3>1, <3>2, <3>3
  <2> QED
    BY ONLY <2>1, <2>2 DEF BeforePumps
<1>6. Announcing'
  <2>1. ASSUME NEW h \in Conn, NEW b \in Conn, NEW e \in Conn, NEW j \in Id,
               peer_id[h] = j, slot[j]["B"] = b, slot[j]["C"] = e, Ready(h)
        PROVE  outbox'[b] = outbox[b] /\ outbox'[e] = outbox[e]
    <3>1. j # i
      BY <1>2, <2>1
    <3>2. b # d /\ e # d
      BY <1>1, <2>1, <3>1, RoleFacts
    <3> QED
      BY <3>2
  <2>2. Announcing
    BY DEF OutInv
  <2>3. peer_id' = peer_id /\ slot' = slot /\ handler' = handler
    OBVIOUS
  <2>4. ASSUME NEW h \in Conn, NEW b \in Conn, NEW e \in Conn, NEW j \in Id,
               peer_id[h] = j, slot[j]["B"] = b, slot[j]["C"] = e
        PROVE  /\ handler[h] = "readyB" => outbox'[b] = <<>> /\ outbox'[e] = <<>>
               /\ handler[h] = "readyC" => outbox'[b] = <<READY>> /\ outbox'[e] = <<>>
    <3>1. /\ handler[h] = "readyB" => outbox[b] = <<>> /\ outbox[e] = <<>>
          /\ handler[h] = "readyC" => outbox[b] = <<READY>> /\ outbox[e] = <<>>
      BY ONLY <2>2, <2>4, h \in Conn, b \in Conn, e \in Conn, j \in Id DEF Announcing
    <3>2. handler[h] \in {"readyB", "readyC"} => outbox'[b] = outbox[b] /\ outbox'[e] = outbox[e]
      BY <2>1, <2>4 DEF Ready
    <3> QED
      BY <3>1, <3>2
  <2> QED
    BY ONLY <2>3, <2>4 DEF Announcing
<1>7. Pumping'
  <2> SUFFICES ASSUME NEW j \in Id, NEW s \in Role, NEW e \in Conn, NEW f \in Conn,
                      pump'[j][s] # "none", slot[j][s] = e, slot[j][Other(s)] = f
               PROVE  \E k \in Nat : Passed(j, s, e, f, k)'
    BY DEF Pumping
  <2>1. CASE j = i /\ s = r
    BY <2>1
  <2>2. CASE j # i \/ s # r
    <3>1. pump'[j][s] = pump[j][s] /\ held'[j][s] = held[j][s] /\ e # c
      BY <1>1, <2>2
    <3>2. f # d
      BY <1>1, <2>2, RoleFacts
    <3>3. PICK k \in Nat : Passed(j, s, e, f, k)
      BY <3>1 DEF OutInv, Pumping
    <3>4. k + 1 \in Nat
      OBVIOUS
    <3>5. Passed(j, s, e, f, k)'
      BY <1>3, <3>1, <3>2, <3>3, <3>4 DEF Passed
    <3> QED
      BY <3>5
  <2> QED
    BY <2>1, <2>2
<1> QED
  BY <1>4, <1>5, <1>6, <1>7 DEF OutInv

LEMMA OutPumpStep ==
    ASSUME IndInv, OutInv, NEW i \in Id, NEW r \in Role, PumpStep(i, r)
    PROVE  OutInv'
<1>1. pump[i][r] # "none"
  BY DEF PumpStep, PumpRead, PumpForwarded, PumpEofForwarded, PumpEnds, FinalWritten, FinalFail
<1>2. \A s \in Role : slot[i][s] \in Conn
  BY <1>1, PumpHasBothPeers
<1>3. PICK c \in Conn, d \in Conn : slot[i][r] = c /\ slot[i][Other(r)] = d
  BY <1>2, RoleFacts
<1>4. PICK k \in Nat : Passed(i, r, c, d, k)
  BY <1>1, <1>3 DEF OutInv, Pumping
<1>5. k + 1 \in Nat /\ sent[c] \in Nat /\ inbox[c] \in Seq(Frame) /\ Len(inbox[c]) \in Nat
  BY LenProperties DEF IndInv, TypeOK
<1>6. CASE PumpRead(i, r)
  <2> DEFINE f == Head(inbox[c])
  <2>1. /\ pump[i][r] = "read" /\ inbox[c] # <<>>
        /\ held' = [held EXCEPT ![i][r] = f]
        /\ inbox' = [inbox EXCEPT ![c] = Tail(@)]
        /\ pump' = [pump EXCEPT ![i][r] = IF f = EOF_ THEN "forwardEof" ELSE "forward"]
        /\ UNCHANGED <<sock, gone, sent, outbox, handler, peer_id, slot>>
    BY <1>3, <1>6 DEF PumpRead, PumpTo, peers
  <2>2. /\ pump'[i][r] = IF f = EOF_ THEN "forwardEof" ELSE "forward"
        /\ held'[i][r] = f
        /\ inbox'[c] = Tail(inbox[c])
        /\ \A j \in Id, s \in Role : j # i \/ s # r =>
              pump'[j][s] = pump[j][s] /\ held'[j][s] = held[j][s]
        /\ \A e \in Conn : e # c => inbox'[e] = inbox[e]
    BY <2>1 DEF IndInv, TypeOK
  <2>3. /\ f = inbox[c][1] /\ 1 \in 1..Len(inbox[c])
        /\ Len(inbox'[c]) = Len(inbox[c]) - 1
        /\ \A n \in 1..Len(inbox'[c]) : /\ n + 1 \in 1..Len(inbox[c]) /\ n \in Nat
                                        /\ inbox'[c][n] = inbox[c][n + 1]
    <3>1. /\ Len(Tail(inbox[c])) = Len(inbox[c]) - 1
          /\ \A n \in 1..Len(Tail(inbox[c])) : Tail(inbox[c])[n] = inbox[c][n + 1]
      BY <1>5, <2>1, HeadTailProperties
    <3>2. f = inbox[c][1] /\ 1 \in 1..Len(inbox[c])
      BY <1>5, <2>1
    <3>3. \A n \in 1..(Len(inbox[c]) - 1) : n + 1 \in 1..Len(inbox[c]) /\ n \in Nat
      BY <1>5
    <3> QED
      BY <2>2, <3>1, <3>2, <3>3
  <2>4. Incoming(c, k)
    BY <1>4, <2>1 DEF Passed
  <2> HIDE DEF f
  <2>5. f # EOF_ => f = Data(k + 1) /\ k + 1 <= sent[c]
    BY <2>3, <2>4 DEF Incoming
  <2>6. Incoming(c, k + 1)'
    <3>1. ASSUME NEW n \in 1..Len(inbox'[c])
          PROVE  \/ inbox'[c][n] = EOF_
                 \/ inbox'[c][n] = Data((k + 1) + n) /\ (k + 1) + n <= sent[c]
      <4>1. n + 1 \in 1..Len(inbox[c]) /\ n \in Nat /\ inbox'[c][n] = inbox[c][n + 1]
        BY <2>3
      <4>2. k + (n + 1) = (k + 1) + n
        BY <4>1
      <4> QED
        BY <2>4, <4>1, <4>2 DEF Incoming
    <3>2. ~gone[c] /\ sent[c] < MaxFrames[c] => sent[c] = (k + 1) + Len(inbox'[c])
      <4>1. ~gone[c] /\ sent[c] < MaxFrames[c] => sent[c] = k + Len(inbox[c])
        BY <2>4 DEF Incoming
      <4>2. k + Len(inbox[c]) = (k + 1) + Len(inbox'[c])
        <5>1. Len(inbox'[c]) = Len(inbox[c]) - 1 /\ Len(inbox[c]) \in Nat /\ k \in Nat
          BY <1>5, <2>3
        <5>2. PICK x \in Int, y \in Int : x = Len(inbox[c]) /\ y = Len(inbox'[c])
          BY <5>1
        <5>3. y = x - 1
          BY <5>1, <5>2
        <5>4. k + x = (k + 1) + y
          BY ONLY <5>3, k \in Nat, x \in Int, y \in Int
        <5> QED
          BY ONLY <5>2, <5>4
      <4> QED
        BY <4>1, <4>2
    <3> QED
      BY <2>1, <3>1, <3>2 DEF Incoming
  <2>7. Passed(i, r, c, d, k)'
    BY <1>4, <2>1, <2>2, <2>5, <2>6 DEF Passed
  <2> QED
    BY <1>1, <1>3, <2>1, <2>2, <2>7, OutPump
<1>7. CASE PumpForwarded(i, r)
  <2>1. /\ pump[i][r] = "forward"
        /\ outbox' = [outbox EXCEPT ![d] = Append(@, held[i][r])]
        /\ pump' = [pump EXCEPT ![i][r] = "read"]
        /\ UNCHANGED <<sock, gone, sent, inbox, handler, peer_id, slot, held>>
    BY <1>3, <1>7 DEF PumpForwarded, PumpTo, Written, peers
  <2>2. /\ pump'[i][r] = "read"
        /\ outbox'[d] = Append(outbox[d], held[i][r])
        /\ \A j \in Id, s \in Role : j # i \/ s # r => pump'[j][s] = pump[j][s]
        /\ \A e \in Conn : e # d => outbox'[e] = outbox[e]
    BY <2>1 DEF IndInv, TypeOK
  <2>3. /\ held[i][r] = Data(k + 1) /\ k + 1 <= sent[c] /\ Incoming(c, k + 1)
        /\ outbox[d] = Announced(k)
    BY <1>4, <2>1 DEF Passed
  <2>4. outbox'[d] = Announced(k + 1)
    BY <2>2, <2>3, AnnouncedFacts
  <2>5. Incoming(c, k + 1)'
    BY <2>1, <2>3 DEF Incoming
  <2>6. Passed(i, r, c, d, k + 1)'
    BY <2>1, <2>2, <2>3, <2>4, <2>5 DEF Passed
  <2> QED
    BY <1>1, <1>3, <1>5, <2>1, <2>2, <2>6, OutPump
<1>8. CASE PumpEofForwarded(i, r)
  <2>1. /\ pump[i][r] = "forwardEof"
        /\ outbox' = [outbox EXCEPT ![d] = Append(@, EOF_)]
        /\ sock' = [sock EXCEPT ![d] = "closed"]
        /\ pump' = [pump EXCEPT ![i][r] = IF dead[i] THEN "done" ELSE "final"]
        /\ UNCHANGED <<gone, sent, inbox, handler, peer_id, slot, held>>
    BY <1>3, <1>8 DEF PumpEofForwarded, LeaveLoop, PumpTo, Written, peers
  <2>2. /\ pump'[i][r] \in {"done", "final"}
        /\ outbox'[d] = Append(outbox[d], EOF_) /\ sock'[d] = "closed"
        /\ \A j \in Id, s \in Role : j # i \/ s # r => pump'[j][s] = pump[j][s]
        /\ \A e \in Conn : e # d => outbox'[e] = outbox[e] /\ sock'[e] = sock[e]
    BY <2>1 DEF IndInv, TypeOK
  <2>3. outbox[d] = Announced(k) /\ k <= sent[c]
    BY <1>4, <2>1 DEF Passed
  <2>4. Passed(i, r, c, d, k)'
    BY <2>1, <2>2, <2>3 DEF Passed
  <2> QED
    BY <1>1, <1>3, <2>1, <2>2, <2>4, OutPump
<1>9. CASE PumpEnds(i, r)
  <2>1. /\ pump[i][r] \in {"read", "forward", "forwardEof"}
        /\ pump' = [pump EXCEPT ![i][r] = IF dead[i] THEN "done" ELSE "final"]
        /\ UNCHANGED <<sock, gone, sent, inbox, outbox, handler, peer_id, slot, held>>
    BY <1>9 DEF PumpEnds, LeaveLoop, PumpTo, peers
  <2>2. /\ pump'[i][r] \in {"done", "final"}
        /\ \A j \in Id, s \in Role : j # i \/ s # r => pump'[j][s] = pump[j][s]
    BY <2>1 DEF IndInv, TypeOK
  <2>3. Passed(i, r, c, d, k)'
    BY <1>4, <2>1, <2>2 DEF Passed
  <2> QED
    BY <1>1, <1>3, <2>1, <2>2, <2>3, OutPump
<1>10. CASE FinalWritten(i, r)
  <2>1. /\ pump[i][r] = "final" /\ sock[d] = "open"
        /\ outbox' = [outbox EXCEPT ![d] = Append(@, EOF_)]
        /\ sock' = [sock EXCEPT ![d] = "closed", ![c] = "closed"]
        /\ pump' = [pump EXCEPT ![i][r] = "done"]
        /\ UNCHANGED <<gone, sent, inbox, handler, peer_id, slot, held>>
    BY <1>3, <1>10 DEF FinalWritten, PumpTo, Written, CanWrite, peers
  <2>2. /\ pump'[i][r] = "done"
        /\ outbox'[d] = Append(outbox[d], EOF_)
        /\ \A j \in Id, s \in Role : j # i \/ s # r => pump'[j][s] = pump[j][s]
        /\ \A e \in Conn : e # d => outbox'[e] = outbox[e]
    BY <2>1 DEF IndInv, TypeOK
  <2>3. \A e \in Conn : sock'[e] = "open" => sock[e] = "open"
    BY <2>1 DEF IndInv, TypeOK
  <2>4. outbox[d] = Announced(k) /\ k <= sent[c]
    BY <1>4, <2>1 DEF Passed
  <2>5. Passed(i, r, c, d, k)'
    BY <2>1, <2>2, <2>4 DEF Passed
  <2> QED
    BY <1>1, <1>3, <2>1, <2>2, <2>3, <2>5, OutPump
<1>11. CASE FinalFail(i, r)
  <2>1. /\ pump[i][r] = "final"
        /\ pump' = [pump EXCEPT ![i][r] = "thrown"]
        /\ UNCHANGED <<sock, gone, sent, inbox, outbox, handler, peer_id, slot, held>>
    BY <1>11 DEF FinalFail, PumpTo, peers
  <2>2. /\ pump'[i][r] = "thrown"
        /\ \A j \in Id, s \in Role : j # i \/ s # r => pump'[j][s] = pump[j][s]
    BY <2>1 DEF IndInv, TypeOK
  <2>3. Passed(i, r, c, d, k)'
    BY <1>4, <2>1, <2>2 DEF Passed
  <2> QED
    BY <1>1, <1>3, <2>1, <2>2, <2>3, OutPump
<1> QED
  BY <1>6, <1>7, <1>8, <1>9, <1>10, <1>11 DEF PumpStep

\* A handler that moves on and writes to no one but an outsider.
LEMMA OutHandler ==
    ASSUME IndInv, OutInv, NEW h \in Conn,
           UNCHANGED <<gone, sent, inbox, peer_id, slot, pump, held>>,
           \A c \in Conn : c # h => handler'[c] = handler[c],
           handler'[h] \in {"read", "done"}, handler[h] # "done",
           \A c \in Conn : c # h => outbox'[c] = outbox[c],
           \/ outbox'[h] = outbox[h]
           \/ /\ \A i \in Id, r \in Role : slot[i][r] # h
              /\ outbox'[h] = <<EOF_>> /\ handler'[h] = "done",
           \A i \in Id, r \in Role, c \in Conn :
              slot[i][r] = c /\ sock'[c] = "open" => sock[c] = "open"
    PROVE  OutInv'
<1>1. \A i \in Id, r \in Role, c \in Conn : slot[i][r] = c => outbox'[c] = outbox[c]
  OBVIOUS
<1>2. \A c \in Conn, k \in Nat : Incoming(c, k)' <=> Incoming(c, k)
  BY DEF Incoming
<1>3. Outsiders'
  BY DEF OutInv, Outsiders
<1>4. BeforePumps'
  BY <1>1, <1>2 DEF OutInv, BeforePumps
<1>5. Announcing'
  <2>1. ASSUME NEW g \in Conn, NEW b \in Conn, NEW c \in Conn, NEW i \in Id,
               peer_id[g] = i, slot[i]["B"] = b, slot[i]["C"] = c
        PROVE  /\ handler'[g] = "readyB" => outbox'[b] = <<>> /\ outbox'[c] = <<>>
               /\ handler'[g] = "readyC" => outbox'[b] = <<READY>> /\ outbox'[c] = <<>>
    <3>1. outbox'[b] = outbox[b] /\ outbox'[c] = outbox[c]
      BY <1>1, <2>1, RoleFacts
    <3>2. handler'[g] \in {"readyB", "readyC"} => handler'[g] = handler[g]
      OBVIOUS
    <3> QED
      BY <2>1, <3>1, <3>2 DEF OutInv, Announcing
  <2>2. peer_id' = peer_id /\ slot' = slot
    OBVIOUS
  <2> QED
    BY ONLY <2>1, <2>2 DEF Announcing
<1>6. Pumping'
  <2> SUFFICES ASSUME NEW i \in Id, NEW r \in Role, NEW c \in Conn, NEW d \in Conn,
                      pump[i][r] # "none", slot[i][r] = c, slot[i][Other(r)] = d
               PROVE  \E k \in Nat : Passed(i, r, c, d, k)'
    BY DEF Pumping
  <2>1. PICK k \in Nat : Passed(i, r, c, d, k)
    BY DEF OutInv, Pumping
  <2>2. k + 1 \in Nat /\ Other(r) \in Role
    BY RoleFacts
  <2>3. outbox'[d] = outbox[d] /\ (sock'[d] = "open" => sock[d] = "open")
    BY <1>1, <2>2
  <2>4. Passed(i, r, c, d, k)'
    BY <1>2, <2>1, <2>2, <2>3 DEF Passed
  <2> QED
    BY <2>4
<1> QED
  BY <1>3, <1>4, <1>5, <1>6 DEF OutInv

LEMMA OutRegister ==
    ASSUME IndInv, OutInv, NEW h \in Conn, NEW i \in Id, NEW r \in Role, Register(h, i, r)
    PROVE  OutInv'
<1>1. /\ handler[h] = "read" /\ UNCHANGED <<sock, gone, sent, inbox, outbox, pump, held>>
      /\ \A c \in Conn : c # h => handler'[c] = handler[c] /\ peer_id'[c] = peer_id[c]
      /\ peer_id'[h] = i
      /\ handler'[h] = IF slot[i][r] # NoConn THEN "reject"
                       ELSE IF slot[i][Other(r)] # NoConn THEN "readyB" ELSE "done"
  BY DEF Register, IndInv, TypeOK
<1>2. \A j \in Id, s \in Role : slot[j][s] # h
  BY <1>1, ConnAssumption DEF IndInv, Registration, SlotsRegistered
<1>3. sent[h] = 0 /\ inbox[h] = <<>> /\ outbox[h] = <<>>
  BY <1>1, <1>2 DEF OutInv, Outsiders
<1>4. \A c \in Conn, k \in Nat : Incoming(c, k)' <=> Incoming(c, k)
  BY <1>1 DEF Incoming
<1>5. CASE slot[i][r] # NoConn
  <2>1. slot' = slot /\ handler'[h] = "reject"
    BY <1>1, <1>5 DEF Register
  <2>2. Outsiders'
    BY <1>1, <1>3, <2>1 DEF OutInv, Outsiders
  <2>3. BeforePumps'
    BY <1>1, <1>4, <2>1 DEF OutInv, BeforePumps
  <2>4. Announcing'
    <3>1. \A g \in Conn : handler'[g] \in {"readyB", "readyC"} =>
             handler'[g] = handler[g] /\ peer_id'[g] = peer_id[g]
      BY <1>1, <2>1
    <3>2. Announcing /\ outbox' = outbox
      BY <1>1 DEF OutInv
    <3> QED
      BY ONLY <2>1, <3>1, <3>2 DEF Announcing
  <2>5. Pumping'
    <3>1. \A j \in Id, s \in Role, c, d \in Conn, k \in Nat :
             Passed(j, s, c, d, k) => Passed(j, s, c, d, k)'
      <4> SUFFICES ASSUME NEW j \in Id, NEW s \in Role, NEW c \in Conn, NEW d \in Conn,
                          NEW k \in Nat, Passed(j, s, c, d, k)
                   PROVE  Passed(j, s, c, d, k)'
        OBVIOUS
      <4>1. k + 1 \in Nat
        OBVIOUS
      <4> QED
        BY <1>1, <1>4, <4>1 DEF Passed
    <3> QED
      BY <1>1, <2>1, <3>1 DEF OutInv, Pumping
  <2> QED
    BY <2>2, <2>3, <2>4, <2>5 DEF OutInv
<1>6. CASE slot[i][r] = NoConn
  <2>1. /\ slot'[i][r] = h
        /\ \A j \in Id, s \in Role : j # i \/ s # r => slot'[j][s] = slot[j][s]
        /\ handler'[h] = IF slot[i][Other(r)] # NoConn THEN "readyB" ELSE "done"
    BY <1>1, <1>6 DEF Register, IndInv, TypeOK
  <2>2. /\ \A s \in Role : pump[i][s] = "none"
        /\ \A g \in Conn : Ready(g) => peer_id[g] # i
    BY <1>6 DEF IndInv, Registration, PumpsAfterReady, ReadyCompletesPair
  <2>3. Other(r) \in Role /\ Other(r) # r /\ Other(Other(r)) = r
    BY RoleFacts DEF Role, Other
  <2>4. ASSUME NEW e \in Conn, slot[i][Other(r)] = e PROVE outbox[e] = <<>>
    <3>1. pump[i][Other(Other(r))] = "none" /\ slot[i][Other(Other(r))] = NoConn
      BY <1>6, <2>2, <2>3
    <3> QED
      BY <2>3, <2>4, <3>1 DEF OutInv, BeforePumps
  <2>5. Outsiders'
    <3> SUFFICES ASSUME NEW c \in Conn, \A j \in Id, s \in Role : slot'[j][s] # c
                 PROVE  /\ sent[c] = 0 /\ inbox[c] = <<>>
                        /\ outbox[c] = <<>> \/ (outbox[c] = <<EOF_>> /\ handler'[c] = "done")
      BY <1>1 DEF Outsiders
    <3>1. c # h
      BY <2>1
    <3>2. \A j \in Id, s \in Role : slot[j][s] # c
      BY <1>6, <2>1, ConnAssumption
    <3> QED
      BY <1>1, <3>1, <3>2 DEF OutInv, Outsiders
  <2>6. BeforePumps'
    <3> SUFFICES ASSUME NEW j \in Id, NEW s \in Role, NEW c \in Conn, slot'[j][s] = c
                 PROVE  /\ pump[j][s] = "none" => Incoming(c, 0)
                        /\ pump[j][Other(s)] = "none" =>
                              \/ outbox[c] = <<>>
                              \/ outbox[c] = <<READY>> /\ slot'[j][Other(s)] # NoConn
      BY <1>1, <1>4 DEF BeforePumps
    <3>1. CASE j = i /\ s = r
      <4>1. c = h
        BY <2>1, <3>1
      <4>2. Len(inbox[h]) = 0
        BY <1>3
      <4>3. Incoming(h, 0)
        BY <1>3, <4>2 DEF Incoming
      <4> QED
        BY <1>3, <4>1, <4>3
    <3>2. CASE j # i \/ s # r
      <4>1. slot[j][s] = c /\ Other(s) \in Role
        BY <2>1, <3>2, RoleFacts
      <4>2. slot[j][Other(s)] # NoConn => slot'[j][Other(s)] # NoConn
        BY <1>6, <2>1, <4>1
      <4> QED
        BY <4>1, <4>2 DEF OutInv, BeforePumps
    <3> QED
      BY <3>1, <3>2
  <2>7. Announcing'
    <3>1. ASSUME NEW g \in Conn, NEW b \in Conn, NEW c \in Conn, NEW j \in Id,
                 peer_id'[g] = j, slot'[j]["B"] = b, slot'[j]["C"] = c
          PROVE  /\ handler'[g] = "readyB" => outbox[b] = <<>> /\ outbox[c] = <<>>
                 /\ handler'[g] = "readyC" => outbox[b] = <<READY>> /\ outbox[c] = <<>>
      <4>1. CASE g = h
        <5>1. j = i
          BY <1>1, <3>1, <4>1
        <5>2. \A s \in Role, e \in Conn : slot'[i][s] = e => outbox[e] = <<>>
          <6> SUFFICES ASSUME NEW s \in Role, NEW e \in Conn, slot'[i][s] = e PROVE outbox[e] = <<>>
            OBVIOUS
          <6>1. s = r \/ s = Other(r)
            BY RoleFacts
          <6> QED
            BY <1>3, <2>1, <2>3, <2>4, <6>1
        <5>3. outbox[b] = <<>> /\ outbox[c] = <<>>
          BY <3>1, <5>1, <5>2, RoleFacts
        <5>4. handler'[g] # "readyC"
          BY <2>1, <4>1
        <5> QED
          BY <5>3, <5>4
      <4>2. CASE g # h
        <5>1. handler'[g] = handler[g] /\ peer_id[g] = j
          BY <1>1, <3>1, <4>2
        <5>2. CASE Ready(g)
          <6>1. j # i
            BY <2>2, <5>1, <5>2
          <6>2. slot[j]["B"] = b /\ slot[j]["C"] = c
            BY <2>1, <3>1, <6>1, RoleFacts
          <6> QED
            BY <5>1, <6>2 DEF OutInv, Announcing
        <5>3. CASE ~Ready(g)
          BY <5>1, <5>3 DEF Ready
        <5> QED
          BY <5>2, <5>3
      <4> QED
        BY <4>1, <4>2
    <3>2. outbox' = outbox
      BY <1>1
    <3> QED
      BY ONLY <3>1, <3>2 DEF Announcing
  <2>8. Pumping'
    <3> SUFFICES ASSUME NEW j \in Id, NEW s \in Role, NEW c \in Conn, NEW d \in Conn,
                        pump[j][s] # "none", slot'[j][s] = c, slot'[j][Other(s)] = d
                 PROVE  \E k \in Nat : Passed(j, s, c, d, k)'
      BY <1>1 DEF Pumping
    <3>1. j # i
      BY <2>2
    <3>2. slot[j][s] = c /\ slot[j][Other(s)] = d
      BY <2>1, <3>1, RoleFacts
    <3>3. PICK k \in Nat : Passed(j, s, c, d, k)
      BY <3>2 DEF OutInv, Pumping
    <3>4. k + 1 \in Nat
      OBVIOUS
    <3>5. Passed(j, s, c, d, k)'
      BY <1>1, <1>4, <3>3, <3>4 DEF Passed
    <3> QED
      BY <3>5
  <2> QED
    BY <2>5, <2>6, <2>7, <2>8 DEF OutInv
<1> QED
  BY <1>5, <1>6

LEMMA OutReadyB ==
    ASSUME IndInv, OutInv, NEW h \in Conn, ReadyBWritten(h)
    PROVE  OutInv'
<1>1. Ready(h) /\ handler[h] = "readyB"
  BY DEF ReadyBWritten, Ready
<1>2. peer_id[h] \in Id /\ \A s \in Role : slot[peer_id[h]][s] \in Conn
  BY <1>1, ReadyHasBothPeers
<1>3. PICK i \in Id, b \in Conn, c \in Conn :
          peer_id[h] = i /\ slot[i]["B"] = b /\ slot[i]["C"] = c
  BY <1>2, RoleFacts
<1>4. /\ outbox' = [outbox EXCEPT ![b] = Append(@, READY)]
      /\ handler' = [handler EXCEPT ![h] = "readyC"]
      /\ UNCHANGED <<sock, gone, sent, inbox, peer_id, slot, pump, held>>
  BY <1>3 DEF ReadyBWritten, Written, peers
<1>5. /\ handler'[h] = "readyC" /\ \A g \in Conn : g # h => handler'[g] = handler[g]
      /\ outbox'[b] = Append(outbox[b], READY) /\ \A e \in Conn : e # b => outbox'[e] = outbox[e]
  BY <1>4 DEF IndInv, TypeOK
<1>6. outbox[b] = <<>> /\ outbox[c] = <<>>
  BY <1>1, <1>3 DEF OutInv, Announcing
<1>7. outbox'[b] = <<READY>>
  BY <1>5, <1>6
<1>8. /\ \A j \in Id, s \in Role : slot[j][s] = b => j = i /\ s = "B"
      /\ \A j \in Id, s \in Role : slot[j][s] = c => j = i /\ s = "C"
      /\ b # c /\ \A s \in Role : pump[i][s] = "none"
  <2>1. \A s \in Role : pump[i][s] = "none"
    BY <1>1, <1>3 DEF IndInv, Registration, PumpsAfterReady
  <2>2. \A j \in Id, s \in Role : slot[j][s] = b => j = i /\ s = "B"
    BY <1>3, OneSlot, RoleFacts
  <2>3. \A j \in Id, s \in Role : slot[j][s] = c => j = i /\ s = "C"
    BY <1>3, OneSlot, RoleFacts
  <2> QED
    BY <1>3, <2>1, <2>2, <2>3, RoleFacts
<1>9. \A e \in Conn, k \in Nat : Incoming(e, k)' <=> Incoming(e, k)
  BY <1>4 DEF Incoming
<1>10. Outsiders'
  <2> SUFFICES ASSUME NEW e \in Conn, \A j \in Id, s \in Role : slot[j][s] # e
               PROVE  /\ sent[e] = 0 /\ inbox[e] = <<>>
                      /\ outbox'[e] = <<>> \/ (outbox'[e] = <<EOF_>> /\ handler'[e] = "done")
    BY <1>4 DEF Outsiders
  <2>1. e # b
    BY <1>3, RoleFacts
  <2>2. /\ sent[e] = 0 /\ inbox[e] = <<>>
        /\ outbox[e] = <<>> \/ (outbox[e] = <<EOF_>> /\ handler[e] = "done")
    BY DEF OutInv, Outsiders
  <2> QED
    BY <1>1, <1>5, <2>1, <2>2
<1>11. BeforePumps'
  <2> SUFFICES ASSUME NEW j \in Id, NEW s \in Role, NEW e \in Conn, slot[j][s] = e
               PROVE  /\ pump[j][s] = "none" => Incoming(e, 0)
                      /\ pump[j][Other(s)] = "none" =>
                            \/ outbox'[e] = <<>>
                            \/ outbox'[e] = <<READY>> /\ slot[j][Other(s)] # NoConn
    BY <1>4, <1>9 DEF BeforePumps
  <2>1. CASE e = b
    <3>1. j = i /\ s = "B" /\ Other(s) = "C" /\ c # NoConn
      BY <1>8, <2>1, ConnAssumption DEF Other
    <3> QED
      BY <1>3, <1>7, <2>1, <3>1 DEF OutInv, BeforePumps
  <2>2. CASE e # b
    BY <1>5, <2>2 DEF OutInv, BeforePumps
  <2> QED
    BY <2>1, <2>2
<1>12. Announcing'
  <2>1. ASSUME NEW g \in Conn, NEW a \in Conn, NEW e \in Conn, NEW j \in Id,
               peer_id[g] = j, slot[j]["B"] = a, slot[j]["C"] = e
        PROVE  /\ handler'[g] = "readyB" => outbox'[a] = <<>> /\ outbox'[e] = <<>>
               /\ handler'[g] = "readyC" => outbox'[a] = <<READY>> /\ outbox'[e] = <<>>
    <3>1. CASE g = h
      <4>1. a = b /\ e = c
        BY <1>3, <2>1, <3>1
      <4> QED
        BY <1>5, <1>6, <1>7, <1>8, <3>1, <4>1
    <3>2. CASE g # h
      <4>1. handler'[g] = handler[g]
        BY <1>5, <3>2
      <4>2. CASE Ready(g)
        <5>1. j # i
          BY <1>1, <1>3, <2>1, <3>2, <4>2 DEF IndInv, Registration, OneReady
        <5>2. a # b /\ e # b
          BY <1>8, <2>1, <5>1, RoleFacts
        <5>3. outbox'[a] = outbox[a] /\ outbox'[e] = outbox[e]
          BY <1>5, <5>2
        <5>4. Announcing
          BY DEF OutInv
        <5>5. /\ handler[g] = "readyB" => outbox[a] = <<>> /\ outbox[e] = <<>>
              /\ handler[g] = "readyC" => outbox[a] = <<READY>> /\ outbox[e] = <<>>
          BY ONLY <2>1, <5>4, g \in Conn, a \in Conn, e \in Conn, j \in Id DEF Announcing
        <5> QED
          BY ONLY <4>1, <5>3, <5>5
      <4>3. CASE ~Ready(g)
        BY <4>1, <4>3 DEF Ready
      <4> QED
        BY <4>2, <4>3
    <3> QED
      BY <3>1, <3>2
  <2>2. peer_id' = peer_id /\ slot' = slot
    BY <1>4
  <2> QED
    BY ONLY <2>1, <2>2 DEF Announcing
<1>13. Pumping'
  <2> SUFFICES ASSUME NEW j \in Id, NEW s \in Role, NEW e \in Conn, NEW f \in Conn,
                      pump[j][s] # "none", slot[j][s] = e, slot[j][Other(s)] = f
               PROVE  \E k \in Nat : Passed(j, s, e, f, k)'
    BY <1>4 DEF Pumping
  <2>1. f # b
    BY <1>8, RoleFacts
  <2>2. PICK k \in Nat : Passed(j, s, e, f, k)
    BY DEF OutInv, Pumping
  <2>3. k + 1 \in Nat
    OBVIOUS
  <2>4. Passed(j, s, e, f, k)'
    BY <1>4, <1>5, <1>9, <2>1, <2>2, <2>3 DEF Passed
  <2> QED
    BY <2>4
<1> QED
  BY <1>10, <1>11, <1>12, <1>13 DEF OutInv

LEMMA OutReadyC ==
    ASSUME IndInv, OutInv, NEW h \in Conn, ReadyCWritten(h)
    PROVE  OutInv'
<1>1. Ready(h) /\ handler[h] = "readyC"
  BY DEF ReadyCWritten, Ready
<1>2. peer_id[h] \in Id /\ \A s \in Role : slot[peer_id[h]][s] \in Conn
  BY <1>1, ReadyHasBothPeers
<1>3. PICK i \in Id, b \in Conn, c \in Conn :
          peer_id[h] = i /\ slot[i]["B"] = b /\ slot[i]["C"] = c
  BY <1>2, RoleFacts
<1>4. /\ outbox' = [outbox EXCEPT ![c] = Append(@, READY)]
      /\ handler' = [handler EXCEPT ![h] = "done"]
      /\ pump' = [pump EXCEPT ![i] = [r \in Role |-> "read"]]
      /\ UNCHANGED <<sock, gone, sent, inbox, peer_id, slot, held>>
  BY <1>3 DEF ReadyCWritten, Written, peers
<1>5. /\ handler'[h] = "done" /\ \A g \in Conn : g # h => handler'[g] = handler[g]
      /\ outbox'[c] = Append(outbox[c], READY) /\ \A e \in Conn : e # c => outbox'[e] = outbox[e]
      /\ \A s \in Role : pump'[i][s] = "read"
      /\ \A j \in Id : j # i => pump'[j] = pump[j]
  BY <1>4 DEF IndInv, TypeOK
<1>6. outbox[b] = <<READY>> /\ outbox[c] = <<>>
  BY <1>1, <1>3 DEF OutInv, Announcing
<1>7. outbox'[c] = <<READY>>
  BY <1>5, <1>6
<1>8. /\ \A j \in Id, s \in Role : slot[j][s] = b => j = i /\ s = "B"
      /\ \A j \in Id, s \in Role : slot[j][s] = c => j = i /\ s = "C"
      /\ b # c /\ \A s \in Role : pump[i][s] = "none"
  <2>1. \A s \in Role : pump[i][s] = "none"
    BY <1>1, <1>3 DEF IndInv, Registration, PumpsAfterReady
  <2>2. \A j \in Id, s \in Role : slot[j][s] = b => j = i /\ s = "B"
    BY <1>3, OneSlot, RoleFacts
  <2>3. \A j \in Id, s \in Role : slot[j][s] = c => j = i /\ s = "C"
    BY <1>3, OneSlot, RoleFacts
  <2> QED
    BY <1>3, <2>1, <2>2, <2>3, RoleFacts
<1>9. \A e \in Conn, k \in Nat : Incoming(e, k)' <=> Incoming(e, k)
  BY <1>4 DEF Incoming
<1>10. Outsiders'
  <2> SUFFICES ASSUME NEW e \in Conn, \A j \in Id, s \in Role : slot[j][s] # e
               PROVE  /\ sent[e] = 0 /\ inbox[e] = <<>>
                      /\ outbox'[e] = <<>> \/ (outbox'[e] = <<EOF_>> /\ handler'[e] = "done")
    BY <1>4 DEF Outsiders
  <2>1. e # c
    BY <1>3, RoleFacts
  <2>2. /\ sent[e] = 0 /\ inbox[e] = <<>>
        /\ outbox[e] = <<>> \/ (outbox[e] = <<EOF_>> /\ handler[e] = "done")
    BY DEF OutInv, Outsiders
  <2> QED
    BY <1>5, <2>1, <2>2
<1>11. BeforePumps'
  <2> SUFFICES ASSUME NEW j \in Id, NEW s \in Role, NEW e \in Conn, slot[j][s] = e
               PROVE  /\ pump'[j][s] = "none" => Incoming(e, 0)
                      /\ pump'[j][Other(s)] = "none" =>
                            \/ outbox'[e] = <<>>
                            \/ outbox'[e] = <<READY>> /\ slot[j][Other(s)] # NoConn
    BY <1>4, <1>9 DEF BeforePumps
  <2>1. CASE j = i
    BY <1>5, <2>1, RoleFacts
  <2>2. CASE j # i
    <3>1. e # c
      BY <1>8, <2>2
    <3> QED
      BY <1>5, <2>2, <3>1 DEF OutInv, BeforePumps
  <2> QED
    BY <2>1, <2>2
<1>12. Announcing'
  <2>1. ASSUME NEW g \in Conn, NEW a \in Conn, NEW e \in Conn, NEW j \in Id,
               peer_id[g] = j, slot[j]["B"] = a, slot[j]["C"] = e
        PROVE  /\ handler'[g] = "readyB" => outbox'[a] = <<>> /\ outbox'[e] = <<>>
               /\ handler'[g] = "readyC" => outbox'[a] = <<READY>> /\ outbox'[e] = <<>>
    <3>1. CASE g = h \/ ~Ready(g)
      BY <1>5, <3>1 DEF Ready
    <3>2. CASE g # h /\ Ready(g)
      <4>1. j # i /\ handler'[g] = handler[g]
        BY <1>1, <1>3, <1>5, <2>1, <3>2 DEF IndInv, Registration, OneReady
      <4>2. a # c /\ e # c
        BY <1>8, <2>1, <4>1, RoleFacts
      <4>3. outbox'[a] = outbox[a] /\ outbox'[e] = outbox[e]
        BY <1>5, <4>2
      <4>4. /\ handler[g] = "readyB" => outbox[a] = <<>> /\ outbox[e] = <<>>
            /\ handler[g] = "readyC" => outbox[a] = <<READY>> /\ outbox[e] = <<>>
        BY <2>1 DEF OutInv, Announcing
      <4> QED
        BY <4>1, <4>3, <4>4
    <3> QED
      BY <3>1, <3>2
  <2>2. peer_id' = peer_id /\ slot' = slot
    BY <1>4
  <2> QED
    BY ONLY <2>1, <2>2 DEF Announcing
<1>13. Pumping'
  <2> SUFFICES ASSUME NEW j \in Id, NEW s \in Role, NEW e \in Conn, NEW f \in Conn,
                      pump'[j][s] # "none", slot[j][s] = e, slot[j][Other(s)] = f
               PROVE  \E k \in Nat : Passed(j, s, e, f, k)'
    BY <1>4 DEF Pumping
  <2>1. CASE j = i
    <3>1. f = b \/ f = c
      BY <1>3, <2>1 DEF Other
    <3>2. outbox'[f] = Announced(0)
      <4>1. outbox'[f] = <<READY>>
        BY <1>5, <1>6, <1>7, <1>8, <3>1
      <4> QED
        BY <4>1, AnnouncedFacts
    <3>3. Incoming(e, 0)'
      BY <1>8, <1>9, <2>1 DEF OutInv, BeforePumps
    <3>4. 0 <= sent'[e] /\ pump'[j][s] = "read"
      BY <1>4, <1>5, <2>1 DEF IndInv, TypeOK
    <3>5. Passed(j, s, e, f, 0)'
      BY <3>2, <3>3, <3>4 DEF Passed
    <3> QED
      BY <3>5
  <2>2. CASE j # i
    <3>1. f # c /\ pump'[j][s] = pump[j][s]
      BY <1>5, <1>8, <2>2, RoleFacts
    <3>2. PICK k \in Nat : Passed(j, s, e, f, k)
      BY <3>1 DEF OutInv, Pumping
    <3>3. k + 1 \in Nat
      OBVIOUS
    <3>4. Passed(j, s, e, f, k)'
      BY <1>4, <1>5, <1>9, <3>1, <3>2, <3>3 DEF Passed
    <3> QED
      BY <3>4
  <2> QED
    BY <2>1, <2>2
<1> QED
  BY <1>10, <1>11, <1>12, <1>13 DEF OutInv

LEMMA OutStep == IndInv /\ OutInv /\ [Next]_vars => OutInv'
<1> SUFFICES ASSUME IndInv, OutInv, [Next]_vars PROVE OutInv'
  OBVIOUS
<1>0. \A h \in Conn : handler[h] \in {"none", "read", "reject"} =>
          \A i \in Id, r \in Role : slot[i][r] # h
  BY ConnAssumption DEF IndInv, Registration, SlotsRegistered
<1>1. ASSUME NEW h \in Conn, Accept(h) PROVE OutInv'
  BY <1>0, <1>1, OutHandler DEF Accept, peers, IndInv, TypeOK
<1>2. ASSUME NEW h \in Conn, BadRegister(h) PROVE OutInv'
  BY <1>0, <1>2, OutHandler DEF BadRegister, peers, IndInv, TypeOK
<1>3. ASSUME NEW h \in Conn, Rejected(h) PROVE OutInv'
  <2>1. \A i \in Id, r \in Role : slot[i][r] # h
    BY <1>0, <1>3 DEF Rejected
  <2>2. outbox[h] = <<>>
    BY <1>3, <2>1 DEF Rejected, OutInv, Outsiders
  <2>3. outbox' = outbox \/ outbox' = [outbox EXCEPT ![h] = <<EOF_>>]
    <3>1. Append(outbox[h], EOF_) = <<EOF_>>
      BY <2>2
    <3> QED
      BY <1>3, <3>1 DEF Rejected, Written
  <2>4. /\ \A c \in Conn : c # h => outbox'[c] = outbox[c]
        /\ outbox'[h] = outbox[h] \/ outbox'[h] = <<EOF_>>
    BY <2>3 DEF IndInv, TypeOK
  <2>5. /\ UNCHANGED <<gone, sent, inbox, peer_id, slot, pump, held>>
        /\ handler[h] = "reject" /\ handler'[h] = "done"
        /\ \A c \in Conn : c # h => handler'[c] = handler[c] /\ sock'[c] = sock[c]
    BY <1>3 DEF Rejected, peers, IndInv, TypeOK
  <2> QED
    BY <2>1, <2>4, <2>5, OutHandler
<1>4. ASSUME NEW h \in Conn, ReadyFail(h) PROVE OutInv'
  BY <1>4, OutHandler DEF ReadyFail, peers, IndInv, TypeOK
<1>5. ASSUME NEW h \in Conn, NEW i \in Id, NEW r \in Role, Register(h, i, r) PROVE OutInv'
  BY <1>5, OutRegister
<1>6. ASSUME NEW h \in Conn, ReadyBWritten(h) \/ ReadyCWritten(h) PROVE OutInv'
  BY <1>6, OutReadyB, OutReadyC
<1>7. ASSUME NEW p \in Conn, PeerSend(p) \/ PeerGone(p) PROVE OutInv'
  BY <1>7, OutPeer
<1>8. ASSUME NEW i \in Id, NEW r \in Role, PumpStep(i, r) PROVE OutInv'
  BY <1>8, OutPumpStep
<1>9. CASE UNCHANGED vars
  <2>1. /\ sock' = sock /\ gone' = gone /\ sent' = sent /\ inbox' = inbox /\ outbox' = outbox
        /\ handler' = handler /\ peer_id' = peer_id /\ slot' = slot /\ pump' = pump /\ held' = held
    BY <1>9 DEF vars
  <2>2. Outsiders'
    BY <2>1 DEF OutInv, Outsiders
  <2>3. \A c \in Conn, k \in Nat : Incoming(c, k)' <=> Incoming(c, k)
    BY <2>1 DEF Incoming
  <2>4. BeforePumps'
    BY <2>1, <2>3 DEF OutInv, BeforePumps
  <2>5. Announcing'
    <3>1. Announcing
      BY DEF OutInv
    <3> QED
      BY ONLY <2>1, <3>1 DEF Announcing
  <2>6. Pumping'
    <3>1. \A i \in Id, r \in Role, c, d \in Conn, k \in Nat :
             Passed(i, r, c, d, k)' <=> Passed(i, r, c, d, k)
      <4>1. \A k \in Nat : k + 1 \in Nat
        OBVIOUS
      <4> QED
        BY <2>1, <2>3, <4>1 DEF Passed
    <3> QED
      BY <2>1, <3>1 DEF OutInv, Pumping
  <2> QED
    BY <2>2, <2>4, <2>5, <2>6 DEF OutInv
<1> QED
  BY <1>1, <1>2, <1>3, <1>4, <1>5, <1>6, <1>7, <1>8, <1>9 DEF Next, HandlerNext

LEMMA OutMeaning == IndInv /\ OutInv => OutboxWellFormed
<1> SUFFICES ASSUME IndInv, OutInv, NEW c \in Conn
             PROVE  \/ outbox[c] = <<>>
                    \/ outbox[c] = <<EOF_>> /\ \A i \in Id, r \in Role : slot[i][r] # c
                    \/ /\ Partner(c) # NoConn
                       /\ \E k \in 0..sent[Partner(c)] :
                             outbox[c] \in {Announced(k), Append(Announced(k), EOF_)}
  BY DEF OutboxWellFormed, Announced
<1>1. CASE \A i \in Id, r \in Role : slot[i][r] # c
  BY <1>1 DEF OutInv, Outsiders
<1>2. ASSUME NEW i \in Id, NEW r \in Role, slot[i][r] = c, outbox[c] # <<>>
      PROVE  /\ Partner(c) # NoConn
             /\ \E k \in 0..sent[Partner(c)] :
                   outbox[c] \in {Announced(k), Append(Announced(k), EOF_)}
  <2>1. peer_id[c] = i /\ peer_role[c] = r /\ Other(r) \in Role /\ Other(Other(r)) = r
    BY <1>2, ConnAssumption, RoleFacts DEF IndInv, Registration, SlotsRegistered, Role, Other
  <2>2. Partner(c) = slot[i][Other(r)]
    BY <1>2, <2>1 DEF Partner
  <2>3. CASE pump[i][Other(r)] = "none"
    <3>1. outbox[c] = <<READY>> /\ slot[i][Other(r)] # NoConn
      BY <1>2, <2>3 DEF OutInv, BeforePumps
    <3>2. slot[i][Other(r)] \in Conn
      BY <2>1, <3>1 DEF IndInv, TypeOK
    <3>3. 0 \in 0..sent[Partner(c)]
      BY <2>2, <3>2 DEF IndInv, TypeOK
    <3> QED
      BY <2>2, <3>1, <3>3, AnnouncedFacts
  <2>4. CASE pump[i][Other(r)] # "none"
    <3>1. PICK d \in Conn : slot[i][Other(r)] = d
      BY <2>1, <2>4, PumpHasBothPeers
    <3>2. PICK k \in Nat : Passed(i, Other(r), d, c, k)
      BY <1>2, <2>1, <2>4, <3>1 DEF OutInv, Pumping
    <3>3. k \in 0..sent[d]
      BY <3>2 DEF Passed, IndInv, TypeOK
    <3> QED
      BY <2>2, <3>1, <3>2, <3>3, ConnAssumption DEF Passed
  <2> QED
    BY <2>3, <2>4
<1> QED
  BY <1>1, <1>2

\* What A writes to a connection is nothing, EOF_ for a duplicate, or READY, the
\* partner's frames from the first on without a gap, and at most one EOF_:
\* whatever the peers send, when they vanish, and however many pairs there are.
THEOREM OutboxesWellFormed == Spec => []OutboxWellFormed
<1>1. Init => OutInv
  <2>1. ASSUME Init, NEW c \in Conn PROVE Len(inbox[c]) = 0
    <3>1. inbox[c] = <<>>
      BY <2>1 DEF Init
    <3> QED
      BY <3>1
  <2> QED
    BY <2>1, ConnAssumption DEF Init, OutInv, Outsiders, BeforePumps, Announcing, Pumping
<1> QED
  BY <1>1, OutStep, OutMeaning, Invariance, PTL DEF Spec
==============================================================================
