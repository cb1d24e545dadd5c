---------------------------- MODULE Relay_proofs ----------------------------
(***************************************************************************)
(* Theorems about one IDR pair, for any set of sessions and any number of  *)
(* units, with connections that may break.                                 *)
(***************************************************************************)
EXTENDS Relay, SequenceTheorems, TLAPS

-----------------------------------------------------------------------------
(* Types *)

LEMMA FrameTypes ==
    /\ \A m \in Method, u \in Uuid : ControlFrame(m, u) \in Frame
    /\ \A u \in Uuid, n \in Nat : DataFrame(u, n) \in Frame
    /\ \A f \in Frame : Translated(f) \in Frame
BY DEF ControlFrame, DataFrame, Translated, Frame, Method

\* What aconn_write and the loss of a connection leave on the wire.
LEMMA WriteUpTyped ==
    ASSUME WireTypeOK, NEW f \in Frame, aconn_write_up(f),
           UNCHANGED <<down, linkB, linkC>>
    PROVE  WireTypeOK'
BY FrameTypes DEF WireTypeOK, aconn_write_up

LEMMA WriteDownTyped ==
    ASSUME WireTypeOK, NEW f \in Frame, aconn_write_down(f),
           UNCHANGED <<up, linkB, linkC>>
    PROVE  WireTypeOK'
BY DEF WireTypeOK, aconn_write_down

LEMMA PrefixTyped ==
    ASSUME NEW S, NEW s \in Seq(S), NEW t \in Prefixes(s)
    PROVE  /\ t \in Seq(S)
           /\ Len(t) <= Len(s)
           /\ \A i \in 1..Len(t) : t[i] = s[i]
<1>1. PICK k \in 0..Len(s) : t = SubSeq(s, 1, k)
  BY DEF Prefixes
<1>2. \A i \in 1..k : s[i] \in S
  BY ElementOfSeq
<1> QED
  BY <1>1, <1>2, SubSeqProperties

LEMMA BreakTyped ==
    ASSUME WireTypeOK, NEW b \in BOOLEAN, NEW c \in BOOLEAN, BreakLink(b, c)
    PROVE  WireTypeOK'
<1>1. up' \in Seq(Frame) /\ down' \in Seq(Frame)
  BY PrefixTyped DEF BreakLink, WireTypeOK
<1> QED
  BY <1>1 DEF BreakLink, WireTypeOK

LEMMA WireUnchanged ==
    ASSUME WireTypeOK, UNCHANGED wireVars
    PROVE  WireTypeOK'
BY DEF WireTypeOK, wireVars

\* The frame a reader takes off its stream.
LEMMA HeadFrame ==
    ASSUME NEW s \in Seq(Frame), s # <<>>
    PROVE  /\ Head(s) \in Frame
           /\ Head(s).uuid \in Uuid /\ Head(s).unit \in Nat /\ Head(s).method \in Method
           /\ Head(s) = s[1]
           /\ Tail(s) \in Seq(Frame)
           /\ Len(s) \in Nat /\ Len(s) >= 1
           /\ Len(Tail(s)) = Len(s) - 1
           /\ \A i \in 1..Len(Tail(s)) : Tail(s)[i] = s[i + 1]
<1>1. /\ Head(s) \in Frame /\ Tail(s) \in Seq(Frame)
      /\ Len(Tail(s)) = Len(s) - 1
      /\ \A i \in 1..Len(Tail(s)) : Tail(s)[i] = s[i + 1]
  BY HeadTailProperties
<1>2. Head(s).uuid \in Uuid /\ Head(s).unit \in Nat /\ Head(s).method \in Method
  BY <1>1 DEF Frame
<1>3. Len(s) \in Nat /\ Len(s) >= 1 /\ Head(s) = s[1]
  OBVIOUS
<1> QED
  BY <1>1, <1>2, <1>3

LEMMA ReaderGetsTyped ==
    ASSUME WireTypeOK, NEW methods, ReaderGets(methods)
    PROVE  /\ WireTypeOK'
           /\ Head(down).uuid \in Uuid /\ Head(down).unit \in Nat
BY HeadFrame DEF WireTypeOK, ReaderGets

LEMMA MainGetsTyped ==
    ASSUME WireTypeOK, NEW methods, MainGets(methods)
    PROVE  /\ WireTypeOK'
           /\ Head(up).uuid \in Uuid /\ Head(up).unit \in Nat
BY HeadFrame DEF WireTypeOK, MainGets

LEMMA VisitorTypes ==
    ASSUME TypeOK, VisitorNext
    PROVE  WireTypeOK' /\ VisitorTypeOK'
<1> USE DEF TypeOK
<1> DEFINE Goal == WireTypeOK' /\ VisitorTypeOK'
<1>1. ASSUME NEW u \in Uuid, Accept(u) PROVE Goal
  <2>1. WireTypeOK'
    BY <1>1, FrameTypes, WriteUpTyped DEF Accept, Method
  <2>2. VisitorTypeOK'
    BY <1>1 DEF Accept, VisitorTypeOK, PumpState, SocketState, b_flags, b_readerVars
  <2> QED
    BY <2>1, <2>2
<1>2. CASE AcceptFail
  BY <1>2, WireUnchanged DEF AcceptFail, b_CloseAll, VisitorTypeOK, SocketState, b_flags, b_readerVars
<1>3. ASSUME NEW u \in Uuid, PumpLoop(u) PROVE Goal
  <2>1. WireTypeOK'
    BY <1>3, WireUnchanged DEF PumpLoop
  <2>2. VisitorTypeOK'
    BY <1>3 DEF PumpLoop, b_Reaped, b_LoopHead, VisitorTypeOK, PumpState, SocketState, b_flags, b_readerVars
  <2> QED
    BY <2>1, <2>2
<1>4. ASSUME NEW u \in Uuid, PumpRead(u) PROVE Goal
  <2>1. WireTypeOK'
    BY <1>4, FrameTypes, WriteUpTyped DEF PumpRead, VisitorTypeOK
  <2>2. VisitorTypeOK'
    BY <1>4 DEF PumpRead, VisitorTypeOK, PumpState, b_flags, b_readerVars
  <2> QED
    BY <2>1, <2>2
<1>5. ASSUME NEW u \in Uuid, PumpEof(u) PROVE Goal
  <2>1. WireTypeOK'
    BY <1>5, FrameTypes, WriteUpTyped DEF PumpEof, Method
  <2>2. VisitorTypeOK'
    BY <1>5 DEF PumpEof, VisitorTypeOK, PumpState, b_readerVars
  <2> QED
    BY <2>1, <2>2
<1>6. ASSUME NEW u \in Uuid, PumpEofSent(u) PROVE Goal
  <2>1. WireTypeOK'
    BY <1>6, WireUnchanged DEF PumpEofSent
  <2>2. VisitorTypeOK'
    BY <1>6 DEF PumpEofSent, b_Reaped, VisitorTypeOK, PumpState, SocketState, b_readerVars
  <2> QED
    BY <2>1, <2>2
<1>7. CASE ReaderIgnore
  BY <1>7, ReaderGetsTyped DEF ReaderIgnore, VisitorTypeOK, visitorVars, b_flags, b_readerVars
<1>8. CASE ReaderReject
  BY <1>8, ReaderGetsTyped DEF ReaderReject, b_Drop, VisitorTypeOK, SocketState, b_readerVars
<1>9. CASE ReaderData
  BY <1>9, ReaderGetsTyped DEF ReaderData, VisitorTypeOK, ReaderState, b_flags
<1>10. CASE ReaderDataEof
  <2>1. WireTypeOK' /\ Head(down).uuid \in Uuid
    BY <1>10, ReaderGetsTyped DEF ReaderDataEof
  <2>2. VisitorTypeOK'
    BY <1>10, <2>1 DEF ReaderDataEof, b_Reaped, VisitorTypeOK, SocketState, b_readerVars
  <2> QED
    BY <2>1, <2>2
<1>11. CASE ReaderWrote
  <2>1. WireTypeOK'
    BY <1>11, WireUnchanged DEF ReaderWrote
  <2>2. b_written' \in [Uuid -> Seq(Nat)]
    <3>1. b_cur \in Uuid /\ b_unit \in Nat /\ b_written \in [Uuid -> Seq(Nat)]
      BY <1>11 DEF ReaderWrote, VisitorTypeOK
    <3>2. Append(b_written[b_cur], b_unit) \in Seq(Nat)
      BY <3>1
    <3> QED
      BY <1>11, <3>1, <3>2 DEF ReaderWrote
  <2>3. VisitorTypeOK'
    BY <1>11, <2>2 DEF ReaderWrote, VisitorTypeOK, ReaderState, b_flags
  <2> QED
    BY <2>1, <2>3
<1>12. CASE ReaderWriteFail
  <2>1. WireTypeOK'
    BY <1>12, FrameTypes, WriteUpTyped DEF ReaderWriteFail, VisitorTypeOK, Method
  <2>2. VisitorTypeOK'
    BY <1>12 DEF ReaderWriteFail, VisitorTypeOK, ReaderState, b_flags
  <2> QED
    BY <2>1, <2>2
<1>13. CASE ReaderCloseSent
  BY <1>13, WireUnchanged DEF ReaderCloseSent, b_Drop, VisitorTypeOK, SocketState, ReaderState
<1>14. CASE ReaderStaleIterator
  <2>1. WireTypeOK'
    BY <1>14, BreakTyped DEF ReaderStaleIterator, WireTypeOK
  <2>2. VisitorTypeOK'
    BY <1>14 DEF ReaderStaleIterator, VisitorTypeOK, PumpState, SocketState, ReaderState, b_flags
  <2> QED
    BY <2>1, <2>2
<1>15. CASE ReaderStop
  BY <1>15, WireUnchanged DEF ReaderStop, b_CloseAll, VisitorTypeOK, SocketState, ReaderState, b_flags
<1> QED
  BY <1>1, <1>2, <1>3, <1>4, <1>5, <1>6, <1>7, <1>8, <1>9, <1>10, <1>11, <1>12,
     <1>13, <1>14, <1>15 DEF VisitorNext, AcceptNext, ReaderNext, PumpNext

LEMMA ReapedTyped ==
    ASSUME NEW remote \in [Uuid -> RemoteState], NEW sessions, NEW co
    PROVE  c_Reaped(remote, sessions, co) \in [Uuid -> RemoteState]
BY DEF c_Reaped, RemoteState

LEMMA ShutTyped ==
    ASSUME NEW remote \in [Uuid -> RemoteState], NEW u \in Uuid
    PROVE  /\ c_Shut(remote, u) \in [Uuid -> RemoteState]
           /\ c_Shut(remote, u)[u] \in RemoteState
BY DEF c_Shut, RemoteState

LEMMA CloseTyped ==
    ASSUME NEW remote \in [Uuid -> RemoteState], NEW us
    PROVE  c_Close(remote, us) \in [Uuid -> RemoteState]
BY DEF c_Close, RemoteState

\* The coroutine goes back to the head of its loop.
LEMMA LoopHeadTyped ==
    ASSUME ProviderTypeOK, NEW u \in Uuid, NEW r \in RemoteState, c_LoopHead(u, r)
    PROVE  /\ c_sessions' \in SUBSET Uuid
           /\ c_co' \in [Uuid -> CoState]
           /\ c_remote' \in [Uuid -> RemoteState]
<1>1. [c_remote EXCEPT ![u] = r] \in [Uuid -> RemoteState]
  BY DEF ProviderTypeOK
<1>2. c_remote' \in [Uuid -> RemoteState]
  BY <1>1, ReapedTyped DEF c_LoopHead
<1> QED
  BY <1>2 DEF c_LoopHead, ProviderTypeOK, CoState

LEMMA DrainTyped ==
    ASSUME ProviderTypeOK, NEW u \in Uuid,
           NEW pending \in Seq(RemoteWrite), c_Drain(u, pending)
    PROVE  /\ c_sessions' \in SUBSET Uuid
           /\ c_co' \in [Uuid -> CoState]
           /\ c_remote' \in [Uuid -> RemoteState]
           /\ c_arrival_buffer' \in [Uuid -> Seq(Nat)]
           /\ c_pending' \in [Uuid -> Seq(RemoteWrite)]
<1> USE DEF ProviderTypeOK
<1> DEFINE buffer == c_arrival_buffer[u]
           entry == [by |-> "drain", unit |-> Head(buffer)]
<1>1. CASE buffer # <<>> /\ c_remote[u] = "open"
  <2>1. Head(buffer) \in Nat /\ Tail(buffer) \in Seq(Nat)
    BY <1>1
  <2>2. entry \in RemoteWrite
    BY <2>1 DEF RemoteWrite, Writer
  <2>3. /\ c_pending' = [c_pending EXCEPT ![u] = Append(pending, entry)]
        /\ c_arrival_buffer' = [c_arrival_buffer EXCEPT ![u] = Tail(buffer)]
        /\ c_co' = [c_co EXCEPT ![u] = "drain"]
        /\ UNCHANGED <<c_sessions, c_remote>>
    BY <1>1 DEF c_Drain
  <2> HIDE DEF entry, buffer
  <2>4. Append(pending, entry) \in Seq(RemoteWrite)
    BY <2>2
  <2> QED
    BY <2>1, <2>3, <2>4 DEF CoState
<1>2. CASE buffer # <<>> /\ c_remote[u] # "open"
  <2>1. /\ c_pending' = [c_pending EXCEPT ![u] = pending]
        /\ c_co' = [c_co EXCEPT ![u] = "thrown"]
        /\ c_remote' = c_Reaped(c_remote, c_sessions, c_co')
        /\ UNCHANGED <<c_sessions, c_arrival_buffer>>
    BY <1>2 DEF c_Drain
  <2>2. c_remote' \in [Uuid -> RemoteState]
    BY <2>1, ReapedTyped
  <2> QED
    BY <2>1, <2>2 DEF CoState
<1>3. CASE buffer = <<>>
  <2> DEFINE r == IF c_half_close_recv[u] THEN c_Shut(c_remote, u)[u] ELSE c_remote[u]
  <2>1. r \in RemoteState
    BY ShutTyped
  <2>2. /\ c_LoopHead(u, r)
        /\ c_pending' = [c_pending EXCEPT ![u] = pending]
        /\ UNCHANGED c_arrival_buffer
    BY <1>3 DEF c_Drain
  <2> HIDE DEF r
  <2> QED
    BY <2>1, <2>2, LoopHeadTyped
<1> QED
  BY <1>1, <1>2, <1>3

LEMMA PendingTyped ==
    ASSUME ProviderTypeOK, NEW u \in Uuid, c_pending[u] # <<>>
    PROVE  /\ Head(c_pending[u]).unit \in Nat
           /\ Tail(c_pending[u]) \in Seq(RemoteWrite)
<1>1. Head(c_pending[u]) \in RemoteWrite
  BY DEF ProviderTypeOK
<1>2. Tail(c_pending[u]) \in Seq(RemoteWrite)
  BY DEF ProviderTypeOK
<1> QED
  BY <1>1, <1>2 DEF RemoteWrite

LEMMA MainTypes ==
    ASSUME TypeOK, MainNext
    PROVE  WireTypeOK' /\ ProviderTypeOK'
<1> USE DEF TypeOK
<1>1. CASE MainForwardSession
  BY <1>1, MainGetsTyped DEF MainForwardSession, ProviderTypeOK, CoState, c_flags, c_mainVars
<1>2. CASE MainIgnore
  BY <1>2, MainGetsTyped DEF MainIgnore, ProviderTypeOK, providerVars, c_flags, c_mainVars
<1>3. CASE MainBuffer
  <2>1. WireTypeOK' /\ Head(up).uuid \in Uuid /\ Head(up).unit \in Nat
    BY <1>3, MainGetsTyped DEF MainBuffer
  <2>2. c_arrival_buffer' \in [Uuid -> Seq(Nat)]
    BY <1>3, <2>1 DEF MainBuffer, ProviderTypeOK
  <2> QED
    BY <1>3, <2>1, <2>2 DEF MainBuffer, ProviderTypeOK, c_flags, c_mainVars
<1>4. CASE MainData
  <2> DEFINE u == Head(up).uuid
             entry == [by |-> "main", unit |-> Head(up).unit]
  <2>1. WireTypeOK' /\ u \in Uuid /\ Head(up).unit \in Nat
    BY <1>4, MainGetsTyped DEF MainData
  <2>2. entry \in RemoteWrite
    BY <2>1 DEF RemoteWrite, Writer
  <2>3. /\ c_pending' = [c_pending EXCEPT ![u] = Append(@, entry)]
        /\ c_main' = "write" /\ c_cur' = u
        /\ UNCHANGED <<c_sessions, c_co, c_remote, c_flags, c_arrival_buffer, c_read, c_written>>
    BY <1>4 DEF MainData, c_StartWrite
  <2> HIDE DEF u, entry
  <2>4. c_pending' \in [Uuid -> Seq(RemoteWrite)]
    BY <2>1, <2>2, <2>3 DEF ProviderTypeOK
  <2> QED
    BY <2>1, <2>3, <2>4 DEF ProviderTypeOK, MainState, c_flags
<1>5. CASE MainWrote
  <2>1. /\ c_cur \in Uuid /\ Head(c_pending[c_cur]).unit \in Nat
        /\ Tail(c_pending[c_cur]) \in Seq(RemoteWrite)
    BY <1>5, PendingTyped DEF MainWrote, c_Oldest, ProviderTypeOK
  <2>2. c_written' \in [Uuid -> Seq(Nat)] /\ c_pending' \in [Uuid -> Seq(RemoteWrite)]
    BY <1>5, <2>1 DEF MainWrote, ProviderTypeOK
  <2> QED
    BY <1>5, <2>1, <2>2, WireUnchanged DEF MainWrote, ProviderTypeOK, MainState, c_flags
<1>6. CASE MainWriteFail
  <2>1. /\ c_cur \in Uuid
        /\ Tail(c_pending[c_cur]) \in Seq(RemoteWrite)
    BY <1>6, PendingTyped DEF MainWriteFail, c_Oldest, ProviderTypeOK
  <2> QED
    BY <1>6, <2>1, WireUnchanged, CloseTyped
       DEF MainWriteFail, c_Teardown, ProviderTypeOK, MainState, c_flags
<1>7. CASE MainDataEof
  <2>1. WireTypeOK' /\ Head(up).uuid \in Uuid
    BY <1>7, MainGetsTyped DEF MainDataEof
  <2>2. c_remote' \in [Uuid -> RemoteState]
    BY <1>7, <2>1, ShutTyped, ReapedTyped DEF MainDataEof, ProviderTypeOK
  <2> QED
    BY <1>7, <2>1, <2>2 DEF MainDataEof, ProviderTypeOK, c_mainVars
<1>8. CASE MainSessionClose
  <2>1. WireTypeOK' /\ Head(up).uuid \in Uuid
    BY <1>8, MainGetsTyped DEF MainSessionClose
  <2>2. c_remote' \in [Uuid -> RemoteState]
    BY <1>8, CloseTyped DEF MainSessionClose, ProviderTypeOK
  <2> QED
    BY <1>8, <2>1, <2>2 DEF MainSessionClose, ProviderTypeOK, c_mainVars
<1>9. CASE MainStop
  BY <1>9, WireUnchanged, CloseTyped
     DEF MainStop, c_Teardown, ProviderTypeOK, MainState, c_flags
<1> QED
  BY <1>1, <1>2, <1>3, <1>4, <1>5, <1>6, <1>7, <1>8, <1>9 DEF MainNext

LEMMA CoTypes ==
    ASSUME TypeOK, NEW u \in Uuid, CoNext(u)
    PROVE  WireTypeOK' /\ ProviderTypeOK'
<1> USE DEF TypeOK
<1>1. CASE ConnectFail(u)
  <2>1. WireTypeOK'
    BY <1>1, FrameTypes, WriteDownTyped DEF ConnectFail, Method
  <2> QED
    BY <1>1, <2>1 DEF ConnectFail, ProviderTypeOK, CoState, c_flags, c_mainVars
<1>2. CASE ErrSent(u)
  BY <1>2, WireUnchanged DEF ErrSent, ProviderTypeOK, CoState, c_mainVars
<1>3. CASE Connected(u)
  <2>1. WireTypeOK'
    BY <1>3, FrameTypes, WriteDownTyped DEF Connected, Method
  <2> QED
    BY <1>3, <2>1 DEF Connected, ProviderTypeOK, CoState, RemoteState, c_flags, c_mainVars
<1>4. CASE OkSent(u)
  <2>1. c_pending[u] \in Seq(RemoteWrite)
    BY DEF ProviderTypeOK
  <2> QED
    BY <1>4, <2>1, WireUnchanged, DrainTyped DEF OkSent, ProviderTypeOK, c_flags, c_mainVars
<1>5. CASE DrainWrote(u)
  <2>1. /\ Head(c_pending[u]).unit \in Nat
        /\ Tail(c_pending[u]) \in Seq(RemoteWrite)
    BY <1>5, PendingTyped DEF DrainWrote, c_Oldest
  <2>2. c_written' \in [Uuid -> Seq(Nat)]
    BY <1>5, <2>1 DEF DrainWrote, ProviderTypeOK
  <2>3. c_Drain(u, Tail(c_pending[u])) /\ UNCHANGED <<wireVars, c_flags, c_read, c_mainVars>>
    BY <1>5 DEF DrainWrote
  <2> QED
    BY <2>1, <2>2, <2>3, WireUnchanged, DrainTyped DEF ProviderTypeOK, c_flags, c_mainVars
<1>6. CASE DrainFail(u)
  <2>1. Tail(c_pending[u]) \in Seq(RemoteWrite)
    BY <1>6, PendingTyped DEF DrainFail, c_Oldest
  <2> QED
    BY <1>6, <2>1, WireUnchanged, ReapedTyped DEF DrainFail, ProviderTypeOK, CoState, c_flags, c_mainVars
<1>7. CASE RemoteRead(u)
  <2>1. WireTypeOK'
    BY <1>7, FrameTypes, WriteDownTyped DEF RemoteRead, ProviderTypeOK
  <2>2. c_read' \in [Uuid -> Nat] /\ c_co' \in [Uuid -> CoState]
    BY <1>7 DEF RemoteRead, ProviderTypeOK, CoState
  <2> QED
    BY <1>7, <2>1, <2>2 DEF RemoteRead, ProviderTypeOK, c_flags, c_mainVars
<1>8. CASE RemoteSent(u)
  BY <1>8, WireUnchanged, LoopHeadTyped DEF RemoteSent, ProviderTypeOK, c_flags, c_mainVars
<1>9. CASE RemoteEof(u)
  <2>1. WireTypeOK'
    BY <1>9, FrameTypes, WriteDownTyped DEF RemoteEof, Method
  <2> QED
    BY <1>9, <2>1 DEF RemoteEof, ProviderTypeOK, CoState, c_mainVars
<1>10. CASE RemoteEofSent(u)
  BY <1>10, WireUnchanged, ReapedTyped DEF RemoteEofSent, ProviderTypeOK, CoState, c_mainVars
<1> QED
  BY <1>1, <1>2, <1>3, <1>4, <1>5, <1>6, <1>7, <1>8, <1>9, <1>10 DEF CoNext

LEMMA LinkDownTyped ==
    ASSUME WireTypeOK, LinkDown
    PROVE  WireTypeOK'
BY BreakTyped DEF LinkDown, WireTypeOK

\* ProviderExit breaks the connection as LinkDown does.
LEMMA ExitIsLinkDown ==
    ASSUME ProviderExit
    PROVE  LinkDown /\ UNCHANGED providerVars
BY DEF ProviderExit, LinkDown

LEMMA TypeStep == TypeOK /\ [Next]_vars => TypeOK'
<1> SUFFICES ASSUME TypeOK, [Next]_vars PROVE TypeOK'
  OBVIOUS
<1>1. ASSUME UNCHANGED visitorVars PROVE VisitorTypeOK'
  BY <1>1 DEF TypeOK, VisitorTypeOK, visitorVars, b_flags, b_readerVars
<1>2. ASSUME UNCHANGED providerVars PROVE ProviderTypeOK'
  BY <1>2 DEF TypeOK, ProviderTypeOK, providerVars, c_flags, c_mainVars
<1>3. CASE VisitorNext /\ UNCHANGED providerVars
  BY <1>2, <1>3, VisitorTypes DEF TypeOK
<1>4. CASE ProviderNext /\ UNCHANGED visitorVars
  BY <1>1, <1>2, <1>4, MainTypes, CoTypes, ExitIsLinkDown, LinkDownTyped
     DEF TypeOK, ProviderNext
<1>5. CASE LinkDown /\ UNCHANGED <<visitorVars, providerVars>>
  BY <1>1, <1>2, <1>5, LinkDownTyped DEF TypeOK
<1>6. CASE UNCHANGED vars
  BY <1>1, <1>2, <1>6, WireUnchanged DEF TypeOK, vars
<1> QED
  BY <1>3, <1>4, <1>5, <1>6 DEF Next

\* Every variable of B, of C and of the wire keeps its type.
THEOREM TypeCorrect == Spec => []TypeOK
<1>1. Init => TypeOK
  <2>1. <<>> \in Seq(Frame) /\ <<>> \in Seq(Nat) /\ <<>> \in Seq(RemoteWrite)
    OBVIOUS
  <2> QED
    <3>1. Init => WireTypeOK
      BY <2>1 DEF Init, WireInit, WireTypeOK
    <3>2. ASSUME VisitorInit PROVE VisitorTypeOK
      <4>1. b_written \in [Uuid -> Seq(Nat)]
        BY <2>1, <3>2 DEF VisitorInit
      <4>2. /\ b_accepting \in BOOLEAN /\ b_sessions \in SUBSET Uuid
            /\ b_half_close_recv \in [Uuid -> BOOLEAN]
            /\ b_half_close_send \in [Uuid -> BOOLEAN]
            /\ b_closed \in [Uuid -> BOOLEAN] /\ b_inserted \in BOOLEAN
        BY <3>2 DEF VisitorInit
      <4>3. /\ b_pump \in [Uuid -> PumpState] /\ b_client \in [Uuid -> SocketState]
            /\ b_read \in [Uuid -> Nat] /\ b_reader = "read" /\ b_unit \in Nat
        BY <3>2 DEF VisitorInit, PumpState, SocketState
      <4>4. b_cur \in Uuid \union {NoUuid}
        BY <3>2 DEF VisitorInit
      <4> QED
        BY <4>1, <4>2, <4>3, <4>4 DEF VisitorTypeOK, ReaderState
    <3>3. Init => ProviderTypeOK
      BY <2>1 DEF Init, ProviderInit, ProviderTypeOK, CoState, RemoteState, MainState
    <3> QED
      BY <3>1, <3>2, <3>3 DEF TypeOK, Init
<1> QED
  BY <1>1, TypeStep, PTL DEF Spec

-----------------------------------------------------------------------------
(* What the maps hold, and the stream from B to C *)

\* Frame i of stream s is one of session u with method m.
Carries(s, i, m, u) == s[i].method = m /\ s[i].uuid = u

\* A session that B has not accepted has left no trace, one that C has not
\* heard of none at C.
NewToB ==
    \A u \in Uuid : b_pump[u] = "none" =>
        /\ u \notin b_sessions /\ ~b_closed[u] /\ b_cur # u
        /\ c_co[u] = "none"
        /\ \A i \in 1..Len(up) : up[i].uuid # u

NewToC ==
    \A u \in Uuid : c_co[u] = "none" =>
        u \notin c_sessions /\ ~c_closed[u] /\ c_remote[u] = "none"

\* C hears of a session once.
ForwardedOnce ==
    /\ \A u \in Uuid : \A i \in 1..Len(up) :
          Carries(up, i, "FORWARD_SESSION", u) => c_co[u] = "none"
    /\ \A u \in Uuid : \A i, j \in 1..Len(up) :
          Carries(up, i, "FORWARD_SESSION", u) /\ Carries(up, j, "FORWARD_SESSION", u)
          => i = j

\* DATA_EOF is the last of B's stream: the pump ends with it, and no DATA
\* comes behind it, on the wire or once C has read it.
EofEndsPump ==
    \A u \in Uuid : b_half_close_send[u] => b_pump[u] \in {"sendEof", "done"}
EofOnWire ==
    \A u \in Uuid : \A i \in 1..Len(up) :
        Carries(up, i, "DATA_EOF", u) => b_half_close_send[u]
EofBehindData ==
    \A u \in Uuid : \A i, j \in 1..Len(up) :
        Carries(up, i, "DATA_EOF", u) /\ Carries(up, j, "DATA", u) => j < i
EofRead ==
    \A u \in Uuid : c_half_close_recv[u] =>
        b_half_close_send[u] /\ \A i \in 1..Len(up) : ~Carries(up, i, "DATA", u)
EofLastUp == EofEndsPump /\ EofOnWire /\ EofBehindData /\ EofRead

ShutByEof == \A u \in Uuid : c_remote[u] = "shut" => c_half_close_recv[u]

MapOfB == \A u \in b_sessions : ~b_closed[u] /\ b_client[u] \in {"open", "shut"}
MapOfC == \A u \in c_sessions : ~c_closed[u] /\ c_remote[u] # "closed" /\ c_co[u] # "done"

UpInv == NewToB /\ ForwardedOnce /\ EofLastUp
MapInv == NewToC /\ ShutByEof /\ MapOfB /\ MapOfC

\* A stream from which the head or some tail was taken, or nothing.
Shrinks(s, t) ==
    \E d \in {0, 1} : /\ Len(t) + d <= Len(s)
                      /\ \A i \in 1..Len(t) : t[i] = s[i + d]

LEMMA PrefixShrinks ==
    ASSUME NEW s \in Seq(Frame), NEW t \in Prefixes(s)
    PROVE  t \in Seq(Frame) /\ Shrinks(s, t)
<1>1. t \in Seq(Frame) /\ Len(t) <= Len(s) /\ \A i \in 1..Len(t) : t[i] = s[i]
  BY PrefixTyped
<1>2. /\ Len(t) + 0 <= Len(s)
      /\ \A i \in 1..Len(t) : t[i] = s[i + 0]
  BY <1>1
<1> QED
  BY <1>1, <1>2 DEF Shrinks

LEMMA TailShrinks ==
    ASSUME NEW s \in Seq(Frame), s # <<>>
    PROVE  Shrinks(s, Tail(s))
<1>1. /\ Len(Tail(s)) + 1 <= Len(s)
      /\ \A i \in 1..Len(Tail(s)) : Tail(s)[i] = s[i + 1]
  BY HeadFrame
<1> QED
  BY <1>1 DEF Shrinks

LEMMA SameShrinks ==
    ASSUME NEW s \in Seq(Frame)
    PROVE  Shrinks(s, s)
<1>1. /\ Len(s) + 0 <= Len(s)
      /\ \A i \in 1..Len(s) : s[i] = s[i + 0]
  OBVIOUS
<1> QED
  BY <1>1 DEF Shrinks

\* Taking frames off the stream keeps what is said of it, provided that what
\* the nodes learn agrees with what is left.
LEMMA UpInvShrinks ==
    ASSUME TypeOK, UpInv, up' \in Seq(Frame), Shrinks(up, up'),
           UNCHANGED b_half_close_send,
           \A u \in Uuid : c_half_close_recv'[u] =>
               \/ c_half_close_recv[u]
               \/ /\ b_half_close_send[u]
                  /\ \A i \in 1..Len(up') : ~Carries(up', i, "DATA", u),
           \A u \in Uuid : c_co[u] = "none" /\ c_co'[u] # "none" =>
               /\ b_pump[u] # "none"
               /\ \A i \in 1..Len(up') : ~Carries(up', i, "FORWARD_SESSION", u),
           \A u \in Uuid : b_pump'[u] = "none" =>
               b_pump[u] = "none" /\ u \notin b_sessions' /\ ~b_closed'[u] /\ b_cur' # u,
           \A u \in Uuid : b_pump[u] \in {"sendEof", "done"} =>
               b_pump'[u] \in {"sendEof", "done"}
    PROVE  UpInv'
<1>1. PICK d \in {0, 1} : /\ Len(up') + d <= Len(up)
                         /\ \A i \in 1..Len(up') : up'[i] = up[i + d]
  BY DEF Shrinks
<1>2. Len(up) \in Nat /\ Len(up') \in Nat
  BY DEF TypeOK, WireTypeOK
<1>3. \A i \in 1..Len(up') : i + d \in 1..Len(up) /\ up'[i] = up[i + d]
  BY <1>1, <1>2
<1>4. NewToB'
  BY <1>3 DEF UpInv, NewToB
<1>5. ForwardedOnce'
  <2> SUFFICES ASSUME NEW u \in Uuid, NEW i \in 1..Len(up'), Carries(up', i, "FORWARD_SESSION", u)
               PROVE  /\ c_co'[u] = "none"
                      /\ \A j \in 1..Len(up') : Carries(up', j, "FORWARD_SESSION", u) => i = j
    BY DEF ForwardedOnce
  <2>1. c_co[u] = "none"
    BY <1>3 DEF UpInv, ForwardedOnce, Carries
  <2>2. ASSUME NEW j \in 1..Len(up'), Carries(up', j, "FORWARD_SESSION", u) PROVE i = j
    <3>1. /\ i + d \in 1..Len(up) /\ Carries(up, i + d, "FORWARD_SESSION", u)
          /\ j + d \in 1..Len(up) /\ Carries(up, j + d, "FORWARD_SESSION", u)
      BY <1>3, <2>2 DEF Carries
    <3>2. i + d = j + d
      BY <3>1 DEF UpInv, ForwardedOnce
    <3> QED
      BY <1>2, <3>2
  <2> QED
    BY <1>2, <2>1, <2>2
<1>6. EofEndsPump'
  BY DEF UpInv, EofLastUp, EofEndsPump
<1>7. EofOnWire'
  BY <1>3 DEF UpInv, EofLastUp, EofOnWire, Carries
<1>8. EofBehindData'
  <2> SUFFICES ASSUME NEW u \in Uuid, NEW i \in 1..Len(up'), NEW j \in 1..Len(up'),
                      Carries(up', i, "DATA_EOF", u), Carries(up', j, "DATA", u)
               PROVE  j < i
    BY DEF EofBehindData
  <2>1. /\ i + d \in 1..Len(up) /\ Carries(up, i + d, "DATA_EOF", u)
        /\ j + d \in 1..Len(up) /\ Carries(up, j + d, "DATA", u)
    BY <1>3 DEF Carries
  <2>2. j + d < i + d
    BY <2>1 DEF UpInv, EofLastUp, EofBehindData
  <2> QED
    BY <1>2, <2>2
<1>9. EofRead'
  BY <1>3 DEF UpInv, EofLastUp, EofRead, Carries
<1> QED
  BY <1>4, <1>5, <1>6, <1>7, <1>8, <1>9 DEF UpInv, EofLastUp

\* What aconn_write adds to the stream of B.
LEMMA WrittenUp ==
    ASSUME WireTypeOK, NEW f \in Frame, aconn_write_up(f)
    PROVE  /\ up' \in Seq(Frame) /\ Len(up) \in Nat /\ Len(up') \in Nat
           /\ \A i \in 1..Len(up') :
                 \/ i \in 1..Len(up) /\ up'[i] = up[i]
                 \/ i = Len(up) + 1 /\ up'[i] = Translated(f)
<1>1. CASE linkB /\ linkC
  <2>1. Translated(f) \in Frame
    BY FrameTypes
  <2> DEFINE g == Translated(f)
  <2> HIDE DEF g
  <2>2. up' = Append(up, g)
    BY <1>1 DEF aconn_write_up, g
  <2> QED
    BY <2>1, <2>2 DEF WireTypeOK, g
<1>2. CASE ~(linkB /\ linkC)
  BY <1>2 DEF aconn_write_up, WireTypeOK
<1> QED
  BY <1>1, <1>2

\* DATA_EOF stays behind DATA when another frame than DATA is added.
LEMMA EofBehindGrows ==
    ASSUME EofBehindData, Len(up) \in Nat, Len(up') \in Nat,
           NEW f, Translated(f).method # "DATA",
           \A i \in 1..Len(up') :
              \/ i \in 1..Len(up) /\ up'[i] = up[i]
              \/ i = Len(up) + 1 /\ up'[i] = Translated(f)
    PROVE  EofBehindData'
<1> DEFINE g == Translated(f)
<1>0. /\ g.method # "DATA"
      /\ \A i \in 1..Len(up') : \/ i \in 1..Len(up) /\ up'[i] = up[i]
                                \/ i = Len(up) + 1 /\ up'[i] = g
  OBVIOUS
<1> HIDE DEF g
<1>1. ASSUME NEW v \in Uuid, NEW i \in 1..Len(up'), NEW j \in 1..Len(up'),
             Carries(up', i, "DATA_EOF", v), Carries(up', j, "DATA", v)
      PROVE  j < i
  <2>1. j \in 1..Len(up) /\ Carries(up, j, "DATA", v)
    BY <1>0, <1>1 DEF Carries
  <2>2. CASE i \in 1..Len(up) /\ up'[i] = up[i]
    <3>1. Carries(up, i, "DATA_EOF", v)
      BY <1>1, <2>2 DEF Carries
    <3> QED
      BY <2>1, <2>2, <3>1 DEF EofBehindData
  <2>3. CASE i = Len(up) + 1
    BY <2>1, <2>3
  <2> QED
    BY <1>0, <2>2, <2>3
<1> QED
  BY ONLY <1>1 DEF EofBehindData

\* The steps of B and the stream to C.
LEMMA VisitorUpInv ==
    ASSUME TypeOK, UpInv, MapInv, VisitorNext, UNCHANGED providerVars
    PROVE  UpInv'
<1>1. c_co' = c_co /\ c_half_close_recv' = c_half_close_recv
  BY DEF providerVars, c_flags
<1>2. up \in Seq(Frame) /\ Shrinks(up, up)
  BY SameShrinks DEF TypeOK, WireTypeOK
<1>t. /\ b_pump \in [Uuid -> PumpState] /\ b_closed \in [Uuid -> BOOLEAN]
      /\ b_half_close_send \in [Uuid -> BOOLEAN]
  BY DEF TypeOK, VisitorTypeOK
<1>3. ASSUME NEW u \in Uuid, Accept(u) PROVE UpInv'
  <2> DEFINE f == ControlFrame("NEW_SESSION", u)
  <2>1. f \in Frame /\ Translated(f).uuid = u /\ Translated(f).method = "FORWARD_SESSION"
    BY FrameTypes DEF ControlFrame, Translated, Method
  <2>2. aconn_write_up(f)
    BY <1>3 DEF Accept
  <2> HIDE DEF f
  <2>3. /\ Len(up) \in Nat /\ Len(up') \in Nat
        /\ \A i \in 1..Len(up') :
              \/ i \in 1..Len(up) /\ up'[i] = up[i]
              \/ i = Len(up) + 1 /\ up'[i] = Translated(f)
    BY <2>1, <2>2, WrittenUp DEF TypeOK
  <2>4. /\ b_pump[u] = "none"
        /\ b_pump' = [b_pump EXCEPT ![u] = "announcing"]
        /\ b_sessions' = b_sessions \union {u}
        /\ UNCHANGED <<b_closed, b_half_close_send, b_cur>>
    BY <1>3 DEF Accept, b_flags, b_readerVars
  <2>5. c_co[u] = "none" /\ \A i \in 1..Len(up) : up[i].uuid # u
    BY <2>4 DEF UpInv, NewToB
  <2>6. NewToB'
    BY <1>1, <1>t, <2>1, <2>3, <2>4 DEF UpInv, NewToB
  <2>7. ForwardedOnce'
    <3>1. \A v \in Uuid, i \in 1..Len(up') : Carries(up', i, "FORWARD_SESSION", v) =>
             \/ v # u /\ i \in 1..Len(up) /\ Carries(up, i, "FORWARD_SESSION", v)
             \/ v = u /\ i = Len(up) + 1
      BY <2>1, <2>3, <2>5 DEF Carries
    <3>2. ForwardedOnce
      BY DEF UpInv
    <3> QED
      BY ONLY <1>1, <2>5, <3>1, <3>2 DEF ForwardedOnce
  <2>8. EofEndsPump' /\ EofOnWire'
    BY <1>1, <1>t, <2>1, <2>3, <2>4 DEF UpInv, EofLastUp, EofEndsPump, EofOnWire, Carries
  <2>9. EofBehindData'
    BY <2>1, <2>3, EofBehindGrows DEF UpInv, EofLastUp
  <2>10. EofRead'
    BY <1>1, <1>t, <2>1, <2>3, <2>4 DEF UpInv, EofLastUp, EofEndsPump, EofRead, Carries
  <2> QED
    BY <2>6, <2>7, <2>8, <2>9, <2>10 DEF UpInv, EofLastUp
<1>4. ASSUME NEW u \in Uuid, PumpRead(u) PROVE UpInv'
  <2> DEFINE f == DataFrame(u, b_read[u] + 1)
  <2>1. f \in Frame /\ Translated(f).uuid = u /\ Translated(f).method = "DATA"
    <3>1. b_read[u] + 1 \in Nat
      BY DEF TypeOK, VisitorTypeOK
    <3> QED
      BY <3>1, FrameTypes DEF DataFrame, Translated
  <2>2. aconn_write_up(f)
    BY <1>4 DEF PumpRead
  <2> HIDE DEF f
  <2>3. /\ Len(up) \in Nat /\ Len(up') \in Nat
        /\ \A i \in 1..Len(up') :
              \/ i \in 1..Len(up) /\ up'[i] = up[i]
              \/ i = Len(up) + 1 /\ up'[i] = Translated(f)
    BY <2>1, <2>2, WrittenUp DEF TypeOK
  <2>4. /\ b_pump[u] = "read"
        /\ b_pump' = [b_pump EXCEPT ![u] = "sendData"]
        /\ UNCHANGED <<b_sessions, b_closed, b_half_close_send, b_cur>>
    BY <1>4 DEF PumpRead, b_flags, b_readerVars
  <2>5. ~b_half_close_send[u]
    BY <2>4 DEF UpInv, EofLastUp, EofEndsPump
  <2>6. NewToB'
    BY <1>1, <1>t, <2>1, <2>3, <2>4 DEF UpInv, NewToB
  <2>7. ForwardedOnce'
    <3>1. \A v \in Uuid, i \in 1..Len(up') : Carries(up', i, "FORWARD_SESSION", v) =>
             i \in 1..Len(up) /\ Carries(up, i, "FORWARD_SESSION", v)
      BY <2>1, <2>3 DEF Carries
    <3>2. ForwardedOnce
      BY DEF UpInv
    <3> QED
      BY ONLY <1>1, <3>1, <3>2 DEF ForwardedOnce
  <2>8. EofEndsPump' /\ EofOnWire'
    BY <1>1, <1>t, <2>1, <2>3, <2>4, <2>5 DEF UpInv, EofLastUp, EofEndsPump, EofOnWire, Carries
  <2>9. EofBehindData'
    BY <1>1, <2>1, <2>3, <2>4, <2>5 DEF UpInv, EofLastUp, EofOnWire, EofBehindData, Carries
  <2>10. EofRead'
    BY <1>1, <1>t, <2>1, <2>3, <2>4, <2>5 DEF UpInv, EofLastUp, EofEndsPump, EofRead, Carries
  <2> QED
    BY <2>6, <2>7, <2>8, <2>9, <2>10 DEF UpInv, EofLastUp
<1>5. ASSUME NEW u \in Uuid, PumpEof(u) PROVE UpInv'
  <2> DEFINE f == ControlFrame("DATA_EOF", u)
  <2>1. f \in Frame /\ Translated(f).uuid = u /\ Translated(f).method = "DATA_EOF"
    BY FrameTypes DEF ControlFrame, Translated, Method
  <2>2. aconn_write_up(f)
    BY <1>5 DEF PumpEof
  <2> HIDE DEF f
  <2>3. /\ Len(up) \in Nat /\ Len(up') \in Nat
        /\ \A i \in 1..Len(up') :
              \/ i \in 1..Len(up) /\ up'[i] = up[i]
              \/ i = Len(up) + 1 /\ up'[i] = Translated(f)
    BY <2>1, <2>2, WrittenUp DEF TypeOK
  <2>4. /\ b_pump[u] \in {"read", "aborted"}
        /\ b_pump' = [b_pump EXCEPT ![u] = "sendEof"]
        /\ b_half_close_send' = [b_half_close_send EXCEPT ![u] = TRUE]
        /\ UNCHANGED <<b_sessions, b_closed, b_cur>>
    BY <1>5 DEF PumpEof, b_readerVars
  <2>6. NewToB'
    BY <1>1, <1>t, <2>1, <2>3, <2>4 DEF UpInv, NewToB
  <2>7. ForwardedOnce'
    <3>1. \A v \in Uuid, i \in 1..Len(up') : Carries(up', i, "FORWARD_SESSION", v) =>
             i \in 1..Len(up) /\ Carries(up, i, "FORWARD_SESSION", v)
      BY <2>1, <2>3 DEF Carries
    <3>2. ForwardedOnce
      BY DEF UpInv
    <3> QED
      BY ONLY <1>1, <3>1, <3>2 DEF ForwardedOnce
  <2>8. EofEndsPump' /\ EofOnWire'
    BY <1>1, <1>t, <2>1, <2>3, <2>4 DEF UpInv, EofLastUp, EofEndsPump, EofOnWire, Carries
  <2>9. EofBehindData'
    BY <2>1, <2>3, EofBehindGrows DEF UpInv, EofLastUp
  <2>10. EofRead'
    BY <1>1, <1>t, <2>1, <2>3, <2>4 DEF UpInv, EofLastUp, EofEndsPump, EofRead, Carries
  <2> QED
    BY <2>6, <2>7, <2>8, <2>9, <2>10 DEF UpInv, EofLastUp
<1>6. CASE ReaderWriteFail
  <2> DEFINE f == ControlFrame("SESSION_CLOSE", b_cur)
  <2>1. /\ b_cur \in Uuid
        /\ f \in Frame /\ Translated(f).uuid = b_cur /\ Translated(f).method = "SESSION_CLOSE"
    BY <1>6, FrameTypes DEF ReaderWriteFail, ControlFrame, Translated, Method, TypeOK, VisitorTypeOK
  <2>2. aconn_write_up(f)
    BY <1>6 DEF ReaderWriteFail
  <2> HIDE DEF f
  <2>3. /\ Len(up) \in Nat /\ Len(up') \in Nat
        /\ \A i \in 1..Len(up') :
              \/ i \in 1..Len(up) /\ up'[i] = up[i]
              \/ i = Len(up) + 1 /\ up'[i] = Translated(f)
    BY <2>1, <2>2, WrittenUp DEF TypeOK
  <2>4. UNCHANGED <<b_pump, b_sessions, b_closed, b_half_close_send, b_cur>>
    BY <1>6 DEF ReaderWriteFail, b_flags
  <2>6. NewToB'
    BY <1>1, <2>1, <2>3, <2>4 DEF UpInv, NewToB
  <2>7. ForwardedOnce'
    <3>1. \A v \in Uuid, i \in 1..Len(up') : Carries(up', i, "FORWARD_SESSION", v) =>
             i \in 1..Len(up) /\ Carries(up, i, "FORWARD_SESSION", v)
      BY <2>1, <2>3 DEF Carries
    <3>2. ForwardedOnce
      BY DEF UpInv
    <3> QED
      BY ONLY <1>1, <3>1, <3>2 DEF ForwardedOnce
  <2>8. EofEndsPump' /\ EofOnWire'
    BY <1>1, <1>t, <2>1, <2>3, <2>4 DEF UpInv, EofLastUp, EofEndsPump, EofOnWire, Carries
  <2>9. EofBehindData'
    BY <2>1, <2>3, EofBehindGrows DEF UpInv, EofLastUp
  <2>10. EofRead'
    BY <1>1, <1>t, <2>1, <2>3, <2>4 DEF UpInv, EofLastUp, EofEndsPump, EofRead, Carries
  <2> QED
    BY <2>6, <2>7, <2>8, <2>9, <2>10 DEF UpInv, EofLastUp
<1> DEFINE Keeps ==
      /\ b_half_close_send' = b_half_close_send
      /\ \A u \in Uuid : b_pump'[u] = "none" =>
            b_pump[u] = "none" /\ u \notin b_sessions' /\ ~b_closed'[u] /\ b_cur' # u
      /\ \A u \in Uuid : b_pump[u] \in {"sendEof", "done"} =>
            b_pump'[u] \in {"sendEof", "done"}
<1>7. ASSUME Keeps, up' = up PROVE UpInv'
  BY <1>1, <1>2, <1>7, UpInvShrinks
<1>8. ASSUME NEW u \in Uuid, PumpLoop(u) PROVE Keeps /\ up' = up
  BY <1>8 DEF PumpLoop, b_LoopHead, UpInv, NewToB, TypeOK, VisitorTypeOK, wireVars, b_flags, b_readerVars
<1>9. ASSUME NEW u \in Uuid, PumpEofSent(u) PROVE Keeps /\ up' = up
  BY <1>9 DEF PumpEofSent, UpInv, NewToB, TypeOK, VisitorTypeOK, wireVars, b_flags, b_readerVars
<1>10. CASE AcceptFail
  BY <1>7, <1>10 DEF AcceptFail, b_CloseAll, UpInv, NewToB, wireVars, b_flags, b_readerVars
<1>11. CASE ReaderIgnore
  BY <1>7, <1>11 DEF ReaderIgnore, ReaderGets, UpInv, NewToB, visitorVars, b_flags, b_readerVars
<1>12. CASE ReaderReject
  BY <1>7, <1>12 DEF ReaderReject, ReaderGets, b_Drop, UpInv, NewToB, TypeOK, VisitorTypeOK, b_readerVars
<1>13. CASE ReaderData
  BY <1>7, <1>13 DEF ReaderData, ReaderGets, UpInv, NewToB, b_flags
<1>14. CASE ReaderDataEof
  BY <1>7, <1>14 DEF ReaderDataEof, ReaderGets, UpInv, NewToB, TypeOK, VisitorTypeOK, b_readerVars
<1>15. CASE ReaderWrote
  BY <1>7, <1>15, UuidAssumption DEF ReaderWrote, UpInv, NewToB, wireVars, b_flags
<1>16. CASE ReaderCloseSent
  BY <1>7, <1>16, UuidAssumption DEF ReaderCloseSent, b_Drop, UpInv, NewToB, TypeOK, VisitorTypeOK, wireVars
<1>17. CASE ReaderStaleIterator
  <2>1. up' \in Seq(Frame) /\ Shrinks(up, up')
    BY <1>2, <1>17, PrefixShrinks DEF ReaderStaleIterator, BreakLink
  <2>2. Keeps
    BY <1>17 DEF ReaderStaleIterator, b_flags
  <2> QED
    BY <1>1, <2>1, <2>2, UpInvShrinks
<1>18. CASE ReaderStop
  BY <1>7, <1>18 DEF ReaderStop, b_CloseAll, UpInv, NewToB, wireVars, b_flags
<1> QED
  BY <1>3, <1>4, <1>5, <1>6, <1>7, <1>8, <1>9, <1>10, <1>11, <1>12, <1>13, <1>14, <1>15,
     <1>16, <1>17, <1>18 DEF VisitorNext, AcceptNext, ReaderNext, PumpNext

\* The steps of C and the stream from B.
LEMMA MainUpInv ==
    ASSUME TypeOK, UpInv, MainNext, UNCHANGED visitorVars
    PROVE  UpInv'
<1>1. UNCHANGED <<b_pump, b_sessions, b_closed, b_cur, b_half_close_send>>
  BY DEF visitorVars, b_flags, b_readerVars
<1>2. /\ up \in Seq(Frame) /\ Shrinks(up, up)
      /\ c_co \in [Uuid -> CoState] /\ c_half_close_recv \in [Uuid -> BOOLEAN]
  BY SameShrinks DEF TypeOK, WireTypeOK, ProviderTypeOK
<1>3. \A u \in Uuid : b_pump'[u] = "none" =>
         b_pump[u] = "none" /\ u \notin b_sessions' /\ ~b_closed'[u] /\ b_cur' # u
  BY <1>1 DEF UpInv, NewToB
<1>4. ASSUME UNCHANGED <<c_co, c_half_close_recv>>, up' \in Seq(Frame), Shrinks(up, up')
      PROVE  UpInv'
  BY <1>1, <1>3, <1>4, UpInvShrinks
<1>5. ASSUME NEW methods, MainGets(methods)
      PROVE  /\ up' = Tail(up) /\ Head(up) = up[1] /\ 1 \in 1..Len(up) /\ up[1].uuid \in Uuid
             /\ up' \in Seq(Frame) /\ Shrinks(up, up')
             /\ \A i \in 1..Len(up') : i + 1 \in 1..Len(up) /\ up'[i] = up[i + 1]
  BY <1>2, <1>5, HeadFrame, TailShrinks DEF MainGets
<1>6. CASE MainForwardSession
  <2> DEFINE v == Head(up).uuid
  <2>1. /\ up[1].method = "FORWARD_SESSION" /\ v = up[1].uuid
        /\ c_co' = [c_co EXCEPT ![v] = "connecting"] /\ UNCHANGED c_half_close_recv
        /\ MainGets({"FORWARD_SESSION"})
    BY <1>5, <1>6 DEF MainForwardSession, MainGets, c_flags
  <2> HIDE DEF v
  <2>2. b_pump[v] # "none"
    BY <1>5, <2>1 DEF UpInv, NewToB
  <2>3. \A i \in 1..Len(up') : ~Carries(up', i, "FORWARD_SESSION", v)
    <3> SUFFICES ASSUME NEW i \in 1..Len(up'), Carries(up', i, "FORWARD_SESSION", v) PROVE FALSE
      OBVIOUS
    <3>1. Carries(up, 1, "FORWARD_SESSION", v) /\ Carries(up, i + 1, "FORWARD_SESSION", v)
      BY <1>5, <2>1 DEF Carries
    <3>2. i + 1 = 1
      BY <1>5, <2>1, <3>1 DEF UpInv, ForwardedOnce
    <3> QED
      BY <3>2
  <2>4. \A u \in Uuid : c_co[u] = "none" /\ c_co'[u] # "none" => u = v
    BY <1>2, <2>1
  <2> QED
    BY <1>1, <1>3, <1>5, <2>1, <2>2, <2>3, <2>4, UpInvShrinks
<1>7. CASE MainDataEof
  <2> DEFINE v == Head(up).uuid
  <2>1. /\ up[1].method = "DATA_EOF" /\ v = up[1].uuid
        /\ c_half_close_recv' = [c_half_close_recv EXCEPT ![v] = TRUE] /\ UNCHANGED c_co
        /\ MainGets({"DATA_EOF"})
    BY <1>5, <1>7 DEF MainDataEof, MainGets
  <2> HIDE DEF v
  <2>2. Carries(up, 1, "DATA_EOF", v)
    BY <2>1 DEF Carries
  <2>3. b_half_close_send[v]
    BY <1>5, <2>1, <2>2 DEF UpInv, EofLastUp, EofOnWire
  <2>4. \A i \in 1..Len(up') : ~Carries(up', i, "DATA", v)
    <3> SUFFICES ASSUME NEW i \in 1..Len(up'), Carries(up', i, "DATA", v) PROVE FALSE
      OBVIOUS
    <3>1. Carries(up, i + 1, "DATA", v)
      BY <1>5, <2>1 DEF Carries
    <3>2. i + 1 < 1
      BY <1>5, <2>1, <2>2, <3>1 DEF UpInv, EofLastUp, EofBehindData
    <3> QED
      BY <3>2
  <2>5. \A u \in Uuid : c_half_close_recv'[u] => c_half_close_recv[u] \/ u = v
    BY <1>2, <2>1
  <2> QED
    BY <1>1, <1>3, <1>5, <2>1, <2>3, <2>4, <2>5, UpInvShrinks
<1>8. CASE MainIgnore
  BY <1>4, <1>5, <1>8 DEF MainIgnore, providerVars, c_flags
<1>9. CASE MainBuffer
  BY <1>4, <1>5, <1>9 DEF MainBuffer, c_flags
<1>10. CASE MainData
  BY <1>4, <1>5, <1>10 DEF MainData, c_flags
<1>11. CASE MainSessionClose
  BY <1>4, <1>5, <1>11 DEF MainSessionClose
<1>12. CASE MainWrote \/ MainWriteFail \/ MainStop
  BY <1>2, <1>4, <1>12 DEF MainWrote, MainWriteFail, MainStop, wireVars, c_flags
<1> QED
  BY <1>6, <1>7, <1>8, <1>9, <1>10, <1>11, <1>12 DEF MainNext

LEMMA CoUpInv ==
    ASSUME TypeOK, UpInv, NEW u \in Uuid, CoNext(u), UNCHANGED visitorVars
    PROVE  UpInv'
<1>1. /\ UNCHANGED <<b_pump, b_sessions, b_closed, b_cur, b_half_close_send>>
      /\ UNCHANGED <<up, c_half_close_recv>>
  BY DEF CoNext, ConnectFail, ErrSent, Connected, OkSent, DrainWrote, DrainFail, RemoteRead,
         RemoteSent, RemoteEof, RemoteEofSent, wireVars, c_flags, visitorVars, b_flags, b_readerVars
<1>2. up \in Seq(Frame) /\ Shrinks(up, up)
  BY SameShrinks DEF TypeOK, WireTypeOK
<1>3. c_co[u] # "none" /\ \A v \in Uuid \ {u} : c_co'[v] = c_co[v]
  BY DEF TypeOK, ProviderTypeOK, CoNext, ConnectFail, ErrSent, Connected, OkSent, DrainWrote,
         DrainFail, RemoteRead, RemoteSent, RemoteEof, RemoteEofSent, c_Drain, c_LoopHead
<1>4. \A v \in Uuid : b_pump'[v] = "none" =>
         b_pump[v] = "none" /\ v \notin b_sessions' /\ ~b_closed'[v] /\ b_cur' # v
  BY <1>1 DEF UpInv, NewToB
<1> QED
  BY <1>1, <1>2, <1>3, <1>4, UpInvShrinks

LEMMA LinkDownUpInv ==
    ASSUME TypeOK, UpInv, LinkDown, UNCHANGED <<visitorVars, providerVars>>
    PROVE  UpInv'
<1>1. UNCHANGED <<b_pump, b_sessions, b_closed, b_cur, b_half_close_send, c_half_close_recv, c_co>>
  BY DEF visitorVars, b_flags, b_readerVars, providerVars, c_flags
<1>2. up' \in Seq(Frame) /\ Shrinks(up, up')
  BY PrefixShrinks DEF TypeOK, WireTypeOK, LinkDown, BreakLink
<1>3. \A v \in Uuid : b_pump'[v] = "none" =>
         b_pump[v] = "none" /\ v \notin b_sessions' /\ ~b_closed'[v] /\ b_cur' # v
  BY <1>1 DEF UpInv, NewToB
<1> QED
  BY <1>1, <1>2, <1>3, UpInvShrinks

\* The steps of B and the two maps.
LEMMA VisitorMapInv ==
    ASSUME TypeOK, NewToB, MapInv, VisitorNext, UNCHANGED providerVars
    PROVE  MapInv'
<1>1. NewToC' /\ ShutByEof' /\ MapOfC'
  BY DEF MapInv, NewToC, ShutByEof, MapOfC, providerVars, c_flags
<1> SUFFICES MapOfB'
  BY <1>1 DEF MapInv
<1>2. /\ b_closed \in [Uuid -> BOOLEAN] /\ b_client \in [Uuid -> SocketState]
      /\ b_sessions \subseteq Uuid /\ MapOfB
  BY DEF TypeOK, VisitorTypeOK, MapInv
<1>3. ASSUME NEW u \in Uuid, Accept(u) PROVE MapOfB'
  <2>1. ~b_closed[u]
    BY <1>3 DEF Accept, NewToB
  <2> QED
    BY <1>2, <1>3, <2>1 DEF Accept, MapOfB, b_flags
<1>4. CASE AcceptFail \/ ReaderStop
  BY <1>4 DEF AcceptFail, ReaderStop, b_CloseAll, MapOfB
<1>5. ASSUME NEW u \in Uuid, PumpLoop(u) PROVE MapOfB'
  BY <1>2, <1>5 DEF PumpLoop, b_Reaped, MapOfB, b_flags
<1>6. ASSUME NEW u \in Uuid, PumpRead(u) \/ PumpEof(u) PROVE MapOfB'
  BY <1>2, <1>6 DEF PumpRead, PumpEof, MapOfB, b_flags
<1>7. ASSUME NEW u \in Uuid, PumpEofSent(u) PROVE MapOfB'
  BY <1>2, <1>7 DEF PumpEofSent, b_Reaped, MapOfB
<1>8. CASE ReaderReject \/ ReaderCloseSent
  BY <1>2, <1>8 DEF ReaderReject, ReaderCloseSent, b_Drop, MapOfB
<1>9. CASE ReaderDataEof
  BY <1>2, <1>9 DEF ReaderDataEof, b_Reaped, MapOfB
<1>10. CASE ReaderIgnore \/ ReaderData \/ ReaderWrote \/ ReaderWriteFail
  BY <1>2, <1>10 DEF ReaderIgnore, ReaderData, ReaderWrote, ReaderWriteFail, visitorVars,
                     b_flags, MapOfB
<1>11. CASE ReaderStaleIterator
  BY <1>11 DEF ReaderStaleIterator, MapOfB
<1> QED
  BY <1>3, <1>4, <1>5, <1>6, <1>7, <1>8, <1>9, <1>10, <1>11
     DEF VisitorNext, AcceptNext, ReaderNext, PumpNext

\* The steps of C's main loop and the two maps.
LEMMA MainMapInv ==
    ASSUME TypeOK, UpInv, MapInv, MainNext, UNCHANGED visitorVars
    PROVE  MapInv'
<1>1. MapOfB'
  BY DEF MapInv, MapOfB, visitorVars, b_flags
<1> SUFFICES NewToC' /\ ShutByEof' /\ MapOfC'
  BY <1>1 DEF MapInv
<1>2. /\ c_closed \in [Uuid -> BOOLEAN] /\ c_remote \in [Uuid -> RemoteState]
      /\ c_co \in [Uuid -> CoState] /\ c_half_close_recv \in [Uuid -> BOOLEAN]
      /\ c_sessions \subseteq Uuid /\ NewToC /\ ShutByEof /\ MapOfC
  BY DEF TypeOK, ProviderTypeOK, MapInv
<1>3. ASSUME NEW methods, MainGets(methods)
      PROVE  Head(up) = up[1] /\ Head(up).uuid \in Uuid /\ 1 \in 1..Len(up)
  BY <1>3, HeadFrame DEF MainGets, TypeOK, WireTypeOK
<1>4. CASE MainForwardSession
  <2> DEFINE v == Head(up).uuid
  <2>1. Carries(up, 1, "FORWARD_SESSION", v) /\ v \in Uuid /\ 1 \in 1..Len(up)
    BY <1>3, <1>4 DEF MainForwardSession, MainGets, Carries
  <2>2. c_co[v] = "none"
    BY <2>1 DEF UpInv, ForwardedOnce
  <2>3. /\ c_sessions' = c_sessions \union {v} /\ c_co' = [c_co EXCEPT ![v] = "connecting"]
        /\ UNCHANGED <<c_remote, c_half_close_recv, c_closed>>
    BY <1>4 DEF MainForwardSession, c_flags
  <2> HIDE DEF v
  <2> QED
    BY <1>2, <2>1, <2>2, <2>3 DEF NewToC, ShutByEof, MapOfC
<1>5. CASE MainIgnore \/ MainBuffer \/ MainData \/ MainWrote
  BY <1>2, <1>5 DEF MainIgnore, MainBuffer, MainData, MainWrote, providerVars, c_flags,
                    NewToC, ShutByEof, MapOfC
<1>6. CASE MainWriteFail \/ MainStop
  BY <1>2, <1>6 DEF MainWriteFail, MainStop, c_Teardown, c_Close, c_flags,
                    NewToC, ShutByEof, MapOfC
<1>7. CASE MainDataEof
  <2> DEFINE v == Head(up).uuid
  <2>1. v \in Uuid
    BY <1>3, <1>7 DEF MainDataEof
  <2>2. /\ v \in c_sessions
        /\ c_half_close_recv' = [c_half_close_recv EXCEPT ![v] = TRUE]
        /\ c_closed' = [c_closed EXCEPT ![v] = @ \/ c_half_close_send[v]]
        /\ c_sessions' = IF c_half_close_send[v] THEN c_sessions \ {v} ELSE c_sessions
        /\ c_remote' = c_Reaped(c_Shut(c_remote, v), c_sessions', c_co)
        /\ UNCHANGED c_co
    BY <1>7 DEF MainDataEof
  <2> HIDE DEF v
  <2>3. c_co[v] # "none"
    BY <1>2, <2>1, <2>2 DEF NewToC
  <2>4. NewToC'
    BY <1>2, <2>1, <2>2, <2>3 DEF NewToC, c_Reaped, c_Shut
  <2>5. ShutByEof'
    BY <1>2, <2>1, <2>2 DEF ShutByEof, c_Reaped, c_Shut
  <2>6. MapOfC'
    BY <1>2, <2>1, <2>2 DEF MapOfC, c_Reaped, c_Shut
  <2> QED
    BY <2>4, <2>5, <2>6
<1>8. CASE MainSessionClose
  <2> DEFINE v == Head(up).uuid
  <2>1. v \in Uuid
    BY <1>3, <1>8 DEF MainSessionClose
  <2>2. /\ v \in c_sessions
        /\ c_closed' = [c_closed EXCEPT ![v] = TRUE]
        /\ c_remote' = c_Close(c_remote, {v})
        /\ c_sessions' = c_sessions \ {v}
        /\ UNCHANGED <<c_co, c_half_close_recv>>
    BY <1>8 DEF MainSessionClose
  <2> HIDE DEF v
  <2> QED
    BY <1>2, <2>1, <2>2 DEF NewToC, ShutByEof, MapOfC, c_Close
<1> QED
  BY <1>4, <1>5, <1>6, <1>7, <1>8 DEF MainNext

\* What a coroutine does to its own session: the others are untouched.
LEMMA LoopHeadMapInv ==
    ASSUME TypeOK, MapInv, NEW u \in Uuid, c_co[u] # "none",
           NEW r \in RemoteState, r = "closed" => c_remote[u] = "closed",
           r = "shut" => c_half_close_recv[u],
           c_LoopHead(u, r), UNCHANGED c_flags
    PROVE  NewToC' /\ ShutByEof' /\ MapOfC'
<1>1. /\ c_closed \in [Uuid -> BOOLEAN] /\ c_remote \in [Uuid -> RemoteState]
      /\ c_co \in [Uuid -> CoState]
      /\ c_sessions \subseteq Uuid /\ NewToC /\ ShutByEof /\ MapOfC
  BY DEF TypeOK, ProviderTypeOK, MapInv
<1>2. UNCHANGED <<c_closed, c_half_close_recv>>
  BY DEF c_flags
<1>3. NewToC'
  BY <1>1, <1>2 DEF NewToC, c_LoopHead, c_Reaped
<1>4. ShutByEof'
  BY <1>1, <1>2 DEF ShutByEof, c_LoopHead, c_Reaped
<1>5. MapOfC'
  BY <1>1, <1>2 DEF MapOfC, c_LoopHead, c_Reaped
<1> QED
  BY <1>3, <1>4, <1>5

LEMMA DrainMapInv ==
    ASSUME TypeOK, MapInv, NEW u \in Uuid, c_co[u] # "none",
           NEW pending, c_Drain(u, pending), UNCHANGED c_flags
    PROVE  NewToC' /\ ShutByEof' /\ MapOfC'
<1>1. /\ c_remote \in [Uuid -> RemoteState] /\ c_co \in [Uuid -> CoState]
      /\ c_sessions \subseteq Uuid /\ NewToC /\ ShutByEof /\ MapOfC
  BY DEF TypeOK, ProviderTypeOK, MapInv
<1>2. UNCHANGED <<c_closed, c_half_close_recv>>
  BY DEF c_flags
<1>3. CASE c_co' = [c_co EXCEPT ![u] = "drain"] /\ UNCHANGED <<c_sessions, c_remote>>
  BY <1>1, <1>2, <1>3 DEF NewToC, ShutByEof, MapOfC
<1>4. CASE /\ c_co' = [c_co EXCEPT ![u] = "thrown"] /\ UNCHANGED c_sessions
           /\ c_remote' = c_Reaped(c_remote, c_sessions, c_co')
  BY <1>1, <1>2, <1>4 DEF NewToC, ShutByEof, MapOfC, c_Reaped
<1> DEFINE r == IF c_half_close_recv[u] THEN c_Shut(c_remote, u)[u] ELSE c_remote[u]
<1>5. CASE c_LoopHead(u, r)
  <2>1. r \in RemoteState
    BY <1>1, ShutTyped
  <2>2. (r = "closed" => c_remote[u] = "closed") /\ (r = "shut" => c_half_close_recv[u])
    BY <1>1 DEF c_Shut, ShutByEof
  <2> HIDE DEF r
  <2> QED
    BY <1>5, <2>1, <2>2, LoopHeadMapInv
<1> QED
  BY <1>3, <1>4, <1>5 DEF c_Drain

LEMMA CoMapInv ==
    ASSUME TypeOK, MapInv, NEW u \in Uuid, CoNext(u), UNCHANGED visitorVars
    PROVE  MapInv'
<1>1. MapOfB'
  BY DEF MapInv, MapOfB, visitorVars, b_flags
<1>2. /\ c_closed \in [Uuid -> BOOLEAN] /\ c_remote \in [Uuid -> RemoteState]
      /\ c_co \in [Uuid -> CoState]
      /\ c_sessions \subseteq Uuid /\ NewToC /\ ShutByEof /\ MapOfC
  BY DEF TypeOK, ProviderTypeOK, MapInv
<1>3. CASE ConnectFail(u) \/ RemoteRead(u) \/ RemoteEof(u)
  BY <1>1, <1>2, <1>3 DEF ConnectFail, RemoteRead, RemoteEof, c_flags, MapInv, NewToC,
                          ShutByEof, MapOfC
<1>4. CASE ErrSent(u)
  BY <1>1, <1>2, <1>4 DEF ErrSent, MapInv, NewToC, ShutByEof, MapOfC
<1>5. CASE Connected(u)
  BY <1>1, <1>2, <1>5 DEF Connected, c_flags, MapInv, NewToC, ShutByEof, MapOfC
<1>6. CASE OkSent(u)
  BY <1>1, <1>6, DrainMapInv DEF OkSent, MapInv
<1>7. CASE DrainWrote(u)
  BY <1>1, <1>7, DrainMapInv DEF DrainWrote, MapInv
<1>8. CASE DrainFail(u)
  BY <1>1, <1>2, <1>8 DEF DrainFail, c_Reaped, c_flags, MapInv, NewToC, ShutByEof, MapOfC
<1>9. CASE RemoteSent(u)
  <2>1. c_remote[u] \in RemoteState /\ (c_remote[u] = "shut" => c_half_close_recv[u])
    BY <1>2 DEF ShutByEof
  <2> QED
    BY <1>1, <1>9, <2>1, LoopHeadMapInv DEF RemoteSent, MapInv
<1>10. CASE RemoteEofSent(u)
  BY <1>1, <1>2, <1>10 DEF RemoteEofSent, c_Reaped, MapInv, NewToC, ShutByEof, MapOfC
<1> QED
  BY <1>3, <1>4, <1>5, <1>6, <1>7, <1>8, <1>9, <1>10 DEF CoNext

\* The inductive invariant of this section.
WireInv == UpInv /\ MapInv

LEMMA WireInvStep == TypeOK /\ WireInv /\ [Next]_vars => WireInv'
<1> SUFFICES ASSUME TypeOK, WireInv, [Next]_vars PROVE WireInv'
  OBVIOUS
<1> USE DEF WireInv
<1>1. ASSUME UNCHANGED visitorVars, UNCHANGED providerVars PROVE MapInv'
  BY <1>1 DEF MapInv, NewToC, ShutByEof, MapOfB, MapOfC, visitorVars, providerVars, b_flags, c_flags
<1>2. CASE VisitorNext /\ UNCHANGED providerVars
  BY <1>2, VisitorUpInv, VisitorMapInv DEF UpInv
<1>3. CASE MainNext /\ UNCHANGED visitorVars
  BY <1>3, MainUpInv, MainMapInv
<1>4. CASE ProviderExit /\ UNCHANGED visitorVars
  BY <1>1, <1>4, ExitIsLinkDown, LinkDownUpInv
<1>5. ASSUME NEW u \in Uuid, CoNext(u), UNCHANGED visitorVars PROVE WireInv'
  BY <1>5, CoUpInv, CoMapInv
<1>6. CASE LinkDown /\ UNCHANGED <<visitorVars, providerVars>>
  BY <1>1, <1>6, LinkDownUpInv
<1>7. CASE UNCHANGED vars
  BY <1>1, <1>7 DEF vars, wireVars, visitorVars, providerVars, b_flags, b_readerVars, c_flags,
         UpInv, NewToB, ForwardedOnce, EofLastUp, EofEndsPump, EofOnWire, EofBehindData, EofRead
<1> QED
  BY <1>2, <1>3, <1>4, <1>5, <1>6, <1>7 DEF Next, ProviderNext

LEMMA WireInvAlways == Spec => [](TypeOK /\ WireInv)
<1>1. Init => WireInv
  <2> SUFFICES ASSUME Init PROVE WireInv
    OBVIOUS
  <2>1. 1..Len(up) = {}
    BY DEF Init, WireInit
  <2>2. UpInv
    BY <2>1, UuidAssumption DEF Init, VisitorInit, ProviderInit, UpInv, NewToB, ForwardedOnce,
       EofLastUp, EofEndsPump, EofOnWire, EofBehindData, EofRead
  <2>3. MapInv
    BY DEF Init, VisitorInit, ProviderInit, MapInv, NewToC, ShutByEof, MapOfB, MapOfC
  <2> QED
    BY <2>2, <2>3 DEF WireInv
<1> QED
  BY <1>1, WireInvStep, TypeCorrect, PTL DEF Spec

\* The map of B holds no closed client and the map of C no closed remote and no
\* session whose coroutine has ended: in any order of the steps of the accept
\* loop, the pumps, the readers and the coroutines, with connections that
\* break, a frame finds a live socket or no entry.
THEOREM MapsLive == Spec => []MapsHoldLiveSessions
<1>1. WireInv => MapsHoldLiveSessions
  BY DEF WireInv, MapInv, MapOfB, MapOfC, MapsHoldLiveSessions
<1> QED
  BY <1>1, WireInvAlways, PTL

\* The write of DATA that would end C's main loop for every session is never
\* started on a remote that DATA_EOF has shut down or a close has closed.
THEOREM WritesToOpenRemote == Spec => MainWritesToOpenRemote
<1> DEFINE Safe == c_main = "read" /\ c_main' = "write" => c_remote[c_cur'] = "open"
<1>1. ASSUME TypeOK, WireInv, Next, c_main = "read", c_main' = "write"
      PROVE  c_remote[c_cur'] = "open"
  <2>1. MainData
    <3>1. CASE VisitorNext /\ UNCHANGED providerVars
      BY <1>1, <3>1 DEF providerVars, c_mainVars
    <3>2. CASE MainNext
      BY <1>1, <3>2 DEF MainNext, MainForwardSession, MainIgnore, MainBuffer, MainWrote,
         MainWriteFail, MainDataEof, MainSessionClose, MainStop, c_Teardown, providerVars, c_mainVars
    <3>3. ASSUME NEW u \in Uuid, CoNext(u) PROVE FALSE
      BY <1>1, <3>3 DEF CoNext, ConnectFail, ErrSent, Connected, OkSent, DrainWrote, DrainFail,
         RemoteRead, RemoteSent, RemoteEof, RemoteEofSent, c_mainVars
    <3>4. CASE ProviderExit
      BY <1>1, <3>4 DEF ProviderExit, providerVars, c_mainVars
    <3>5. CASE LinkDown /\ UNCHANGED <<visitorVars, providerVars>>
      BY <1>1, <3>5 DEF providerVars, c_mainVars
    <3> QED
      BY <1>1, <3>1, <3>2, <3>3, <3>4, <3>5 DEF Next, ProviderNext
  <2> DEFINE v == Head(up).uuid
  <2>2. /\ c_cur' = v /\ v \in c_sessions /\ c_remote[v] # "none"
        /\ up # <<>> /\ Head(up).method = "DATA"
    BY <2>1 DEF MainData, MainGets, c_Live, remote_connected
  <2>3. v \in Uuid /\ 1 \in 1..Len(up) /\ Carries(up, 1, "DATA", v)
    BY <1>1, <2>2, HeadFrame DEF TypeOK, WireTypeOK, Carries
  <2> HIDE DEF v
  <2>4. c_remote[v] # "closed" /\ c_remote[v] \in RemoteState
    BY <1>1, <2>2, <2>3 DEF WireInv, MapInv, MapOfC, TypeOK, ProviderTypeOK
  <2>5. c_remote[v] # "shut"
    BY <1>1, <2>3 DEF WireInv, MapInv, ShutByEof, UpInv, EofLastUp, EofRead
  <2> QED
    BY <2>2, <2>4, <2>5 DEF RemoteState
<1>2. TypeOK /\ WireInv /\ [Next]_vars => [Safe]_vars
  BY <1>1
<1> QED
  BY <1>2, WireInvAlways, PTL DEF Spec, MainWritesToOpenRemote

-----------------------------------------------------------------------------
(***************************************************************************)
(* The way from a remote to its client: what the client gets, when it is   *)
(* told the end, and the reference that the reader of B holds while it     *)
(* writes.  The argument follows one unit from the read of C's coroutine   *)
(* over the wire to the write of B's reader, and shows that of a session   *)
(* in B's map nothing is missing in between.                               *)
(***************************************************************************)

(* The inductive invariant *)

\* The reader of B works for session u across an await.
Working(u) == b_reader \in {"write", "sendClose"} /\ b_cur = u

\* How many units of u the reader has taken off the wire.
Taken(u) == IF Working(u) THEN Len(b_written[u]) + 1 ELSE Len(b_written[u])

UnitAt(s, i, u, n) == Carries(s, i, "DATA", u) /\ s[i].unit = n

\* A session that C has not heard of has sent nothing.
SilentBefore ==
    \A u \in Uuid : c_co[u] = "none" =>
        c_read[u] = 0 /\ \A i \in 1..Len(down) : down[i].uuid # u

\* The units on the wire were read from the remote, and are in order.
DataRead ==
    \A u \in Uuid : \A i \in 1..Len(down) :
        Carries(down, i, "DATA", u) => down[i].unit <= c_read[u]
DataInOrder ==
    \A u \in Uuid : \A i, j \in 1..Len(down) :
        Carries(down, i, "DATA", u) /\ Carries(down, j, "DATA", u) /\ j < i
        => down[j].unit < down[i].unit

\* For a session of B's map, a unit on the wire is the next one the reader
\* will take, or comes behind its predecessor.
NoGap ==
    \A u \in b_sessions : \A i \in 1..Len(down) : Carries(down, i, "DATA", u) =>
        \/ down[i].unit = Taken(u) + 1
        \/ \E j \in 1..Len(down) : j < i /\ UnitAt(down, j, u, down[i].unit - 1)

\* Everything read from the remote has been taken or is on the wire: as long
\* as no connection broke, and in front of every DATA_EOF.
HasAll(u) ==
    c_read[u] = Taken(u) \/ \E i \in 1..Len(down) : UnitAt(down, i, u, c_read[u])
NothingLost == linkB /\ linkC => \A u \in b_sessions : HasAll(u)
CompleteAtEof ==
    \A u \in b_sessions : \A i \in 1..Len(down) :
        Carries(down, i, "DATA_EOF", u) => HasAll(u)

\* DATA_EOF is the last that C sends of a session.
EofEndsCo ==
    \A u \in Uuid : c_half_close_send[u] => c_co[u] \in {"sendEof", "done"}
EofOnDown ==
    \A u \in Uuid : \A i \in 1..Len(down) :
        Carries(down, i, "DATA_EOF", u) => c_half_close_send[u]
EofBehindDown ==
    \A u \in Uuid : \A i, j \in 1..Len(down) :
        Carries(down, i, "DATA_EOF", u) /\ Carries(down, j, "DATA", u) => j < i

DownWire ==
    /\ SilentBefore /\ DataRead /\ DataInOrder /\ NoGap /\ NothingLost
    /\ CompleteAtEof /\ EofEndsCo /\ EofOnDown /\ EofBehindDown

\* Once B has read DATA_EOF nothing of the session is under way.
FinIsLast ==
    \A u \in Uuid : b_half_close_recv[u] =>
        /\ c_half_close_send[u]
        /\ \A i \in 1..Len(down) : ~Carries(down, i, "DATA", u)
        /\ ~Working(u)

\* The reader writes the next unit.
WritesNext ==
    b_reader = "write" =>
        b_unit = Len(b_written[b_cur]) + 1 /\ b_unit <= c_read[b_cur]

DownEnds ==
    /\ FinIsLast /\ WritesNext /\ DownstreamInOrder /\ ClientFinAfterData
    /\ ReferenceValid

DownInv == DownWire /\ DownEnds

-----------------------------------------------------------------------------
(* The wire *)

LEMMA TakenTyped ==
    ASSUME TypeOK, NEW u \in Uuid
    PROVE  Taken(u) \in Nat /\ Len(b_written[u]) \in Nat /\ c_read[u] \in Nat
<1>1. b_written[u] \in Seq(Nat) /\ c_read[u] \in Nat
  BY DEF TypeOK, VisitorTypeOK, ProviderTypeOK
<1>2. Len(b_written[u]) \in Nat
  BY <1>1, LenProperties
<1>3. Taken(u) = Len(b_written[u]) \/ Taken(u) = Len(b_written[u]) + 1
  BY <1>2 DEF Taken
<1> QED
  BY <1>1, <1>2, <1>3

LEMMA DownUnits ==
    ASSUME TypeOK
    PROVE  /\ Len(down) \in Nat /\ down \in Seq(Frame)
           /\ \A i \in 1..Len(down) : down[i].unit \in Nat /\ down[i].uuid \in Uuid
<1>1. \A i \in 1..Len(down) : down[i] \in Frame
  BY ElementOfSeq DEF TypeOK, WireTypeOK
<1> QED
  BY <1>1 DEF TypeOK, WireTypeOK, Frame

\* Where frame i of a stream is when d frames were taken from its head.
LEMMA Shifted ==
    ASSUME NEW m \in Nat, NEW n \in Nat, NEW d \in {0, 1}, NEW i \in 1..m, d = 1 => i # 1
    PROVE  /\ n + d = m => i - d \in 1..n /\ (i - d) + d = i
           /\ \A k \in 1..n : i < k + d => i - d \in 1..n /\ i - d < k /\ (i - d) + d = i
OBVIOUS

\* Frames leave the stream: its head, to the reader (d = 1), or a tail, with a
\* connection.  The head is not DATA of a session that stays in B's map.
LEMMA DownShrinks ==
    ASSUME TypeOK, DownWire, b_sessions' \subseteq Uuid,
           NEW d \in {0, 1}, Len(down') \in Nat, Len(down') + d <= Len(down),
           \A i \in 1..Len(down') : down'[i] = down[i + d],
           linkB' /\ linkC' => linkB /\ linkC /\ Len(down') + d = Len(down),
           d = 1 => ~(down[1].method = "DATA" /\ down[1].uuid \in b_sessions'),
           UNCHANGED <<c_read, c_half_close_send>>,
           \A u \in Uuid : c_co'[u] = "none" => c_co[u] = "none",
           \A u \in Uuid : c_co[u] \in {"sendEof", "done"} => c_co'[u] \in {"sendEof", "done"},
           \A u \in b_sessions' : \/ u \in b_sessions /\ Taken(u)' = Taken(u)
                                  \/ c_co[u] = "none" /\ Taken(u)' = 0
    PROVE  DownWire'
<1>0. Len(down) \in Nat /\ Len(down') \in Nat
  BY DownUnits
<1>1. \A i \in 1..Len(down') : i + d \in 1..Len(down) /\ down'[i] = down[i + d]
  BY <1>0
<1>2. ASSUME NEW i \in 1..Len(down), NEW k \in 1..Len(down'), d = 1 => i # 1, i < k + d
      PROVE  i - d \in 1..Len(down') /\ i - d < k /\ down'[i - d] = down[i]
  <2>1. i - d \in 1..Len(down') /\ i - d < k /\ (i - d) + d = i
    BY ONLY <1>0, <1>2, d \in {0, 1}, i \in 1..Len(down), k \in 1..Len(down'), Shifted
  <2> QED
    BY <1>1, <2>1
<1>3. SilentBefore'
  <2> SUFFICES ASSUME NEW u \in Uuid, c_co'[u] = "none"
               PROVE  c_read'[u] = 0 /\ \A i \in 1..Len(down') : down'[i].uuid # u
    BY DEF SilentBefore
  <2>1. c_read[u] = 0 /\ \A i \in 1..Len(down) : down[i].uuid # u
    BY DEF DownWire, SilentBefore
  <2>2. ASSUME NEW i \in 1..Len(down') PROVE down'[i].uuid # u
    <3>1. i + d \in 1..Len(down) /\ down'[i] = down[i + d]
      BY <1>1
    <3> QED
      BY <2>1, <3>1
  <2> QED
    BY <2>1, <2>2
<1>4. DataRead'
  BY <1>1 DEF DownWire, DataRead, Carries
<1>5. DataInOrder'
  <2> SUFFICES ASSUME NEW u \in Uuid, NEW i \in 1..Len(down'), NEW j \in 1..Len(down'),
                      Carries(down', i, "DATA", u), Carries(down', j, "DATA", u), j < i
               PROVE  down'[j].unit < down'[i].unit
    BY DEF DataInOrder
  <2>1. /\ Carries(down, i + d, "DATA", u) /\ Carries(down, j + d, "DATA", u)
        /\ i + d \in 1..Len(down) /\ j + d \in 1..Len(down)
    BY <1>1 DEF Carries
  <2>2. j + d < i + d
    OBVIOUS
  <2>3. down[j + d].unit < down[i + d].unit
    BY <2>1, <2>2 DEF DownWire, DataInOrder
  <2> QED
    BY <1>1, <2>3
<1>6. NoGap'
  <2> SUFFICES ASSUME NEW u \in b_sessions', NEW i \in 1..Len(down'), Carries(down', i, "DATA", u)
               PROVE  \/ down'[i].unit = Taken(u)' + 1
                      \/ \E j \in 1..Len(down') : j < i /\ UnitAt(down', j, u, down'[i].unit - 1)
    BY DEF NoGap
  <2>1. i + d \in 1..Len(down) /\ Carries(down, i + d, "DATA", u) /\ down'[i].unit = down[i + d].unit
    BY <1>1 DEF Carries
  <2>2. c_co[u] # "none"
    BY <2>1 DEF DownWire, SilentBefore, Carries
  <2>3. u \in b_sessions /\ Taken(u)' = Taken(u)
    BY <2>2
  <2>4. CASE down[i + d].unit = Taken(u) + 1
    BY <2>1, <2>3, <2>4
  <2>5. ASSUME NEW j \in 1..Len(down), j < i + d, UnitAt(down, j, u, down[i + d].unit - 1)
        PROVE  \E k \in 1..Len(down') : k < i /\ UnitAt(down', k, u, down'[i].unit - 1)
    <3>1. d = 1 => j # 1
      BY <2>5 DEF UnitAt, Carries
    <3>2. j - d \in 1..Len(down') /\ j - d < i /\ down'[j - d] = down[j]
      BY <1>2, <2>5, <3>1
    <3>3. UnitAt(down', j - d, u, down'[i].unit - 1)
      BY <2>1, <2>5, <3>2 DEF UnitAt, Carries
    <3> QED
      BY <3>2, <3>3
  <2> QED
    BY <2>1, <2>3, <2>4, <2>5 DEF DownWire, NoGap
<1>7. NothingLost'
  <2> SUFFICES ASSUME linkB', linkC', NEW u \in b_sessions' PROVE HasAll(u)'
    BY DEF NothingLost
  <2>1. CASE c_co[u] = "none" /\ Taken(u)' = 0
    BY <2>1 DEF DownWire, SilentBefore, HasAll
  <2>2. CASE u \in b_sessions /\ Taken(u)' = Taken(u)
    <3>1. HasAll(u)
      BY <2>2 DEF DownWire, NothingLost
    <3>2. ASSUME NEW i \in 1..Len(down), UnitAt(down, i, u, c_read[u]) PROVE HasAll(u)'
      <4>1. d = 1 => i # 1
        BY <3>2 DEF UnitAt, Carries
      <4>2. i - d \in 1..Len(down') /\ down'[i - d] = down[i]
        <5>1. Len(down') + d = Len(down)
          OBVIOUS
        <5>2. i - d \in 1..Len(down') /\ (i - d) + d = i
          BY ONLY <1>0, <4>1, <5>1, d \in {0, 1}, i \in 1..Len(down), Shifted
        <5> QED
          BY <1>1, <5>2
      <4>3. UnitAt(down', i - d, u, c_read'[u])
        BY <3>2, <4>2 DEF UnitAt, Carries
      <4> QED
        BY <4>2, <4>3 DEF HasAll
    <3> QED
      BY <2>2, <3>1, <3>2 DEF HasAll
  <2> QED
    BY <2>1, <2>2
<1>8. CompleteAtEof'
  <2> SUFFICES ASSUME NEW u \in b_sessions', NEW k \in 1..Len(down'), Carries(down', k, "DATA_EOF", u)
               PROVE  HasAll(u)'
    BY DEF CompleteAtEof
  <2>1. k + d \in 1..Len(down) /\ Carries(down, k + d, "DATA_EOF", u)
    BY <1>1 DEF Carries
  <2>2. c_co[u] # "none"
    BY <2>1 DEF DownWire, SilentBefore, Carries
  <2>3. u \in b_sessions /\ Taken(u)' = Taken(u)
    BY <2>2
  <2>4. HasAll(u)
    BY <2>1, <2>3 DEF DownWire, CompleteAtEof
  <2>5. ASSUME NEW i \in 1..Len(down), UnitAt(down, i, u, c_read[u]) PROVE HasAll(u)'
    <3>1. d = 1 => i # 1
      BY <2>5 DEF UnitAt, Carries
    <3>2. i < k + d
      BY <2>1, <2>5 DEF DownWire, EofBehindDown, UnitAt
    <3>3. i - d \in 1..Len(down') /\ down'[i - d] = down[i]
      BY <1>2, <3>1, <3>2
    <3>4. UnitAt(down', i - d, u, c_read'[u])
      BY <2>5, <3>3 DEF UnitAt, Carries
    <3> QED
      BY <3>3, <3>4 DEF HasAll
  <2> QED
    BY <2>3, <2>4, <2>5 DEF HasAll
<1>9. EofEndsCo' /\ EofOnDown'
  <2>1. EofEndsCo'
    BY DEF DownWire, EofEndsCo
  <2>2. EofOnDown'
    BY <1>1 DEF DownWire, EofOnDown, Carries
  <2> QED
    BY <2>1, <2>2
<1>10. EofBehindDown'
  <2> SUFFICES ASSUME NEW u \in Uuid, NEW i \in 1..Len(down'), NEW j \in 1..Len(down'),
                      Carries(down', i, "DATA_EOF", u), Carries(down', j, "DATA", u)
               PROVE  j < i
    BY DEF EofBehindDown
  <2>1. /\ Carries(down, i + d, "DATA_EOF", u) /\ Carries(down, j + d, "DATA", u)
        /\ i + d \in 1..Len(down) /\ j + d \in 1..Len(down)
    BY <1>1 DEF Carries
  <2>2. j + d < i + d
    BY <2>1 DEF DownWire, EofBehindDown
  <2> QED
    BY <2>2
<1> QED
  BY <1>3, <1>4, <1>5, <1>6, <1>7, <1>8, <1>9, <1>10 DEF DownWire

\* What aconn_write adds to the stream of C.
LEMMA WrittenDown ==
    ASSUME WireTypeOK, NEW f \in Frame, aconn_write_down(f)
    PROVE  /\ Len(down) \in Nat /\ Len(down') \in Nat
           /\ \A i \in 1..Len(down) : i \in 1..Len(down') /\ down'[i] = down[i]
           /\ \A i \in 1..Len(down') :
                 \/ i \in 1..Len(down)
                 \/ i = Len(down) + 1 /\ down'[i] = f /\ linkB /\ linkC
           /\ linkB /\ linkC => Len(down) + 1 \in 1..Len(down') /\ down'[Len(down) + 1] = f
<1>1. CASE linkB /\ linkC
  <2>1. down' = Append(down, f)
    BY <1>1 DEF aconn_write_down
  <2> QED
    BY <1>1, <2>1 DEF WireTypeOK
<1>2. CASE ~(linkB /\ linkC)
  BY <1>2 DEF aconn_write_down, WireTypeOK
<1> QED
  BY <1>1, <1>2

\* The coroutine of u writes a frame: DATA with the unit it has just read,
\* DATA_EOF, after which it ends, or a frame that says how the connection went.
LEMMA DownGrows ==
    ASSUME TypeOK, DownWire, NEW u \in Uuid, c_co[u] \notin {"none", "sendEof", "done"},
           NEW f \in Frame, f.uuid = u, aconn_write_down(f),
           UNCHANGED <<linkB, linkC, b_sessions, b_written, b_reader, b_cur>>,
           \A v \in Uuid \ {u} : /\ c_co'[v] = c_co[v] /\ c_read'[v] = c_read[v]
                                 /\ c_half_close_send'[v] = c_half_close_send[v],
           c_co'[u] # "none", c_half_close_send'[u] => c_co'[u] = "sendEof",
           \/ f.method = "DATA" /\ f.unit = c_read[u] + 1 /\ c_read'[u] = f.unit
           \/ f.method = "DATA_EOF" /\ c_half_close_send'[u] /\ c_read'[u] = c_read[u]
           \/ f.method \notin {"DATA", "DATA_EOF"} /\ c_read'[u] = c_read[u]
    PROVE  DownWire'
<1>1. /\ Len(down) \in Nat /\ Len(down') \in Nat
      /\ \A i \in 1..Len(down) : i \in 1..Len(down') /\ down'[i] = down[i]
      /\ \A i \in 1..Len(down') :
            \/ i \in 1..Len(down)
            \/ i = Len(down) + 1 /\ down'[i] = f /\ linkB /\ linkC
      /\ linkB /\ linkC => Len(down) + 1 \in 1..Len(down') /\ down'[Len(down) + 1] = f
  BY WrittenDown DEF TypeOK
<1>2. \A v \in Uuid : c_read[v] \in Nat /\ c_read[v] <= c_read'[v] /\ (v # u => c_read'[v] = c_read[v])
  BY DEF TypeOK, ProviderTypeOK
<1>3. /\ \A i \in 1..Len(down) : ~Carries(down, i, "DATA_EOF", u)
      /\ \A i \in 1..Len(down) : down[i].unit \in Nat
  BY DownUnits DEF DownWire, EofEndsCo, EofOnDown
<1>4. \A v : Taken(v)' = Taken(v)
  BY DEF Taken, Working
<1>5. ASSUME NEW v \in b_sessions, c_read'[v] = c_read[v], HasAll(v) PROVE HasAll(v)'
  <2>1. ASSUME NEW i \in 1..Len(down), UnitAt(down, i, v, c_read[v]) PROVE HasAll(v)'
    BY <1>1, <1>5, <2>1 DEF HasAll, UnitAt, Carries
  <2> QED
    BY <1>4, <1>5, <2>1 DEF HasAll
<1>6. b_sessions \subseteq Uuid
  BY DEF TypeOK, VisitorTypeOK
<1>7. SilentBefore'
  <2> SUFFICES ASSUME NEW v \in Uuid, c_co'[v] = "none"
               PROVE  c_read'[v] = 0 /\ \A i \in 1..Len(down') : down'[i].uuid # v
    BY DEF SilentBefore
  <2>1. v # u /\ c_co[v] = "none"
    OBVIOUS
  <2>2. c_read[v] = 0 /\ \A i \in 1..Len(down) : down[i].uuid # v
    BY <2>1 DEF DownWire, SilentBefore
  <2> QED
    BY <1>1, <1>2, <2>1, <2>2
<1>8. DataRead'
  <2> SUFFICES ASSUME NEW v \in Uuid, NEW i \in 1..Len(down'), Carries(down', i, "DATA", v)
               PROVE  down'[i].unit <= c_read'[v]
    BY DEF DataRead
  <2>1. CASE i \in 1..Len(down)
    <3>1. down[i].unit <= c_read[v] /\ down'[i] = down[i]
      BY <1>1, <2>1 DEF DownWire, DataRead, Carries
    <3> QED
      BY <1>2, <1>3, <2>1, <3>1
  <2>2. CASE i = Len(down) + 1 /\ down'[i] = f
    BY <1>2, <2>2 DEF Carries
  <2> QED
    BY <1>1, <2>1, <2>2
<1>9. DataInOrder'
  <2> SUFFICES ASSUME NEW v \in Uuid, NEW i \in 1..Len(down'), NEW j \in 1..Len(down'),
                      Carries(down', i, "DATA", v), Carries(down', j, "DATA", v), j < i
               PROVE  down'[j].unit < down'[i].unit
    BY DEF DataInOrder
  <2>1. j \in 1..Len(down) /\ down'[j] = down[j] /\ Carries(down, j, "DATA", v)
    BY <1>1 DEF Carries
  <2>2. CASE i \in 1..Len(down)
    BY <1>1, <2>1, <2>2 DEF DownWire, DataInOrder, Carries
  <2>3. CASE i = Len(down) + 1 /\ down'[i] = f
    <3>1. down[j].unit <= c_read[v]
      BY <2>1 DEF DownWire, DataRead
    <3>2. v = u /\ f.unit = c_read[u] + 1
      BY <2>3 DEF Carries
    <3> QED
      BY <1>2, <1>3, <2>1, <2>3, <3>1, <3>2
  <2> QED
    BY <1>1, <2>2, <2>3
<1>10. NoGap'
  <2> SUFFICES ASSUME NEW v \in b_sessions, NEW i \in 1..Len(down'), Carries(down', i, "DATA", v)
               PROVE  \/ down'[i].unit = Taken(v) + 1
                      \/ \E j \in 1..Len(down') : j < i /\ UnitAt(down', j, v, down'[i].unit - 1)
    BY <1>4 DEF NoGap
  <2>1. CASE i \in 1..Len(down)
    <3>1. down'[i] = down[i] /\ Carries(down, i, "DATA", v)
      BY <1>1, <2>1 DEF Carries
    <3>2. \/ down[i].unit = Taken(v) + 1
          \/ \E j \in 1..Len(down) : j < i /\ UnitAt(down, j, v, down[i].unit - 1)
      BY <2>1, <3>1 DEF DownWire, NoGap
    <3>3. ASSUME NEW j \in 1..Len(down), j < i, UnitAt(down, j, v, down[i].unit - 1)
          PROVE  j \in 1..Len(down') /\ UnitAt(down', j, v, down'[i].unit - 1)
      BY <1>1, <3>1, <3>3 DEF UnitAt, Carries
    <3> QED
      BY <3>1, <3>2, <3>3
  <2>2. CASE i = Len(down) + 1 /\ down'[i] = f /\ linkB /\ linkC
    <3>1. v = u /\ f.unit = c_read[u] + 1
      BY <2>2 DEF Carries
    <3>2. HasAll(u)
      BY <2>2, <3>1 DEF DownWire, NothingLost
    <3>3. CASE c_read[u] = Taken(u)
      BY <2>2, <3>1, <3>3
    <3>4. ASSUME NEW j \in 1..Len(down), UnitAt(down, j, u, c_read[u])
          PROVE  \E k \in 1..Len(down') : k < i /\ UnitAt(down', k, v, down'[i].unit - 1)
      <4>1. j \in 1..Len(down') /\ j < i /\ down'[j] = down[j]
        BY <1>1, <2>2
      <4>2. down'[i].unit - 1 = c_read[u]
        BY <1>2, <2>2, <3>1
      <4> QED
        BY <3>1, <3>4, <4>1, <4>2 DEF UnitAt, Carries
    <3> QED
      BY <3>2, <3>3, <3>4 DEF HasAll
  <2> QED
    BY <1>1, <2>1, <2>2
<1>11. NothingLost'
  <2> SUFFICES ASSUME linkB, linkC, NEW v \in b_sessions PROVE HasAll(v)'
    BY DEF NothingLost
  <2>1. HasAll(v)
    BY DEF DownWire, NothingLost
  <2>2. CASE c_read'[v] = c_read[v]
    BY <1>5, <2>1, <2>2
  <2>3. CASE c_read'[v] # c_read[v]
    <3>1. v = u /\ f.method = "DATA" /\ c_read'[u] = f.unit
      BY <1>2, <1>6, <2>3
    <3>2. UnitAt(down', Len(down) + 1, v, c_read'[v])
      BY <1>1, <3>1 DEF UnitAt, Carries
    <3> QED
      BY <1>1, <3>2 DEF HasAll
  <2> QED
    BY <2>2, <2>3
<1>12. CompleteAtEof'
  <2> SUFFICES ASSUME NEW v \in b_sessions, NEW i \in 1..Len(down'), Carries(down', i, "DATA_EOF", v)
               PROVE  HasAll(v)'
    BY DEF CompleteAtEof
  <2>1. CASE i \in 1..Len(down)
    <3>1. Carries(down, i, "DATA_EOF", v)
      BY <1>1, <2>1 DEF Carries
    <3>2. v # u /\ HasAll(v)
      BY <1>3, <2>1, <3>1 DEF DownWire, CompleteAtEof
    <3> QED
      BY <1>2, <1>5, <1>6, <3>2
  <2>2. CASE i = Len(down) + 1 /\ down'[i] = f /\ linkB /\ linkC
    <3>1. v = u /\ c_read'[u] = c_read[u] /\ HasAll(v)
      BY <2>2 DEF Carries, DownWire, NothingLost
    <3> QED
      BY <1>5, <3>1
  <2> QED
    BY <1>1, <2>1, <2>2
<1>13. EofEndsCo'
  BY DEF DownWire, EofEndsCo
<1>14. EofOnDown'
  <2> SUFFICES ASSUME NEW v \in Uuid, NEW i \in 1..Len(down'), Carries(down', i, "DATA_EOF", v)
               PROVE  c_half_close_send'[v]
    BY DEF EofOnDown
  <2>1. CASE i \in 1..Len(down)
    BY <1>1, <1>3, <2>1 DEF DownWire, EofOnDown, Carries
  <2>2. CASE i = Len(down) + 1 /\ down'[i] = f
    BY <2>2 DEF Carries
  <2> QED
    BY <1>1, <2>1, <2>2
<1>15. EofBehindDown'
  <2> SUFFICES ASSUME NEW v \in Uuid, NEW i \in 1..Len(down'), NEW j \in 1..Len(down'),
                      Carries(down', i, "DATA_EOF", v), Carries(down', j, "DATA", v)
               PROVE  j < i
    BY DEF EofBehindDown
  <2>1. CASE i \in 1..Len(down)
    <3>1. Carries(down, i, "DATA_EOF", v)
      BY <1>1, <2>1 DEF Carries
    <3>2. v # u
      BY <1>3, <2>1, <3>1
    <3>3. j \in 1..Len(down) /\ Carries(down, j, "DATA", v)
      BY <1>1, <3>2 DEF Carries
    <3> QED
      BY <2>1, <3>1, <3>3 DEF DownWire, EofBehindDown
  <2>2. CASE i = Len(down) + 1 /\ down'[i] = f
    BY <1>1, <2>2 DEF Carries
  <2> QED
    BY <1>1, <2>1, <2>2
<1> QED
  BY <1>7, <1>8, <1>9, <1>10, <1>11, <1>12, <1>13, <1>14, <1>15 DEF DownWire

\* The reader takes the DATA of a session of the map off the wire: it is the
\* unit that was due.
LEMMA ReaderDataDown ==
    ASSUME TypeOK, DownWire, ReaderData, UNCHANGED providerVars
    PROVE  /\ DownWire'
           /\ Head(down).unit = Len(b_written[Head(down).uuid]) + 1
           /\ Head(down).unit <= c_read[Head(down).uuid]
<1> DEFINE u == Head(down).uuid
<1>1. /\ down # <<>> /\ Head(down).method = "DATA" /\ down' = Tail(down)
      /\ u \in b_sessions /\ b_reader = "read" /\ b_reader' = "write" /\ b_cur' = u
      /\ UNCHANGED <<linkB, linkC, b_sessions, b_written, c_read, c_half_close_send, c_co>>
  BY DEF ReaderData, ReaderGets, providerVars, c_flags
<1>2. /\ Head(down) = down[1] /\ Len(down) \in Nat /\ 1 \in 1..Len(down)
      /\ Len(down') \in Nat /\ Len(down') = Len(down) - 1
      /\ \A i \in 1..Len(down') : i + 1 \in 1..Len(down) /\ down'[i] = down[i + 1]
  BY <1>1, HeadFrame DEF TypeOK, WireTypeOK
<1>3. /\ u \in Uuid /\ Carries(down, 1, "DATA", u) /\ Taken(u) = Len(b_written[u])
      /\ \A v \in b_sessions : v = u => Taken(v)' = Taken(v) + 1
      /\ \A v \in b_sessions : v # u => Taken(v)' = Taken(v)
  <2>1. u \in Uuid /\ Carries(down, 1, "DATA", u)
    BY <1>1, <1>2, DownUnits DEF Carries
  <2> HIDE DEF u
  <2>2. Taken(u) = Len(b_written[u])
    BY <1>1 DEF Taken, Working
  <2>3. ASSUME NEW v \in b_sessions, v = u PROVE Taken(v)' = Taken(v) + 1
    BY <1>1, <2>3 DEF Taken, Working
  <2>4. ASSUME NEW v \in b_sessions, v # u PROVE Taken(v)' = Taken(v)
    BY <1>1, <2>4 DEF Taken, Working
  <2> QED
    BY <2>1, <2>2, <2>3, <2>4
<1>4. Taken(u) \in Nat /\ \A i \in 1..Len(down) : down[i].unit \in Nat
  BY <1>3, TakenTyped, DownUnits
<1> HIDE DEF u
<1>5. down[1].unit = Taken(u) + 1
  BY <1>1, <1>2, <1>3 DEF DownWire, NoGap
<1>6. down[1].unit <= c_read[u]
  BY <1>2, <1>3 DEF DownWire, DataRead
<1>7. \A i \in 1..Len(down), v \in b_sessions : v # u => ~Carries(down, 1, "DATA", v)
  BY <1>3 DEF Carries
<1>8. \A i \in 1..Len(down) : i # 1 => i - 1 \in 1..Len(down') /\ down'[i - 1] = down[i]
  BY <1>2
<1>9. SilentBefore' /\ DataRead' /\ EofEndsCo' /\ EofOnDown'
  <2>1. SilentBefore'
    BY <1>1, <1>2 DEF DownWire, SilentBefore
  <2>2. DataRead'
    BY <1>1, <1>2 DEF DownWire, DataRead, Carries
  <2>3. EofEndsCo' /\ EofOnDown'
    BY <1>1, <1>2 DEF DownWire, EofEndsCo, EofOnDown, Carries
  <2> QED
    BY <2>1, <2>2, <2>3
<1>10. DataInOrder'
  <2> SUFFICES ASSUME NEW v \in Uuid, NEW i \in 1..Len(down'), NEW j \in 1..Len(down'),
                      Carries(down', i, "DATA", v), Carries(down', j, "DATA", v), j < i
               PROVE  down'[j].unit < down'[i].unit
    BY DEF DataInOrder
  <2>1. /\ Carries(down, i + 1, "DATA", v) /\ Carries(down, j + 1, "DATA", v)
        /\ i + 1 \in 1..Len(down) /\ j + 1 \in 1..Len(down)
    BY <1>2 DEF Carries
  <2>2. down[j + 1].unit < down[i + 1].unit
    BY <1>2, <2>1 DEF DownWire, DataInOrder
  <2> QED
    BY <1>2, <2>2
<1>11. EofBehindDown'
  <2> SUFFICES ASSUME NEW v \in Uuid, NEW i \in 1..Len(down'), NEW j \in 1..Len(down'),
                      Carries(down', i, "DATA_EOF", v), Carries(down', j, "DATA", v)
               PROVE  j < i
    BY DEF EofBehindDown
  <2>1. /\ Carries(down, i + 1, "DATA_EOF", v) /\ Carries(down, j + 1, "DATA", v)
        /\ i + 1 \in 1..Len(down) /\ j + 1 \in 1..Len(down)
    BY <1>2 DEF Carries
  <2>2. j + 1 < i + 1
    BY <2>1 DEF DownWire, EofBehindDown
  <2> QED
    BY <1>2, <2>2
<1>12. NoGap'
  <2> SUFFICES ASSUME NEW v \in b_sessions, NEW i \in 1..Len(down'), Carries(down', i, "DATA", v)
               PROVE  \/ down'[i].unit = Taken(v)' + 1
                      \/ \E j \in 1..Len(down') : j < i /\ UnitAt(down', j, v, down'[i].unit - 1)
    BY <1>1 DEF NoGap
  <2>1. /\ i + 1 \in 1..Len(down) /\ Carries(down, i + 1, "DATA", v)
        /\ down'[i] = down[i + 1] /\ down[i + 1].unit \in Nat
    BY <1>2, <1>4 DEF Carries
  <2>2. \/ down[i + 1].unit = Taken(v) + 1
        \/ \E j \in 1..Len(down) : j < i + 1 /\ UnitAt(down, j, v, down[i + 1].unit - 1)
    BY <2>1 DEF DownWire, NoGap
  <2>3. CASE down[i + 1].unit = Taken(v) + 1
    <3>1. v # u
      <4> SUFFICES ASSUME v = u PROVE FALSE
        OBVIOUS
      <4>1. down[1].unit < down[i + 1].unit
        BY <1>2, <1>3, <2>1 DEF DownWire, DataInOrder
      <4> QED
        BY <1>4, <1>5, <2>3, <4>1
    <3> QED
      BY <1>3, <2>1, <2>3, <3>1
  <2>4. ASSUME NEW j \in 1..Len(down), j < i + 1, UnitAt(down, j, v, down[i + 1].unit - 1)
        PROVE  \/ down'[i].unit = Taken(v)' + 1
               \/ \E k \in 1..Len(down') : k < i /\ UnitAt(down', k, v, down'[i].unit - 1)
    <3>1. CASE j = 1
      <4>1. v = u /\ down[1].unit = down[i + 1].unit - 1
        BY <1>3, <2>4, <3>1 DEF UnitAt, Carries
      <4>2. down[i + 1].unit = Taken(v) + 1 + 1 /\ Taken(v) \in Nat
        BY <1>4, <1>5, <2>1, <4>1
      <4>3. Taken(v)' = Taken(v) + 1
        BY <1>3, <4>1
      <4> QED
        BY <2>1, <4>2, <4>3
    <3>2. CASE j # 1
      <4>1. j - 1 \in 1..Len(down') /\ down'[j - 1] = down[j] /\ j - 1 < i
        BY <1>2, <1>8, <2>4, <3>2
      <4>2. UnitAt(down', j - 1, v, down'[i].unit - 1)
        BY <2>1, <2>4, <4>1 DEF UnitAt, Carries
      <4> QED
        BY <4>1, <4>2
    <3> QED
      BY <3>1, <3>2
  <2> QED
    BY <2>2, <2>3, <2>4
<1>13. ASSUME NEW v \in b_sessions, HasAll(v) PROVE HasAll(v)'
  <2>1. CASE c_read[v] = Taken(v)
    <3>1. v # u
      BY <1>4, <1>5, <1>6, <2>1
    <3> QED
      BY <1>1, <1>3, <2>1, <3>1 DEF HasAll
  <2>2. ASSUME NEW i \in 1..Len(down), UnitAt(down, i, v, c_read[v]) PROVE HasAll(v)'
    <3>1. CASE i = 1
      <4>1. v = u /\ c_read[v] = down[1].unit
        BY <1>3, <2>2, <3>1 DEF UnitAt, Carries
      <4> QED
        BY <1>1, <1>3, <1>5, <4>1 DEF HasAll
    <3>2. CASE i # 1
      <4>1. i - 1 \in 1..Len(down') /\ down'[i - 1] = down[i]
        BY <1>8, <3>2
      <4>2. UnitAt(down', i - 1, v, c_read'[v])
        BY <1>1, <2>2, <4>1 DEF UnitAt, Carries
      <4> QED
        BY <4>1, <4>2 DEF HasAll
    <3> QED
      BY <3>1, <3>2
  <2> QED
    BY <1>13, <2>1, <2>2 DEF HasAll
<1>14. NothingLost'
  BY <1>1, <1>13 DEF DownWire, NothingLost
<1>15. CompleteAtEof'
  <2> SUFFICES ASSUME NEW v \in b_sessions, NEW i \in 1..Len(down'), Carries(down', i, "DATA_EOF", v)
               PROVE  HasAll(v)
    BY <1>1, <1>13 DEF CompleteAtEof
  <2>1. i + 1 \in 1..Len(down) /\ Carries(down, i + 1, "DATA_EOF", v)
    BY <1>2 DEF Carries
  <2> QED
    BY <2>1 DEF DownWire, CompleteAtEof
<1> QED
  BY <1>2, <1>3, <1>5, <1>6, <1>9, <1>10, <1>11, <1>12, <1>14, <1>15 DEF DownWire, u

-----------------------------------------------------------------------------
(* The steps of both nodes and the wire *)

LEMMA VisitorDownWire ==
    ASSUME TypeOK, TypeOK', NewToB, DownInv, VisitorNext, UNCHANGED providerVars
    PROVE  DownWire'
<1> DEFINE Follows == \A u \in b_sessions' : \/ u \in b_sessions /\ Taken(u)' = Taken(u)
                                             \/ c_co[u] = "none" /\ Taken(u)' = 0
<1>1. /\ UNCHANGED <<c_read, c_half_close_send, c_co>> /\ DownWire
      /\ b_sessions' \subseteq Uuid /\ b_sessions \subseteq Uuid /\ Len(down) \in Nat
  BY DownUnits DEF providerVars, c_flags, TypeOK, VisitorTypeOK, DownInv
<1>2. ASSUME UNCHANGED <<down, linkB, linkC>>, Follows PROVE DownWire'
  <2>1. /\ Len(down') \in Nat /\ Len(down') + 0 <= Len(down)
        /\ \A i \in 1..Len(down') : down'[i] = down[i + 0]
        /\ linkB' /\ linkC' => linkB /\ linkC /\ Len(down') + 0 = Len(down)
    BY <1>1, <1>2
  <2> QED
    BY <1>1, <1>2, <2>1, DownShrinks
<1>3. ASSUME NEW methods, ReaderGets(methods), Follows,
             ~(Head(down).method = "DATA" /\ Head(down).uuid \in b_sessions')
      PROVE  DownWire'
  <2>1. /\ Len(down') \in Nat /\ Len(down') + 1 = Len(down) /\ Head(down) = down[1]
        /\ \A i \in 1..Len(down') : down'[i] = down[i + 1]
        /\ UNCHANGED <<linkB, linkC>>
    BY <1>3, HeadFrame DEF ReaderGets, TypeOK, WireTypeOK
  <2>2. Len(down') + 1 <= Len(down)
    BY <1>1, <2>1
  <2> QED
    BY <1>1, <1>3, <2>1, <2>2, DownShrinks
<1>4. ASSUME UNCHANGED <<b_written, b_reader, b_cur>>, b_sessions' \subseteq b_sessions
      PROVE  Follows
  BY <1>4 DEF Taken, Working
<1>5. ASSUME NEW u \in Uuid, Accept(u) PROVE DownWire'
  <2>1. /\ c_co[u] = "none" /\ b_cur # u
        /\ b_sessions' = b_sessions \union {u} /\ UNCHANGED <<b_written, b_reader, b_cur>>
        /\ UNCHANGED <<down, linkB, linkC>>
    BY <1>5 DEF Accept, NewToB, b_readerVars
  <2>2. Len(b_written[u]) = 0
    <3>1. c_read[u] = 0 /\ Len(b_written[u]) <= c_read[u]
      BY <2>1 DEF DownInv, DownWire, SilentBefore, DownEnds, DownstreamInOrder
    <3> QED
      BY <3>1, TakenTyped
  <2>3. ASSUME NEW v \in b_sessions', v = u PROVE Taken(v)' = 0
    BY <2>1, <2>2, <2>3 DEF Taken, Working
  <2>4. ASSUME NEW v \in b_sessions', v # u PROVE v \in b_sessions /\ Taken(v)' = Taken(v)
    BY <2>1, <2>4 DEF Taken, Working
  <2> QED
    BY <1>2, <2>1, <2>3, <2>4
<1>6. CASE AcceptFail \/ ReaderStop
  <2>1. b_sessions' = {} /\ UNCHANGED <<down, linkB, linkC>>
    BY <1>6 DEF AcceptFail, ReaderStop, b_CloseAll, wireVars
  <2> QED
    BY <1>2, <2>1
<1>7. ASSUME NEW u \in Uuid, PumpNext(u) PROVE DownWire'
  <2>1. /\ UNCHANGED <<b_written, b_reader, b_cur, down, linkB, linkC>>
        /\ b_sessions' \subseteq b_sessions
    BY <1>7 DEF PumpNext, PumpLoop, PumpRead, PumpEof, PumpEofSent, wireVars, b_readerVars
  <2> QED
    BY <1>2, <1>4, <2>1
<1>8. CASE ReaderIgnore
  <2>1. /\ UNCHANGED <<b_written, b_reader, b_cur, b_sessions>>
        /\ ~(Head(down).method = "DATA" /\ Head(down).uuid \in b_sessions)
    BY <1>8 DEF ReaderIgnore, visitorVars, b_readerVars
  <2> QED
    BY <1>3, <1>4, <1>8, <2>1 DEF ReaderIgnore
<1>9. CASE ReaderReject
  <2>1. /\ UNCHANGED <<b_written, b_reader, b_cur>> /\ b_sessions' \subseteq b_sessions
        /\ Head(down).method # "DATA"
    BY <1>9 DEF ReaderReject, ReaderGets, b_Drop, b_readerVars
  <2> QED
    BY <1>3, <1>4, <1>9, <2>1 DEF ReaderReject
<1>10. CASE ReaderData
  BY <1>1, <1>10, ReaderDataDown
<1>11. CASE ReaderDataEof
  <2>1. /\ UNCHANGED <<b_written, b_reader, b_cur>> /\ b_sessions' \subseteq b_sessions
        /\ Head(down).method # "DATA"
    BY <1>11 DEF ReaderDataEof, ReaderGets, b_readerVars
  <2> QED
    BY <1>3, <1>4, <1>11, <2>1 DEF ReaderDataEof
<1>12. CASE ReaderWrote
  <2>1. /\ b_reader = "write" /\ b_reader' = "read" /\ b_cur \in Uuid /\ b_unit \in Nat
        /\ b_written' = [b_written EXCEPT ![b_cur] = Append(@, b_unit)]
        /\ b_written \in [Uuid -> Seq(Nat)]
        /\ UNCHANGED <<b_sessions, down, linkB, linkC>>
    BY <1>12 DEF ReaderWrote, TypeOK, VisitorTypeOK, wireVars
  <2>2. ASSUME NEW u \in b_sessions', u = b_cur PROVE Taken(u)' = Taken(u)
    <3>1. b_written'[u] = Append(b_written[u], b_unit)
      BY <1>1, <2>1, <2>2
    <3>2. Len(b_written'[u]) = Len(b_written[u]) + 1
      BY <1>1, <2>1, <3>1
    <3> QED
      BY <2>1, <2>2, <3>2 DEF Taken, Working
  <2>3. ASSUME NEW u \in b_sessions', u # b_cur PROVE Taken(u)' = Taken(u)
    <3>1. b_written'[u] = b_written[u]
      BY <1>1, <2>1, <2>3
    <3> QED
      BY <2>1, <2>3, <3>1 DEF Taken, Working
  <2> QED
    BY <1>2, <2>1, <2>2, <2>3
<1>13. CASE ReaderWriteFail
  <2>1. /\ b_reader = "write" /\ b_reader' = "sendClose"
        /\ UNCHANGED <<b_written, b_cur, b_sessions, down, linkB, linkC>>
    BY <1>13 DEF ReaderWriteFail
  <2>2. \A u \in b_sessions' : Taken(u)' = Taken(u)
    BY <2>1 DEF Taken, Working
  <2> QED
    BY <1>2, <2>1, <2>2
<1>14. CASE ReaderCloseSent
  <2>1. /\ b_reader' = "read" /\ b_sessions' = b_sessions \ {b_cur}
        /\ UNCHANGED <<b_written, down, linkB, linkC>>
    BY <1>14 DEF ReaderCloseSent, b_Drop, wireVars
  <2>2. \A u \in b_sessions' : Taken(u)' = Taken(u)
    BY <2>1 DEF Taken, Working
  <2> QED
    BY <1>2, <2>1, <2>2
<1>15. CASE ReaderStaleIterator
  <2>1. b_sessions' = {} /\ ~linkB' /\ down' \in Prefixes(down)
    BY <1>15 DEF ReaderStaleIterator, BreakLink
  <2>2. Len(down') \in Nat /\ Len(down') <= Len(down) /\ \A i \in 1..Len(down') : down'[i] = down[i]
    BY <2>1, PrefixTyped, LenProperties DEF TypeOK, WireTypeOK
  <2>3. Len(down') + 0 <= Len(down) /\ \A i \in 1..Len(down') : down'[i] = down[i + 0]
    BY <1>1, <2>2
  <2> QED
    BY <1>1, <2>1, <2>2, <2>3, DownShrinks
<1> QED
  BY <1>5, <1>6, <1>7, <1>8, <1>9, <1>10, <1>11, <1>12, <1>13, <1>14, <1>15
     DEF VisitorNext, AcceptNext, ReaderNext

\* A break takes a tail off the stream.
LEMMA LinkDownWire ==
    ASSUME TypeOK, TypeOK', DownWire, LinkDown, UNCHANGED <<visitorVars, providerVars>>
    PROVE  DownWire'
<1>1. /\ UNCHANGED <<c_read, c_half_close_send, c_co, b_sessions, b_written, b_reader, b_cur>>
      /\ Len(down) \in Nat /\ b_sessions' \subseteq Uuid
  BY DownUnits DEF providerVars, c_flags, visitorVars, b_readerVars, TypeOK, VisitorTypeOK
<1>2. down' \in Prefixes(down) /\ ~(linkB' /\ linkC')
  BY DEF LinkDown, BreakLink
<1>3. Len(down') \in Nat /\ Len(down') <= Len(down) /\ \A i \in 1..Len(down') : down'[i] = down[i]
  BY <1>2, PrefixTyped, LenProperties DEF TypeOK, WireTypeOK
<1>4. Len(down') + 0 <= Len(down) /\ \A i \in 1..Len(down') : down'[i] = down[i + 0]
  BY <1>1, <1>3
<1>5. \A u \in b_sessions' : u \in b_sessions /\ Taken(u)' = Taken(u)
  BY <1>1 DEF Taken, Working
<1> QED
  BY <1>1, <1>2, <1>3, <1>4, <1>5, DownShrinks

LEMMA ProviderDownWire ==
    ASSUME TypeOK, TypeOK', UpInv, DownWire, MainNext \/ \E u \in Uuid : CoNext(u),
           UNCHANGED visitorVars
    PROVE  DownWire'
<1>1. /\ UNCHANGED <<b_sessions, b_written, b_reader, b_cur>>
      /\ b_sessions' \subseteq Uuid /\ Len(down) \in Nat
      /\ c_co \in [Uuid -> CoState] /\ c_read \in [Uuid -> Nat]
      /\ c_half_close_send \in [Uuid -> BOOLEAN]
  BY DownUnits DEF visitorVars, b_readerVars, TypeOK, VisitorTypeOK, ProviderTypeOK
<1>2. \A u \in b_sessions' : u \in b_sessions /\ Taken(u)' = Taken(u)
  BY <1>1 DEF Taken, Working
<1>3. ASSUME UNCHANGED <<down, linkB, linkC, c_read, c_half_close_send>>,
             \A u \in Uuid : c_co'[u] = "none" => c_co[u] = "none",
             \A u \in Uuid : c_co[u] \in {"sendEof", "done"} => c_co'[u] \in {"sendEof", "done"}
      PROVE  DownWire'
  <2>1. /\ Len(down') \in Nat /\ Len(down') + 0 <= Len(down)
        /\ \A i \in 1..Len(down') : down'[i] = down[i + 0]
        /\ linkB' /\ linkC' => linkB /\ linkC /\ Len(down') + 0 = Len(down)
    BY <1>1, <1>3
  <2> QED
    BY <1>1, <1>2, <1>3, <2>1, DownShrinks
<1>4. CASE MainForwardSession
  <2> DEFINE v == Head(up).uuid
  <2>1. /\ c_co' = [c_co EXCEPT ![v] = "connecting"]
        /\ UNCHANGED <<down, linkB, linkC, c_read, c_half_close_send>>
    BY <1>4 DEF MainForwardSession, MainGets, c_flags
  <2>2. v \in Uuid /\ 1 \in 1..Len(up) /\ Carries(up, 1, "FORWARD_SESSION", v)
    BY <1>4, HeadFrame DEF MainForwardSession, MainGets, TypeOK, WireTypeOK, Carries
  <2> HIDE DEF v
  <2>3. c_co[v] = "none"
    BY <2>2 DEF UpInv, ForwardedOnce
  <2> QED
    BY <1>1, <1>3, <2>1, <2>2, <2>3
<1>5. CASE MainNext /\ ~MainForwardSession
  <2>1. UNCHANGED <<down, linkB, linkC, c_read, c_half_close_send, c_co>>
    BY <1>5 DEF MainNext, MainIgnore, MainBuffer, MainData, MainWrote, MainWriteFail, MainDataEof,
       MainSessionClose, MainStop, MainGets, wireVars, providerVars, c_flags
  <2> QED
    BY <1>3, <2>1
<1>6. ASSUME NEW u \in Uuid, ErrSent(u) \/ OkSent(u) \/ DrainWrote(u) \/ DrainFail(u)
                             \/ RemoteSent(u) \/ RemoteEofSent(u)
      PROVE  DownWire'
  <2>1. UNCHANGED <<down, linkB, linkC, c_read, c_half_close_send>>
    BY <1>6 DEF ErrSent, OkSent, DrainWrote, DrainFail, RemoteSent, RemoteEofSent, wireVars, c_flags
  <2>2. \E s : /\ c_co' = [c_co EXCEPT ![u] = s] /\ s # "none"
               /\ c_co[u] \in {"sendEof", "done"} => s = "done"
    BY <1>6 DEF ErrSent, OkSent, DrainWrote, DrainFail, RemoteSent, RemoteEofSent, c_Drain, c_LoopHead
  <2> QED
    BY <1>1, <1>3, <2>1, <2>2
<1>7. ASSUME NEW u \in Uuid, ConnectFail(u) PROVE DownWire'
  <2> DEFINE f == ControlFrame("SESSION_ERR", u)
  <2>1. f \in Frame /\ f.uuid = u /\ f.method \notin {"DATA", "DATA_EOF"}
    BY FrameTypes DEF ControlFrame, Method
  <2>2. /\ c_co[u] = "connecting" /\ c_co' = [c_co EXCEPT ![u] = "sendErr"]
        /\ aconn_write_down(f) /\ UNCHANGED <<linkB, linkC, c_read, c_half_close_send>>
    BY <1>7 DEF ConnectFail, c_flags
  <2> HIDE DEF f
  <2>3. ~c_half_close_send[u]
    BY <2>2 DEF DownWire, EofEndsCo
  <2> QED
    BY <1>1, <2>1, <2>2, <2>3, DownGrows
<1>8. ASSUME NEW u \in Uuid, Connected(u) PROVE DownWire'
  <2> DEFINE f == ControlFrame("SESSION_OK", u)
  <2>1. f \in Frame /\ f.uuid = u /\ f.method \notin {"DATA", "DATA_EOF"}
    BY FrameTypes DEF ControlFrame, Method
  <2>2. /\ c_co[u] = "connecting" /\ c_co' = [c_co EXCEPT ![u] = "sendOk"]
        /\ aconn_write_down(f) /\ UNCHANGED <<linkB, linkC, c_read, c_half_close_send>>
    BY <1>8 DEF Connected, c_flags
  <2> HIDE DEF f
  <2>3. ~c_half_close_send[u]
    BY <2>2 DEF DownWire, EofEndsCo
  <2> QED
    BY <1>1, <2>1, <2>2, <2>3, DownGrows
<1>9. ASSUME NEW u \in Uuid, RemoteRead(u) PROVE DownWire'
  <2> DEFINE f == DataFrame(u, c_read[u] + 1)
  <2>1. f \in Frame /\ f.uuid = u /\ f.method = "DATA" /\ f.unit = c_read[u] + 1
    <3>1. c_read[u] + 1 \in Nat
      BY <1>1
    <3> QED
      BY <3>1, FrameTypes DEF DataFrame
  <2>2. /\ c_co[u] = "read" /\ c_co' = [c_co EXCEPT ![u] = "sendData"]
        /\ c_read' = [c_read EXCEPT ![u] = @ + 1]
        /\ aconn_write_down(f) /\ UNCHANGED <<linkB, linkC, c_half_close_send>>
    BY <1>9 DEF RemoteRead, c_flags
  <2> HIDE DEF f
  <2>3. ~c_half_close_send[u]
    BY <2>2 DEF DownWire, EofEndsCo
  <2>4. c_read'[u] = c_read[u] + 1 /\ \A v \in Uuid \ {u} : c_read'[v] = c_read[v]
    BY <1>1, <2>2
  <2> QED
    BY <1>1, <2>1, <2>2, <2>3, <2>4, DownGrows
<1>10. ASSUME NEW u \in Uuid, RemoteEof(u) PROVE DownWire'
  <2> DEFINE f == ControlFrame("DATA_EOF", u)
  <2>1. f \in Frame /\ f.uuid = u /\ f.method = "DATA_EOF"
    BY FrameTypes DEF ControlFrame, Method
  <2>2. /\ c_co[u] \in {"read", "aborted"} /\ c_co' = [c_co EXCEPT ![u] = "sendEof"]
        /\ c_half_close_send' = [c_half_close_send EXCEPT ![u] = TRUE]
        /\ aconn_write_down(f) /\ UNCHANGED <<linkB, linkC, c_read>>
    BY <1>10 DEF RemoteEof
  <2> HIDE DEF f
  <2> QED
    BY <1>1, <2>1, <2>2, DownGrows
<1> QED
  BY <1>4, <1>5, <1>6, <1>7, <1>8, <1>9, <1>10 DEF CoNext

-----------------------------------------------------------------------------
(* The two ends *)

\* The streams of the client and of the remote, and who has been told their
\* end, are as before: so is what DownEnds says of them, when no DATA of an
\* ended session comes on the wire and the reader turns to none.
LEMMA EndsKept ==
    ASSUME DownEnds,
           \A u \in Uuid : \A i \in 1..Len(down') : Carries(down', i, "DATA", u) =>
               \/ ~b_half_close_recv[u]
               \/ \E j \in 1..Len(down) : Carries(down, j, "DATA", u),
           UNCHANGED <<b_half_close_recv, b_written, c_read>>,
           \A u \in Uuid : c_half_close_send[u] => c_half_close_send'[u],
           \A u \in Uuid : Working(u)' => Working(u)
    PROVE  FinIsLast' /\ DownstreamInOrder' /\ ClientFinAfterData'
<1>1. FinIsLast'
  <2> SUFFICES ASSUME NEW u \in Uuid, b_half_close_recv[u]
               PROVE  /\ c_half_close_send'[u]
                      /\ \A i \in 1..Len(down') : ~Carries(down', i, "DATA", u)
                      /\ ~Working(u)'
    BY DEF FinIsLast
  <2>1. /\ c_half_close_send[u] /\ ~Working(u)
        /\ \A i \in 1..Len(down) : ~Carries(down, i, "DATA", u)
    BY DEF DownEnds, FinIsLast
  <2> QED
    BY <2>1
<1>2. DownstreamInOrder'
  BY DEF DownEnds, DownstreamInOrder
<1>3. ClientFinAfterData'
  BY DEF DownEnds, ClientFinAfterData
<1> QED
  BY <1>1, <1>2, <1>3

\* A step of B takes frames off the stream from C and adds none.
LEMMA VisitorTakes ==
    ASSUME TypeOK, VisitorNext
    PROVE  \A u : \A i \in 1..Len(down') : Carries(down', i, "DATA", u) =>
               \E j \in 1..Len(down) : Carries(down, j, "DATA", u)
<1>1. CASE down' = down
  BY <1>1
<1>2. ASSUME NEW methods, ReaderGets(methods)
      PROVE  \A i \in 1..Len(down') : i + 1 \in 1..Len(down) /\ down'[i] = down[i + 1]
  BY <1>2, HeadFrame DEF ReaderGets, TypeOK, WireTypeOK
<1>3. CASE \E methods : ReaderGets(methods)
  BY <1>2, <1>3 DEF Carries
<1>4. CASE down' \in Prefixes(down)
  <2>1. \A i \in 1..Len(down') : i \in 1..Len(down) /\ down'[i] = down[i]
    BY <1>4, PrefixTyped, LenProperties DEF TypeOK, WireTypeOK
  <2> QED
    BY <2>1 DEF Carries
<1>5. CASE ReaderIgnore \/ ReaderReject \/ ReaderData \/ ReaderDataEof
  BY <1>3, <1>5 DEF ReaderIgnore, ReaderReject, ReaderData, ReaderDataEof
<1>6. CASE ReaderWrote \/ ReaderWriteFail \/ ReaderCloseSent \/ ReaderStop \/ AcceptFail
  BY <1>1, <1>6 DEF ReaderWrote, ReaderWriteFail, ReaderCloseSent, ReaderStop, AcceptFail, wireVars
<1>7. ASSUME NEW u \in Uuid, Accept(u) \/ PumpNext(u) PROVE down' = down
  BY <1>7 DEF Accept, PumpNext, PumpLoop, PumpRead, PumpEof, PumpEofSent, wireVars
<1>8. CASE ReaderStaleIterator
  BY <1>4, <1>8 DEF ReaderStaleIterator, BreakLink
<1> QED
  BY <1>1, <1>5, <1>6, <1>7, <1>8 DEF VisitorNext, AcceptNext, ReaderNext

\* A step of a pump, or of the accept loop, erases no entry the reader uses: no
\* entry of the map is closed, and DATA_EOF is not read while DATA is written.
LEMMA PumpKeepsReference ==
    ASSUME TypeOK, MapOfB, DownEnds, NEW u \in Uuid, PumpNext(u)
    PROVE  ReferenceValid'
<1>1. /\ UNCHANGED <<b_accepting, b_reader, b_cur>>
      /\ \/ b_sessions' = b_sessions
         \/ b_sessions' = b_sessions \ {u} /\ (b_closed[u] \/ b_half_close_recv[u])
  <2>1. CASE PumpLoop(u)
    BY <2>1 DEF PumpLoop, b_readerVars
  <2>2. CASE PumpRead(u) \/ PumpEof(u)
    BY <2>2 DEF PumpRead, PumpEof, b_readerVars
  <2>3. CASE PumpEofSent(u)
    BY <2>3 DEF PumpEofSent, b_readerVars
  <2> QED
    BY <2>1, <2>2, <2>3 DEF PumpNext
<1> SUFFICES ASSUME b_accepting, b_reader \in {"write", "sendClose"}
             PROVE  b_cur \in b_sessions'
  BY <1>1 DEF ReferenceValid
<1>2. b_cur \in b_sessions /\ Working(b_cur)
  BY DEF DownEnds, ReferenceValid, Working
<1>3. ~b_closed[b_cur] /\ ~b_half_close_recv[b_cur]
  BY <1>2 DEF MapOfB, DownEnds, FinIsLast, TypeOK, VisitorTypeOK
<1> QED
  BY <1>1, <1>2, <1>3

LEMMA VisitorDownEnds ==
    ASSUME TypeOK, MapOfB, DownInv, VisitorNext, UNCHANGED providerVars
    PROVE  DownEnds'
<1>1. UNCHANGED <<c_read, c_half_close_send>> /\ DownEnds /\ DownWire
  BY DEF providerVars, c_flags, DownInv
<1>2. \A u : \A i \in 1..Len(down') : Carries(down', i, "DATA", u) =>
         \E j \in 1..Len(down) : Carries(down, j, "DATA", u)
  BY VisitorTakes
<1>3. ASSUME UNCHANGED <<b_half_close_recv, b_written, b_cur>>,
             b_reader' = b_reader \/ b_reader' \notin {"write", "sendClose"}
      PROVE  FinIsLast' /\ DownstreamInOrder' /\ ClientFinAfterData'
  <2>1. \A u \in Uuid : Working(u)' => Working(u)
    BY <1>3 DEF Working
  <2> QED
    BY <1>1, <1>2, <1>3, <2>1, EndsKept
<1>4. ASSUME UNCHANGED <<b_reader, b_cur, b_unit, b_written>> PROVE WritesNext'
  BY <1>1, <1>4 DEF DownEnds, WritesNext
<1>5. ASSUME NEW u \in Uuid, Accept(u) PROVE DownEnds'
  <2>1. /\ UNCHANGED <<b_half_close_recv, b_written, b_reader, b_cur, b_unit, b_accepting>>
        /\ b_sessions \subseteq b_sessions'
    BY <1>5 DEF Accept, b_flags, b_readerVars
  <2>2. ReferenceValid'
    BY <1>1, <2>1 DEF DownEnds, ReferenceValid
  <2> QED
    BY <1>3, <1>4, <2>1, <2>2 DEF DownEnds
<1>6. CASE AcceptFail
  <2>1. UNCHANGED <<b_half_close_recv, b_written, b_reader, b_cur, b_unit>> /\ ~b_accepting'
    BY <1>6 DEF AcceptFail, b_flags, b_readerVars
  <2> QED
    BY <1>3, <1>4, <2>1 DEF DownEnds, ReferenceValid
<1>7. ASSUME NEW u \in Uuid, PumpNext(u) PROVE DownEnds'
  <2>1. UNCHANGED <<b_half_close_recv, b_written, b_reader, b_cur, b_unit>>
    BY <1>7 DEF PumpNext, PumpLoop, PumpRead, PumpEof, PumpEofSent, b_flags, b_readerVars
  <2>2. ReferenceValid'
    BY <1>1, <1>7, PumpKeepsReference
  <2> QED
    BY <1>3, <1>4, <2>1, <2>2 DEF DownEnds
<1>8. CASE ReaderIgnore \/ ReaderReject
  <2>1. /\ UNCHANGED <<b_half_close_recv, b_written, b_reader, b_cur, b_unit>>
        /\ b_reader = "read"
    BY <1>8 DEF ReaderIgnore, ReaderReject, ReaderGets, visitorVars, b_flags, b_readerVars
  <2> QED
    BY <1>3, <1>4, <2>1 DEF DownEnds, ReferenceValid
<1>9. CASE ReaderData
  <2> DEFINE v == Head(down).uuid
  <2>1. /\ UNCHANGED <<b_half_close_recv, b_written, b_sessions>>
        /\ b_reader' = "write" /\ b_cur' = v /\ b_unit' = Head(down).unit /\ v \in b_sessions
        /\ down # <<>> /\ Head(down).method = "DATA"
    BY <1>9 DEF ReaderData, ReaderGets, b_flags
  <2>2. v \in Uuid /\ 1 \in 1..Len(down) /\ Carries(down, 1, "DATA", v)
    BY <2>1, HeadFrame DEF TypeOK, WireTypeOK, Carries
  <2>3. Head(down).unit = Len(b_written[v]) + 1 /\ Head(down).unit <= c_read[v]
    BY <1>1, <1>9, ReaderDataDown
  <2> HIDE DEF v
  <2>4. ~b_half_close_recv[v]
    BY <1>1, <2>2 DEF DownEnds, FinIsLast
  <2>5. FinIsLast'
    <3> SUFFICES ASSUME NEW u \in Uuid, b_half_close_recv[u]
                 PROVE  /\ c_half_close_send[u]
                        /\ \A i \in 1..Len(down') : ~Carries(down', i, "DATA", u)
                        /\ ~Working(u)'
      BY <1>1, <2>1 DEF FinIsLast
    <3>1. ~Working(u)'
      BY <2>1, <2>4 DEF Working
    <3> QED
      BY <1>1, <1>2, <3>1 DEF DownEnds, FinIsLast
  <2>6. WritesNext'
    BY <1>1, <2>1, <2>3 DEF WritesNext
  <2>7. DownstreamInOrder' /\ ClientFinAfterData' /\ ReferenceValid'
    BY <1>1, <2>1 DEF DownEnds, DownstreamInOrder, ClientFinAfterData, ReferenceValid
  <2> QED
    BY <2>5, <2>6, <2>7 DEF DownEnds
<1>10. CASE ReaderDataEof
  <2> DEFINE v == Head(down).uuid
  <2>1. /\ b_half_close_recv' = [b_half_close_recv EXCEPT ![v] = TRUE] /\ v \in b_sessions
        /\ UNCHANGED <<b_written, b_reader, b_cur, b_unit>> /\ b_reader = "read"
        /\ down # <<>> /\ Head(down).method = "DATA_EOF"
        /\ ReaderGets({"DATA_EOF"})
    BY <1>10 DEF ReaderDataEof, ReaderGets, b_readerVars
  <2>2. /\ v \in Uuid /\ 1 \in 1..Len(down) /\ Carries(down, 1, "DATA_EOF", v)
        /\ b_half_close_recv \in [Uuid -> BOOLEAN]
    BY <2>1, HeadFrame DEF TypeOK, WireTypeOK, Carries, VisitorTypeOK
  <2> HIDE DEF v
  <2>3. \A u \in Uuid : b_half_close_recv'[u] => b_half_close_recv[u] \/ u = v
    BY <2>1, <2>2
  <2>4. \A i \in 1..Len(down) : ~Carries(down, i, "DATA", v)
    <3> SUFFICES ASSUME NEW i \in 1..Len(down), Carries(down, i, "DATA", v) PROVE FALSE
      OBVIOUS
    <3>1. i < 1
      BY <1>1, <2>2 DEF DownWire, EofBehindDown
    <3> QED
      BY <3>1
  <2>5. c_half_close_send[v]
    BY <1>1, <2>2 DEF DownWire, EofOnDown
  <2>6. Len(b_written[v]) = c_read[v]
    <3>1. HasAll(v)
      BY <1>1, <2>1, <2>2 DEF DownWire, CompleteAtEof
    <3>2. c_read[v] = Taken(v)
      BY <2>4, <3>1 DEF HasAll, UnitAt
    <3> QED
      BY <2>1, <3>2 DEF Taken, Working
  <2>7. FinIsLast'
    <3> SUFFICES ASSUME NEW u \in Uuid, b_half_close_recv'[u]
                 PROVE  /\ c_half_close_send[u]
                        /\ \A i \in 1..Len(down') : ~Carries(down', i, "DATA", u)
                        /\ ~Working(u)'
      BY <1>1 DEF FinIsLast
    <3>1. ~Working(u)'
      BY <2>1 DEF Working
    <3>2. c_half_close_send[u] /\ \A i \in 1..Len(down) : ~Carries(down, i, "DATA", u)
      BY <1>1, <2>3, <2>4, <2>5 DEF DownEnds, FinIsLast
    <3> QED
      BY <1>2, <3>1, <3>2
  <2>8. WritesNext' /\ ReferenceValid'
    BY <2>1 DEF WritesNext, ReferenceValid
  <2>9. DownstreamInOrder' /\ ClientFinAfterData'
    BY <1>1, <2>1, <2>3, <2>6 DEF DownEnds, DownstreamInOrder, ClientFinAfterData
  <2> QED
    BY <2>7, <2>8, <2>9 DEF DownEnds
<1>11. CASE ReaderWrote
  <2>1. /\ b_reader = "write" /\ b_reader' = "read" /\ b_cur \in Uuid /\ b_unit \in Nat
        /\ b_written' = [b_written EXCEPT ![b_cur] = Append(@, b_unit)]
        /\ b_written \in [Uuid -> Seq(Nat)]
        /\ UNCHANGED b_half_close_recv
    BY <1>11 DEF ReaderWrote, TypeOK, VisitorTypeOK, b_flags
  <2>2. b_unit = Len(b_written[b_cur]) + 1 /\ b_unit <= c_read[b_cur]
    BY <1>1, <2>1 DEF DownEnds, WritesNext
  <2>3. ~b_half_close_recv[b_cur]
    BY <1>1, <2>1 DEF DownEnds, FinIsLast, Working
  <2>4. FinIsLast'
    <3> SUFFICES ASSUME NEW u \in Uuid, b_half_close_recv[u]
                 PROVE  /\ c_half_close_send[u]
                        /\ \A i \in 1..Len(down') : ~Carries(down', i, "DATA", u)
                        /\ ~Working(u)'
      BY <1>1, <2>1 DEF FinIsLast
    <3>1. ~Working(u)'
      BY <2>1 DEF Working
    <3> QED
      BY <1>1, <1>2, <3>1 DEF DownEnds, FinIsLast
  <2>5. /\ b_written'[b_cur] = [i \in 1..Len(b_written'[b_cur]) |-> i]
        /\ Len(b_written'[b_cur]) <= c_read[b_cur]
    <3> DEFINE s == b_written[b_cur]
               t == b_written'[b_cur]
    <3>1. t = Append(s, b_unit) /\ s \in Seq(Nat)
      BY <2>1
    <3>2. s = [i \in 1..Len(s) |-> i]
      BY <1>1, <2>1 DEF DownEnds, DownstreamInOrder
    <3>3. b_unit = Len(s) + 1 /\ b_unit <= c_read[b_cur]
      BY <2>2
    <3> HIDE DEF s, t
    <3>4. t \in Seq(Nat) /\ Len(t) = Len(s) + 1 /\ Len(s) \in Nat
      BY <2>1, <3>1
    <3>5. \A i \in 1..Len(t) : t[i] = i
      <4> SUFFICES ASSUME NEW i \in 1..Len(t) PROVE t[i] = i
        OBVIOUS
      <4>1. CASE i \in 1..Len(s)
        <5>1. t[i] = s[i]
          BY <2>1, <3>1, <4>1
        <5>2. s[i] = i
          BY <3>2, <4>1
        <5> QED
          BY <5>1, <5>2
      <4>2. CASE i = Len(s) + 1
        BY <2>1, <3>1, <3>3, <4>2
      <4> QED
        BY <3>4, <4>1, <4>2
    <3>6. t = [i \in 1..Len(t) |-> i]
      BY <3>4, <3>5
    <3> QED
      BY <3>3, <3>4, <3>6 DEF s, t
  <2>6. \A u \in Uuid : u # b_cur => b_written'[u] = b_written[u]
    BY <2>1
  <2>7. DownstreamInOrder'
    BY <1>1, <2>5, <2>6 DEF DownEnds, DownstreamInOrder
  <2>8. ClientFinAfterData'
    BY <1>1, <2>1, <2>3, <2>6 DEF DownEnds, ClientFinAfterData
  <2>9. WritesNext' /\ ReferenceValid'
    BY <2>1 DEF WritesNext, ReferenceValid
  <2> QED
    BY <2>4, <2>7, <2>8, <2>9 DEF DownEnds
<1>12. CASE ReaderWriteFail
  <2>1. /\ b_reader = "write" /\ b_reader' = "sendClose"
        /\ UNCHANGED <<b_half_close_recv, b_written, b_cur, b_sessions, b_accepting>>
    BY <1>12 DEF ReaderWriteFail, b_flags
  <2>2. \A u \in Uuid : Working(u)' => Working(u)
    BY <2>1 DEF Working
  <2>3. FinIsLast' /\ DownstreamInOrder' /\ ClientFinAfterData'
    BY <1>1, <1>2, <2>1, <2>2, EndsKept
  <2> QED
    BY <1>1, <2>1, <2>3 DEF DownEnds, WritesNext, ReferenceValid
<1>13. CASE ReaderCloseSent \/ ReaderStop \/ ReaderStaleIterator
  <2>1. /\ b_reader' \in {"read", "stopped", "crashed"}
        /\ UNCHANGED <<b_half_close_recv, b_written>>
    BY <1>13 DEF ReaderCloseSent, ReaderStop, ReaderStaleIterator, b_flags
  <2>2. \A u \in Uuid : Working(u)' => Working(u)
    BY <2>1 DEF Working
  <2>3. FinIsLast' /\ DownstreamInOrder' /\ ClientFinAfterData'
    BY <1>1, <1>2, <2>1, <2>2, EndsKept
  <2> QED
    BY <2>1, <2>3 DEF DownEnds, WritesNext, ReferenceValid
<1> QED
  BY <1>5, <1>6, <1>7, <1>8, <1>9, <1>10, <1>11, <1>12, <1>13
     DEF VisitorNext, AcceptNext, ReaderNext

LEMMA ProviderDownEnds ==
    ASSUME TypeOK, DownInv, MainNext \/ \E u \in Uuid : CoNext(u), UNCHANGED visitorVars
    PROVE  DownEnds'
<1>1. /\ UNCHANGED <<b_accepting, b_sessions, b_half_close_recv, b_written, b_reader, b_cur, b_unit>>
      /\ DownEnds /\ DownWire
  BY DEF visitorVars, b_flags, b_readerVars, DownInv
<1>2. \A u \in Uuid : Working(u)' => Working(u)
  BY <1>1 DEF Working
<1>3. ReferenceValid'
  BY <1>1 DEF DownEnds, ReferenceValid
<1>4. ASSUME UNCHANGED c_read,
             \A u \in Uuid : c_half_close_send[u] => c_half_close_send'[u],
             \A u \in Uuid : \A i \in 1..Len(down') : Carries(down', i, "DATA", u) =>
                 \E j \in 1..Len(down) : Carries(down, j, "DATA", u)
      PROVE  DownEnds'
  <2>1. FinIsLast' /\ DownstreamInOrder' /\ ClientFinAfterData'
    BY <1>1, <1>2, <1>4, EndsKept
  <2>2. WritesNext'
    BY <1>1, <1>4 DEF DownEnds, WritesNext
  <2> QED
    BY <1>3, <2>1, <2>2 DEF DownEnds
<1>5. CASE MainNext
  <2>1. UNCHANGED <<down, c_read, c_half_close_send>>
    BY <1>5 DEF MainNext, MainForwardSession, MainIgnore, MainBuffer, MainData, MainWrote,
       MainWriteFail, MainDataEof, MainSessionClose, MainStop, MainGets, wireVars, providerVars, c_flags
  <2> QED
    BY <1>4, <2>1
<1>6. ASSUME NEW u \in Uuid, ErrSent(u) \/ OkSent(u) \/ DrainWrote(u) \/ DrainFail(u)
                             \/ RemoteSent(u) \/ RemoteEofSent(u)
      PROVE  DownEnds'
  <2>1. UNCHANGED <<down, c_read, c_half_close_send>>
    BY <1>6 DEF ErrSent, OkSent, DrainWrote, DrainFail, RemoteSent, RemoteEofSent, wireVars, c_flags
  <2> QED
    BY <1>4, <2>1
<1>7. ASSUME NEW f \in Frame, aconn_write_down(f), NEW u \in Uuid, NEW i \in 1..Len(down'),
             Carries(down', i, "DATA", u)
      PROVE  \/ f.method = "DATA" /\ f.uuid = u
             \/ \E j \in 1..Len(down) : Carries(down, j, "DATA", u)
  BY <1>7, WrittenDown DEF TypeOK, Carries
<1>8. ASSUME NEW u \in Uuid, ConnectFail(u) \/ Connected(u) \/ RemoteEof(u) PROVE DownEnds'
  <2>1. PICK f \in Frame : f.method # "DATA" /\ aconn_write_down(f)
    <3>1. \A m \in Method : ControlFrame(m, u) \in Frame /\ ControlFrame(m, u).method = m
      BY FrameTypes DEF ControlFrame
    <3> QED
      BY <1>8, <3>1 DEF ConnectFail, Connected, RemoteEof, Method
  <2>2. UNCHANGED c_read /\ \A v \in Uuid : c_half_close_send[v] => c_half_close_send'[v]
    BY <1>8 DEF ConnectFail, Connected, RemoteEof, c_flags, TypeOK, ProviderTypeOK
  <2> QED
    BY <1>4, <1>7, <2>1, <2>2
<1>9. ASSUME NEW u \in Uuid, RemoteRead(u) PROVE DownEnds'
  <2> DEFINE f == DataFrame(u, c_read[u] + 1)
  <2>1. f \in Frame /\ f.uuid = u
    <3>1. c_read[u] + 1 \in Nat
      BY DEF TypeOK, ProviderTypeOK
    <3> QED
      BY <3>1, FrameTypes DEF DataFrame
  <2>2. /\ c_co[u] = "read" /\ c_read' = [c_read EXCEPT ![u] = @ + 1] /\ c_read \in [Uuid -> Nat]
        /\ aconn_write_down(f) /\ UNCHANGED c_half_close_send
    BY <1>9 DEF RemoteRead, c_flags, TypeOK, ProviderTypeOK
  <2> HIDE DEF f
  <2>3. ~b_half_close_recv[u]
    BY <1>1, <2>2 DEF DownWire, EofEndsCo, DownEnds, FinIsLast
  <2>4. \A v \in Uuid : c_read[v] <= c_read'[v] /\ (v # u => c_read'[v] = c_read[v])
    BY <2>2
  <2>5. FinIsLast'
    <3> SUFFICES ASSUME NEW v \in Uuid, b_half_close_recv[v]
                 PROVE  /\ c_half_close_send[v]
                        /\ \A i \in 1..Len(down') : ~Carries(down', i, "DATA", v)
                        /\ ~Working(v)'
      BY <1>1, <2>2 DEF FinIsLast
    <3>1. c_half_close_send[v] /\ \A i \in 1..Len(down) : ~Carries(down, i, "DATA", v)
      BY <1>1 DEF DownEnds, FinIsLast
    <3>2. ~Working(v)'
      BY <1>1, <1>2 DEF DownEnds, FinIsLast
    <3>3. v # u
      BY <2>3
    <3> QED
      BY <1>7, <2>1, <2>2, <3>1, <3>2, <3>3
  <2>6. DownstreamInOrder'
    <3> SUFFICES ASSUME NEW v \in Uuid
                 PROVE  /\ b_written[v] = [i \in 1..Len(b_written[v]) |-> i]
                        /\ Len(b_written[v]) <= c_read'[v]
      BY <1>1 DEF DownstreamInOrder
    <3>1. /\ b_written[v] = [i \in 1..Len(b_written[v]) |-> i]
          /\ Len(b_written[v]) <= c_read[v]
      BY <1>1 DEF DownEnds, DownstreamInOrder
    <3>2. Len(b_written[v]) \in Nat /\ c_read[v] \in Nat /\ c_read'[v] \in Nat
      BY <2>2, TakenTyped
    <3>3. Len(b_written[v]) <= c_read'[v]
      BY <2>4, <3>1, <3>2
    <3> QED
      BY <3>1, <3>3
  <2>7. ClientFinAfterData'
    BY <1>1, <2>3, <2>4 DEF DownEnds, ClientFinAfterData
  <2>8. WritesNext'
    <3> SUFFICES ASSUME b_reader = "write"
                 PROVE  b_unit = Len(b_written[b_cur]) + 1 /\ b_unit <= c_read'[b_cur]
      BY <1>1 DEF WritesNext
    <3>1. b_cur \in Uuid /\ b_unit \in Nat
      BY DEF TypeOK, VisitorTypeOK
    <3>2. b_unit = Len(b_written[b_cur]) + 1 /\ b_unit <= c_read[b_cur]
      BY <1>1 DEF DownEnds, WritesNext
    <3>3. c_read[b_cur] \in Nat /\ c_read'[b_cur] \in Nat /\ c_read[b_cur] <= c_read'[b_cur]
      BY <2>2, <2>4, <3>1
    <3>4. b_unit <= c_read'[b_cur]
      BY <3>1, <3>2, <3>3
    <3> QED
      BY <3>2, <3>4
  <2> QED
    BY <1>3, <2>5, <2>6, <2>7, <2>8 DEF DownEnds
<1> QED
  BY <1>5, <1>6, <1>8, <1>9 DEF CoNext

LEMMA LinkDownEnds ==
    ASSUME TypeOK, DownEnds, LinkDown, UNCHANGED <<visitorVars, providerVars>>
    PROVE  DownEnds'
<1>1. /\ UNCHANGED <<b_accepting, b_sessions, b_half_close_recv, b_written, b_reader, b_cur, b_unit>>
      /\ UNCHANGED <<c_read, c_half_close_send>>
  BY DEF visitorVars, b_flags, b_readerVars, providerVars, c_flags
<1>2. \A u \in Uuid : Working(u)' => Working(u)
  BY <1>1 DEF Working
<1>3. \A i \in 1..Len(down') : i \in 1..Len(down) /\ down'[i] = down[i]
  <2>1. down' \in Prefixes(down) /\ down \in Seq(Frame)
    BY DEF LinkDown, BreakLink, TypeOK, WireTypeOK
  <2> QED
    BY <2>1, PrefixTyped, LenProperties
<1>4. FinIsLast' /\ DownstreamInOrder' /\ ClientFinAfterData'
  BY <1>1, <1>2, <1>3, EndsKept DEF Carries
<1> QED
  BY <1>1, <1>4 DEF DownEnds, WritesNext, ReferenceValid

-----------------------------------------------------------------------------
(* The theorems *)

LEMMA DownInvStep == TypeOK /\ TypeOK' /\ WireInv /\ DownInv /\ [Next]_vars => DownInv'
<1> SUFFICES ASSUME TypeOK, TypeOK', WireInv, DownInv, [Next]_vars PROVE DownInv'
  OBVIOUS
<1>1. NewToB /\ MapOfB /\ UpInv
  BY DEF WireInv, UpInv, MapInv
<1>2. CASE VisitorNext /\ UNCHANGED providerVars
  BY <1>1, <1>2, VisitorDownWire, VisitorDownEnds DEF DownInv
<1>3. CASE (MainNext \/ \E u \in Uuid : CoNext(u)) /\ UNCHANGED visitorVars
  BY <1>1, <1>3, ProviderDownWire, ProviderDownEnds DEF DownInv
<1>4. CASE LinkDown /\ UNCHANGED <<visitorVars, providerVars>>
  BY <1>4, LinkDownWire, LinkDownEnds DEF DownInv
<1>5. CASE ProviderExit /\ UNCHANGED visitorVars
  BY <1>4, <1>5, ExitIsLinkDown
<1>6. CASE UNCHANGED vars
  <2>1. UNCHANGED <<wireVars, visitorVars, providerVars>>
    BY <1>6 DEF vars
  <2> USE <2>1 DEF wireVars, visitorVars, providerVars, b_flags, b_readerVars, c_flags, DownInv
  <2>2. \A u : Taken(u)' = Taken(u) /\ (Working(u)' <=> Working(u)) /\ (HasAll(u)' <=> HasAll(u))
    BY DEF Taken, Working, HasAll
  <2>3. SilentBefore' /\ DataRead' /\ DataInOrder' /\ EofEndsCo' /\ EofOnDown' /\ EofBehindDown'
    BY DEF DownWire, SilentBefore, DataRead, DataInOrder, EofEndsCo, EofOnDown, EofBehindDown
  <2>4. NoGap' /\ NothingLost' /\ CompleteAtEof'
    BY <2>2 DEF DownWire, NoGap, NothingLost, CompleteAtEof
  <2>5. DownEnds'
    BY <2>2 DEF DownEnds, FinIsLast, WritesNext, DownstreamInOrder, ClientFinAfterData, ReferenceValid
  <2> QED
    BY <2>3, <2>4, <2>5 DEF DownWire
<1> QED
  BY <1>2, <1>3, <1>4, <1>5, <1>6 DEF Next, ProviderNext

LEMMA DownInvAlways == Spec => [](TypeOK /\ WireInv /\ DownInv)
<1>1. Init => DownInv
  <2> SUFFICES ASSUME Init PROVE DownInv
    OBVIOUS
  <2>1. /\ 1..Len(down) = {} /\ b_sessions = {} /\ b_reader = "read"
        /\ \A u \in Uuid : /\ b_written[u] = <<>> /\ c_read[u] = 0 /\ c_co[u] = "none"
                           /\ ~b_half_close_recv[u] /\ ~c_half_close_send[u]
    BY DEF Init, WireInit, VisitorInit, ProviderInit
  <2>2. DownWire
    BY <2>1 DEF DownWire, SilentBefore, DataRead, DataInOrder, NoGap, NothingLost, CompleteAtEof,
                EofEndsCo, EofOnDown, EofBehindDown
  <2>3. DownstreamInOrder
    <3>1. Len(<<>>) = 0 /\ <<>> = [i \in 1..0 |-> i]
      OBVIOUS
    <3> SUFFICES ASSUME NEW u \in Uuid
                 PROVE  /\ b_written[u] = [i \in 1..Len(b_written[u]) |-> i]
                        /\ Len(b_written[u]) <= c_read[u]
      BY DEF DownstreamInOrder
    <3>2. b_written[u] = <<>> /\ c_read[u] = 0
      BY <2>1
    <3>3. Len(b_written[u]) = 0
      BY <3>1, <3>2
    <3>4. [i \in 1..Len(b_written[u]) |-> i] = [i \in 1..0 |-> i]
      BY <3>3
    <3> QED
      BY <3>1, <3>2, <3>3, <3>4
  <2>4. FinIsLast /\ WritesNext /\ ClientFinAfterData /\ ReferenceValid
    BY <2>1 DEF FinIsLast, WritesNext, ClientFinAfterData, ReferenceValid
  <2> QED
    BY <2>2, <2>3, <2>4 DEF DownInv, DownEnds
<1> QED
  BY <1>1, DownInvStep, WireInvAlways, PTL DEF Spec

\* What a client has received is at any time a prefix of what its remote sent,
\* in order and without a gap, even when a connection breaks and takes frames
\* with it.
THEOREM DownstreamOrdered == Spec => []DownstreamInOrder
<1>1. DownInv => DownstreamInOrder
  BY DEF DownInv, DownEnds
<1> QED
  BY <1>1, DownInvAlways, PTL

\* A client whose stream the reader of B has ended (shutdown_send) has all the
\* units the coroutine of C ever read from the remote.
THEOREM FinAfterData == Spec => []ClientFinAfterData
<1>1. DownInv => ClientFinAfterData
  BY DEF DownInv, DownEnds
<1> QED
  BY <1>1, DownInvAlways, PTL

\* As long as the accept loop runs, the entry and the reference that the reader
\* keeps across its two awaits stay valid: the pump of the same client, the only
\* other coroutine that erases it, does not.
THEOREM ReferenceStaysValid == Spec => []ReferenceValid
<1>1. DownInv => ReferenceValid
  BY DEF DownInv, DownEnds
<1> QED
  BY <1>1, DownInvAlways, PTL

-----------------------------------------------------------------------------
(* The way from the remote to the client implements a pipe *)

\* What a step does to the two ends of session u.
Ends(u) == <<c_read[u], b_written[u], c_half_close_send[u], b_half_close_recv[u]>>
Reads(u) ==
    /\ c_read'[u] = c_read[u] + 1 /\ ~c_half_close_send[u]
    /\ b_written'[u] = b_written[u]
    /\ c_half_close_send'[u] = c_half_close_send[u] /\ b_half_close_recv'[u] = b_half_close_recv[u]
Ending(u) ==
    /\ c_half_close_send'[u] = TRUE
    /\ c_read'[u] = c_read[u] /\ b_written'[u] = b_written[u]
    /\ b_half_close_recv'[u] = b_half_close_recv[u]
Writes(u) ==
    /\ ~b_half_close_recv[u] /\ \E n \in Nat : b_written'[u] = Append(b_written[u], n)
    /\ c_read'[u] = c_read[u] /\ c_half_close_send'[u] = c_half_close_send[u]
    /\ b_half_close_recv'[u] = b_half_close_recv[u]
Finishes(u) ==
    /\ b_half_close_recv'[u] = TRUE
    /\ c_read'[u] = c_read[u] /\ b_written'[u] = b_written[u]
    /\ c_half_close_send'[u] = c_half_close_send[u]
EndsStep(u) ==
    \/ Ends(u)' = Ends(u) \/ Reads(u) \/ Ending(u) \/ Writes(u) \/ Finishes(u)

LEMMA EndsSteps ==
    ASSUME TypeOK, DownInv, [Next]_vars, NEW u \in Uuid
    PROVE  EndsStep(u)
<1>1. ASSUME UNCHANGED <<c_read, b_written, c_half_close_send, b_half_close_recv>>
      PROVE  EndsStep(u)
  BY <1>1 DEF EndsStep, Ends
<1>2. CASE UNCHANGED vars
  BY <1>1, <1>2 DEF vars, visitorVars, providerVars, b_flags, c_flags
<1>3. CASE LinkDown /\ UNCHANGED <<visitorVars, providerVars>>
  BY <1>1, <1>3 DEF visitorVars, providerVars, b_flags, c_flags
<1>4. CASE VisitorNext /\ UNCHANGED providerVars
  <2>1. UNCHANGED <<c_read, c_half_close_send>>
    BY <1>4 DEF providerVars, c_flags
  <2>2. CASE ReaderWrote
    <3>1. /\ b_reader = "write" /\ b_cur \in Uuid /\ b_unit \in Nat
          /\ b_written' = [b_written EXCEPT ![b_cur] = Append(@, b_unit)]
          /\ b_written \in [Uuid -> Seq(Nat)]
          /\ UNCHANGED b_half_close_recv
      BY <2>2 DEF ReaderWrote, TypeOK, VisitorTypeOK, b_flags
    <3>2. CASE u = b_cur
      <4>1. ~b_half_close_recv[u]
        BY <3>1, <3>2 DEF DownInv, DownEnds, FinIsLast, Working
      <4>2. b_written'[u] = Append(b_written[u], b_unit)
        BY <3>1, <3>2
      <4> QED
        BY <2>1, <3>1, <4>1, <4>2 DEF EndsStep, Writes
    <3>3. CASE u # b_cur
      BY <2>1, <3>1, <3>3 DEF EndsStep, Ends
    <3> QED
      BY <3>2, <3>3
  <2>3. CASE ReaderDataEof
    <3> DEFINE v == Head(down).uuid
    <3>1. /\ b_half_close_recv' = [b_half_close_recv EXCEPT ![v] = TRUE]
          /\ b_half_close_recv \in [Uuid -> BOOLEAN]
          /\ UNCHANGED b_written
      BY <2>3 DEF ReaderDataEof, TypeOK, VisitorTypeOK
    <3> HIDE DEF v
    <3>2. CASE u = v
      BY <2>1, <3>1, <3>2 DEF EndsStep, Finishes
    <3>3. CASE u # v
      BY <2>1, <3>1, <3>3 DEF EndsStep, Ends
    <3> QED
      BY <3>2, <3>3
  <2>4. CASE AcceptFail \/ \E v \in Uuid : Accept(v) \/ PumpNext(v)
    BY <1>1, <2>1, <2>4 DEF AcceptFail, Accept, PumpNext, PumpLoop, PumpRead, PumpEof, PumpEofSent, b_flags
  <2>5. CASE ReaderIgnore \/ ReaderReject \/ ReaderData \/ ReaderWriteFail \/ ReaderCloseSent
             \/ ReaderStaleIterator \/ ReaderStop
    BY <1>1, <2>1, <2>5 DEF ReaderIgnore, ReaderReject, ReaderData, ReaderWriteFail, ReaderCloseSent,
       ReaderStaleIterator, ReaderStop, visitorVars, b_flags
  <2> QED
    BY <1>4, <2>2, <2>3, <2>4, <2>5 DEF VisitorNext, AcceptNext, ReaderNext
<1>5. CASE ProviderNext /\ UNCHANGED visitorVars
  <2>1. UNCHANGED <<b_written, b_half_close_recv>>
    BY <1>5 DEF visitorVars, b_flags
  <2>2. ASSUME NEW v \in Uuid, RemoteRead(v) PROVE EndsStep(u)
    <3>1. /\ c_co[v] = "read" /\ c_read' = [c_read EXCEPT ![v] = @ + 1]
          /\ c_read \in [Uuid -> Nat] /\ UNCHANGED c_half_close_send
      BY <2>2 DEF RemoteRead, c_flags, TypeOK, ProviderTypeOK
    <3>2. CASE u = v
      <4>1. ~c_half_close_send[u]
        BY <3>1, <3>2 DEF DownInv, DownWire, EofEndsCo
      <4> QED
        BY <2>1, <3>1, <3>2, <4>1 DEF EndsStep, Reads
    <3>3. CASE u # v
      BY <2>1, <3>1, <3>3 DEF EndsStep, Ends
    <3> QED
      BY <3>2, <3>3
  <2>3. ASSUME NEW v \in Uuid, RemoteEof(v) PROVE EndsStep(u)
    <3>1. /\ c_half_close_send' = [c_half_close_send EXCEPT ![v] = TRUE]
          /\ c_half_close_send \in [Uuid -> BOOLEAN] /\ UNCHANGED c_read
      BY <2>3 DEF RemoteEof, TypeOK, ProviderTypeOK
    <3>2. CASE u = v
      BY <2>1, <3>1, <3>2 DEF EndsStep, Ending
    <3>3. CASE u # v
      BY <2>1, <3>1, <3>3 DEF EndsStep, Ends
    <3> QED
      BY <3>2, <3>3
  <2>4. CASE MainNext
    BY <1>1, <2>1, <2>4 DEF MainNext, MainForwardSession, MainIgnore, MainBuffer, MainData, MainWrote,
       MainWriteFail, MainDataEof, MainSessionClose, MainStop, providerVars, c_flags
  <2>5. ASSUME NEW v \in Uuid, ConnectFail(v) \/ ErrSent(v) \/ Connected(v) \/ OkSent(v)
                  \/ DrainWrote(v) \/ DrainFail(v) \/ RemoteSent(v) \/ RemoteEofSent(v)
        PROVE  EndsStep(u)
    BY <1>1, <2>1, <2>5 DEF ConnectFail, ErrSent, Connected, OkSent, DrainWrote, DrainFail,
       RemoteSent, RemoteEofSent, c_flags
  <2>6. CASE ProviderExit
    BY <1>1, <2>1, <2>6 DEF ProviderExit, providerVars, c_flags
  <2> QED
    BY <1>5, <2>2, <2>3, <2>4, <2>5, <2>6 DEF ProviderNext, CoNext
<1> QED
  BY <1>2, <1>3, <1>4, <1>5 DEF Next

\* The units 1..n in their order.
Counted(n) == [i \in 1..n |-> i]

LEMMA CountedExtends ==
    ASSUME NEW m \in Nat, NEW n \in Nat, m <= n
    PROVE  /\ Counted(n) \in Seq(Nat) /\ Len(Counted(n)) = n /\ Len(Counted(m)) = m
           /\ \A i \in 1..Len(Counted(m)) : Counted(n)[i] = Counted(m)[i]
BY DEF Counted

LEMMA PipeStep ==
    ASSUME TypeOK, TypeOK', DownInv, DownInv', NEW u \in Uuid, EndsStep(u)
    PROVE  [Down(u)!Next]_(Down(u)!pipeVars)
<1>1. /\ c_read[u] \in Nat /\ c_read'[u] \in Nat
      /\ Len(b_written[u]) \in Nat /\ Len(b_written'[u]) \in Nat
      /\ b_written[u] \in Seq(Nat) /\ b_written'[u] \in Seq(Nat)
      /\ c_half_close_send[u] \in BOOLEAN /\ b_half_close_recv[u] \in BOOLEAN
  BY LenProperties DEF TypeOK, VisitorTypeOK, ProviderTypeOK
<1>2. /\ b_written[u] = Counted(Len(b_written[u])) /\ Len(b_written[u]) <= c_read[u]
      /\ b_written'[u] = Counted(Len(b_written'[u])) /\ Len(b_written'[u]) <= c_read'[u]
  BY DEF DownInv, DownEnds, DownstreamInOrder, Counted
<1>3. CASE Ends(u)' = Ends(u)
  BY <1>3 DEF Ends, Down!pipeVars
<1>4. CASE Reads(u)
  <2>1. c_read[u] <= c_read'[u]
    BY <1>1, <1>4 DEF Reads
  <2>2. Down(u)!Extends(Counted(c_read'[u]), Counted(c_read[u]))
    BY <1>1, <2>1, CountedExtends DEF Down!Extends
  <2>3. Down(u)!Send
    BY <1>4, <2>2 DEF Reads, Down!Send, Counted
  <2> QED
    BY <2>3 DEF Down!Next
<1>5. CASE Ending(u)
  <2>1. Down(u)!End
    BY <1>5 DEF Ending, Down!End
  <2> QED
    BY <2>1 DEF Down!Next
<1>6. CASE Writes(u)
  <2>1. Len(b_written[u]) <= Len(b_written'[u])
    BY <1>1, <1>6 DEF Writes
  <2>2. Down(u)!Extends(b_written'[u], b_written[u])
    <3>1. Down(u)!Extends(Counted(Len(b_written'[u])), Counted(Len(b_written[u])))
      BY <1>1, <2>1, CountedExtends DEF Down!Extends
    <3> QED
      BY <1>2, <3>1
  <2>3. Down(u)!Extends(Counted(c_read[u]), b_written'[u])
    <3>1. Down(u)!Extends(Counted(c_read'[u]), Counted(Len(b_written'[u])))
      BY <1>1, <1>2, CountedExtends DEF Down!Extends
    <3> QED
      BY <1>2, <1>6, <3>1 DEF Writes
  <2>4. Down(u)!Receive
    BY <1>6, <2>2, <2>3 DEF Writes, Down!Receive, Counted
  <2> QED
    BY <2>4 DEF Down!Next
<1>7. CASE Finishes(u)
  <2>1. c_half_close_send[u] /\ Len(b_written[u]) = c_read[u]
    BY <1>7 DEF Finishes, DownInv, DownEnds, FinIsLast, ClientFinAfterData
  <2>2. b_written[u] = [i \in 1..c_read[u] |-> i]
    BY <1>2, <2>1 DEF Counted
  <2>3. Down(u)!Fin
    BY <1>7, <2>1, <2>2 DEF Finishes, Down!Fin
  <2> QED
    BY <2>3 DEF Down!Next
<1> QED
  BY <1>3, <1>4, <1>5, <1>6, <1>7 DEF EndsStep

\* Whatever the coroutines of B and C, the wire and its failures do, the two
\* ends of each session see a pipe: the refinement maps what C's coroutine has
\* read to what was sent and what B's reader has written to what was received.
THEOREM DownstreamRefinesPipe == Spec => DownstreamIsPipe
<1>1. Init => \A u \in Uuid : Down(u)!Init
  <2> SUFFICES ASSUME Init, NEW u \in Uuid PROVE Down(u)!Init
    OBVIOUS
  <2>1. /\ b_written[u] = <<>> /\ c_read[u] = 0
        /\ c_half_close_send[u] = FALSE /\ b_half_close_recv[u] = FALSE
    BY DEF Init, VisitorInit, ProviderInit
  <2>2. [i \in 1..c_read[u] |-> i] = <<>>
    BY <2>1
  <2> QED
    BY <2>1, <2>2 DEF Down!Init
<1>2. /\ TypeOK /\ DownInv /\ TypeOK' /\ DownInv' /\ [Next]_vars
      => [\A u \in Uuid : [Down(u)!Next]_(Down(u)!pipeVars)]_vars
  BY EndsSteps, PipeStep
<1> QED
  BY <1>1, <1>2, DownInvAlways, PTL DEF Spec, DownstreamIsPipe
=============================================================================
