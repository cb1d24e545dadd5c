----------------------------- MODULE Pipe_proofs -----------------------------
(***************************************************************************)
(* What an implementation of Pipe may rely on, whatever the stream carries *)
(* and however it is cut.                                                  *)
(***************************************************************************)
EXTENDS Pipe, TLAPS

\* The receiver has a prefix of what was sent, and when it was told the end
\* of the stream and nothing was lost, it has everything.
InOrder ==
    /\ Extends(sent, received)
    /\ fin /\ ~broken => ended /\ received = sent

Typed ==
    /\ sent \in Seq(Item) /\ received \in Seq(Item)
    /\ ended \in BOOLEAN /\ fin \in BOOLEAN /\ broken \in BOOLEAN

\* InOrder is inductive with the types: nothing is sent after the end and
\* nothing received after fin, so that what was equal then stays equal.
IndInv == Typed /\ InOrder

\* A prefix of a prefix is a prefix.
LEMMA ExtendsTransitive ==
    ASSUME NEW r \in Seq(Item), NEW s \in Seq(Item), NEW t \in Seq(Item),
           Extends(s, r), Extends(t, s)
    PROVE  Extends(t, r)
BY DEF Extends

LEMMA InitIndInv == Init => IndInv
<1> SUFFICES ASSUME Init PROVE IndInv
  OBVIOUS
<1>1. <<>> \in Seq(Item) /\ Len(<<>>) = 0
  OBVIOUS
<1>2. Typed
  BY <1>1 DEF Init, Typed
<1>3. InOrder
  BY <1>1, <1>2 DEF Init, Typed, InOrder, Extends
<1> QED
  BY <1>2, <1>3 DEF IndInv

LEMMA StepIndInv == IndInv /\ [Next]_pipeVars => IndInv'
<1> SUFFICES ASSUME IndInv, [Next]_pipeVars PROVE IndInv'
  OBVIOUS
<1>1. CASE Send
  <2>1. Typed'
    BY <1>1 DEF Send, IndInv, Typed, Extends
  <2>2. Extends(sent', received)
    BY <1>1, <2>1, ExtendsTransitive DEF Send, IndInv, Typed, InOrder
  <2> QED
    BY <1>1, <2>1, <2>2 DEF Send, IndInv, InOrder, Extends
<1>2. CASE End
  BY <1>2 DEF End, IndInv, Typed, InOrder, Extends
<1>3. CASE Receive
  BY <1>3 DEF Receive, IndInv, Typed, InOrder, Extends
<1>4. CASE Fin
  BY <1>4 DEF Fin, IndInv, Typed, InOrder, Extends
<1>5. CASE Break
  <2>1. Typed'
    BY <1>5 DEF Break, IndInv, Typed, Extends
  <2>2. Extends(sent', received)
    <3>1. CASE ended
      BY <1>5, <3>1 DEF Break, IndInv, InOrder
    <3>2. CASE ~ended
      BY <1>5, <2>1, <3>2, ExtendsTransitive DEF Break, IndInv, Typed, InOrder
    <3> QED
      BY <3>1, <3>2
  <2> QED
    BY <1>5, <2>1, <2>2 DEF Break, IndInv, InOrder, Extends
<1>6. CASE UNCHANGED pipeVars
  BY <1>6 DEF pipeVars, IndInv, Typed, InOrder, Extends
<1> QED
  BY <1>1, <1>2, <1>3, <1>4, <1>5, <1>6 DEF Next

\* Every implementation of Pipe delivers in order and without a gap, and ends
\* a stream only behind its last item: ImplementsPipe and DownstreamIsPipe
\* stand for this of the tunnel's links and of the relay's way down.
THEOREM PipeInOrder == Spec => []InOrder
<1>1. IndInv => InOrder
  BY DEF IndInv
<1> QED
  BY InitIndInv, StepIndInv, <1>1, PTL DEF Spec
==============================================================================
