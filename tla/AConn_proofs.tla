---------------------------- MODULE AConn_proofs ----------------------------
(***************************************************************************)
(* Theorems about aconn_write, for any number of coroutines, any frame     *)
(* sizes and any kernel: who is in which queue, in which order frames      *)
(* start on the wire, and how they take turns there.                       *)
(***************************************************************************)
EXTENDS AConn, SequenceTheorems, TLAPS

-----------------------------------------------------------------------------
(* Queues *)

\* What the first of a queue is, and what is left without it.
LEMMA Dequeue ==
    ASSUME NEW q \in Seq(Coroutine), q # <<>>
    PROVE  /\ Head(q) \in Coroutine /\ Head(q) = q[1] /\ 1 \in 1..Len(q)
           /\ Tail(q) \in Seq(Coroutine)
           /\ Len(q) \in Nat /\ Len(Tail(q)) \in Nat /\ Len(Tail(q)) = Len(q) - 1
           /\ \A i \in 1..Len(Tail(q)) : i + 1 \in 1..Len(q) /\ Tail(q)[i] = q[i + 1]
           /\ \A i \in 1..Len(q) : i = 1 \/ (i - 1 \in 1..Len(Tail(q)) /\ Tail(q)[i - 1] = q[i])
<1>1. Head(q) \in Coroutine /\ Tail(q) \in Seq(Coroutine) /\ Len(Tail(q)) = Len(q) - 1
  BY HeadTailProperties
<1>2. \A i \in 1..Len(Tail(q)) : Tail(q)[i] = q[i + 1]
  BY HeadTailProperties
<1>3. Head(q) = q[1] /\ Len(q) \in Nat /\ Len(q) >= 1
  OBVIOUS
<1> QED
  BY <1>1, <1>2, <1>3

LEMMA Enqueue ==
    ASSUME NEW q \in Seq(Coroutine), NEW w \in Coroutine
    PROVE  /\ Append(q, w) \in Seq(Coroutine)
           /\ Len(q) \in Nat /\ Len(Append(q, w)) = Len(q) + 1
           /\ \A i \in 1..Len(q) : Append(q, w)[i] = q[i]
           /\ Append(q, w)[Len(q) + 1] = w
BY AppendProperties, LenProperties

\* What one operation may transfer is no more than what is left.
LEMMA TransferableBounds ==
    ASSUME NEW m \in Nat, NEW n \in Transferable(m), n \in Nat
    PROVE  n <= m /\ n <= MaxTransfer
BY SizeAssumption DEF Transferable

\* A piece of frame f follows those on the wire.
LEMMA PieceAppended ==
    ASSUME wire \in Seq(Nat), NEW f \in Nat, wire' = Append(wire, f)
    PROVE  /\ wire' \in Seq(Nat) /\ Len(wire) \in Nat /\ Len(wire') = Len(wire) + 1
           /\ DOMAIN wire = 1..Len(wire) /\ DOMAIN wire' = 1..Len(wire')
           /\ \A k \in 1..Len(wire) :
                 k \in 1..Len(wire') /\ wire'[k] = wire[k] /\ wire[k] \in Nat
           /\ Len(wire) + 1 \in 1..Len(wire') /\ wire'[Len(wire) + 1] = f
           /\ \A k \in 1..Len(wire') : k \in 1..Len(wire) \/ k = Len(wire) + 1
<1>1. /\ wire' \in Seq(Nat) /\ Len(wire) \in Nat /\ Len(wire') = Len(wire) + 1
      /\ wire'[Len(wire) + 1] = f /\ \A k \in 1..Len(wire) : wire'[k] = wire[k]
  BY AppendProperties, LenProperties
<1>2. \A k \in 1..Len(wire) : wire[k] \in Nat
  BY ElementOfSeq
<1> QED
  BY <1>1, <1>2, LenProperties

-----------------------------------------------------------------------------
(* Types *)

LEMMA TypeStep == TypeOK /\ [Next]_vars => TypeOK'
<1> SUFFICES ASSUME TypeOK, [Next]_vars PROVE TypeOK'
  OBVIOUS
<1> USE DEF TypeOK
<1>1. ASSUME NEW w \in Coroutine, NEW len \in 1..MaxLen, Call(w, len) PROVE TypeOK'
  BY <1>1, Enqueue, SizeAssumption DEF Call
<1>2. CASE Start
  BY <1>2, Enqueue, Dequeue DEF Start
<1>3. CASE Return
  BY <1>3, Dequeue DEF Return
<1>4. ASSUME NEW n \in 1..MaxLen, Transfer(n) PROVE TypeOK'
  <2> DEFINE w == Head(ops)
  <2>1. /\ w \in Coroutine /\ n \in Nat /\ n \in Transferable(rest[w])
        /\ ops' = Tail(ops) /\ ops # <<>> /\ strand' = Append(strand, w)
        /\ rest' = [rest EXCEPT ![w] = @ - n]
        /\ wire' = Append(wire, frame[w])
        /\ UNCHANGED <<frames, frame, alive>>
    BY <1>4, Dequeue, SizeAssumption DEF Transfer
  <2> HIDE DEF w
  <2>2. wire' \in Seq(Nat)
    BY <2>1, PieceAppended
  <2>3. rest' \in [Coroutine -> Nat]
    <3>1. rest[w] \in Nat
      BY <2>1
    <3>2. n <= rest[w]
      BY <2>1, <3>1, TransferableBounds
    <3>3. rest[w] - n \in Nat
      BY <2>1, <3>1, <3>2
    <3> QED
      BY <2>1, <3>3
  <2> QED
    BY <2>1, <2>2, <2>3, Dequeue, Enqueue
<1>5. CASE TransferFail
  BY <1>5, Dequeue, Enqueue DEF TransferFail
<1>6. CASE Lose
  BY <1>6 DEF Lose
<1>7. CASE UNCHANGED vars
  BY <1>7 DEF vars
<1> QED
  BY <1>1, <1>2, <1>3, <1>4, <1>5, <1>6, <1>7 DEF Next

\* Every variable keeps its type: in particular an operation never puts more
\* of a frame on the wire than was left of it.
THEOREM TypeCorrect == Spec => []TypeOK
<1>1. Init => TypeOK
  <2>1. <<>> \in Seq(Coroutine) /\ <<>> \in Seq(Nat)
    OBVIOUS
  <2> QED
    BY <2>1 DEF Init, TypeOK
<1> QED
  BY <1>1, TypeStep, PTL DEF Spec

-----------------------------------------------------------------------------
(* Who is in which queue *)

Distinct(q) == \A i, j \in 1..Len(q) : q[i] = q[j] => i = j
Apart == \A i \in 1..Len(strand), j \in 1..Len(ops) : strand[i] # ops[j]
QueuedWrite == /\ \A i \in 1..Len(strand) : frame[strand[i]] # 0
               /\ \A i \in 1..Len(ops) : frame[ops[i]] # 0
WritingQueued ==
    \A w \in Coroutine : frame[w] # 0 => \/ \E i \in 1..Len(strand) : strand[i] = w
                                         \/ \E i \in 1..Len(ops) : ops[i] = w

\* OneHandlerEach position by position.
Queues == Distinct(strand) /\ Distinct(ops) /\ Apart /\ QueuedWrite /\ WritingQueued

LEMMA QueuesMeaning ==
    ASSUME TypeOK, Queues
    PROVE  OneHandlerEach
<1>1. DOMAIN strand = 1..Len(strand) /\ DOMAIN ops = 1..Len(ops)
  BY DEF TypeOK
<1>2. IsInjective(strand) /\ IsInjective(ops)
  BY <1>1 DEF Queues, Distinct, IsInjective
<1>3. ToSet(strand) \intersect ToSet(ops) = {}
  BY <1>1 DEF Queues, Apart, ToSet
<1>4. ToSet(strand) \union ToSet(ops) = {w \in Coroutine : frame[w] # 0}
  <2>1. \A i \in 1..Len(strand) : strand[i] \in Coroutine
    BY ElementOfSeq DEF TypeOK
  <2>2. \A i \in 1..Len(ops) : ops[i] \in Coroutine
    BY ElementOfSeq DEF TypeOK
  <2>3. /\ \A w : w \in ToSet(strand) <=> \E i \in 1..Len(strand) : strand[i] = w
        /\ \A w : w \in ToSet(ops) <=> \E i \in 1..Len(ops) : ops[i] = w
    BY <1>1 DEF ToSet
  <2>4. ASSUME NEW w \in ToSet(strand) \union ToSet(ops) PROVE w \in Coroutine /\ frame[w] # 0
    BY <2>1, <2>2, <2>3 DEF Queues, QueuedWrite
  <2>5. ASSUME NEW w \in Coroutine, frame[w] # 0 PROVE w \in ToSet(strand) \union ToSet(ops)
    BY <2>3, <2>5 DEF Queues, WritingQueued
  <2> QED
    BY ONLY <2>4, <2>5
<1> QED
  BY <1>2, <1>3, <1>4 DEF OneHandlerEach

\* An operation ends, well or not: its coroutine goes back to the strand.
LEMMA BackToStrand ==
    ASSUME TypeOK, Queues, ops # <<>>, ops' = Tail(ops),
           strand' = Append(strand, Head(ops)), UNCHANGED frame
    PROVE  Queues'
<1>1. /\ Head(ops) = ops[1] /\ Head(ops) \in Coroutine /\ 1 \in 1..Len(ops)
      /\ Len(ops) \in Nat /\ Len(ops') \in Nat
      /\ \A i \in 1..Len(ops') : i + 1 \in 1..Len(ops) /\ ops'[i] = ops[i + 1]
      /\ \A i \in 1..Len(ops) : i = 1 \/ (i - 1 \in 1..Len(ops') /\ ops'[i - 1] = ops[i])
  BY Dequeue DEF TypeOK
<1>2. /\ Len(strand) \in Nat /\ Len(strand') = Len(strand) + 1
      /\ \A i \in 1..Len(strand) : strand'[i] = strand[i]
      /\ strand'[Len(strand) + 1] = ops[1]
  BY <1>1, Enqueue DEF TypeOK
<1>3. \A i \in 1..Len(strand') : i \in 1..Len(strand) \/ i = Len(strand) + 1
  BY <1>2
<1>4. Distinct(strand')
  BY <1>1, <1>2, <1>3 DEF Queues, Distinct, Apart
<1>5. Distinct(ops')
  BY <1>1 DEF Queues, Distinct
<1>6. Apart'
  <2> SUFFICES ASSUME NEW i \in 1..Len(strand'), NEW j \in 1..Len(ops') PROVE strand'[i] # ops'[j]
    BY DEF Apart
  <2>1. j + 1 \in 1..Len(ops) /\ j + 1 # 1 /\ ops'[j] = ops[j + 1]
    BY <1>1
  <2>2. ops[j + 1] # ops[1]
    BY <1>1, <2>1 DEF Queues, Distinct
  <2> QED
    BY <1>2, <1>3, <2>1, <2>2 DEF Queues, Apart
<1>7. QueuedWrite'
  <2>1. ASSUME NEW i \in 1..Len(strand') PROVE frame[strand'[i]] # 0
    <3>1. frame[ops[1]] # 0
      BY <1>1 DEF Queues, QueuedWrite
    <3>2. CASE i \in 1..Len(strand)
      BY <1>2, <3>2 DEF Queues, QueuedWrite
    <3>3. CASE i = Len(strand) + 1
      BY <1>2, <3>1, <3>3
    <3> QED
      BY <1>3, <2>1, <3>2, <3>3
  <2>2. ASSUME NEW i \in 1..Len(ops') PROVE frame[ops'[i]] # 0
    BY <1>1, <2>2 DEF Queues, QueuedWrite
  <2> QED
    BY <2>1, <2>2 DEF QueuedWrite
<1>8. WritingQueued'
  <2> SUFFICES ASSUME NEW w \in Coroutine, frame[w] # 0
               PROVE  \/ \E i \in 1..Len(strand') : strand'[i] = w
                      \/ \E i \in 1..Len(ops') : ops'[i] = w
    BY DEF WritingQueued
  <2>1. CASE \E i \in 1..Len(strand) : strand[i] = w
    BY <1>2, <2>1
  <2>2. ASSUME NEW i \in 1..Len(ops), ops[i] = w
        PROVE  \/ \E k \in 1..Len(strand') : strand'[k] = w
               \/ \E k \in 1..Len(ops') : ops'[k] = w
    <3>1. CASE i = 1
      <4>1. Len(strand) + 1 \in 1..Len(strand')
        BY <1>2
      <4> QED
        BY <1>2, <2>2, <3>1, <4>1
    <3>2. CASE i # 1
      BY <1>1, <2>2, <3>2
    <3> QED
      BY <3>1, <3>2
  <2> QED
    BY <2>1, <2>2 DEF Queues, WritingQueued
<1> QED
  BY <1>4, <1>5, <1>6, <1>7, <1>8 DEF Queues

LEMMA QueuesStep == TypeOK /\ Queues /\ [Next]_vars => Queues'
<1> SUFFICES ASSUME TypeOK, Queues, [Next]_vars PROVE Queues'
  OBVIOUS
<1>t. /\ strand \in Seq(Coroutine) /\ ops \in Seq(Coroutine) /\ frame \in [Coroutine -> Nat]
      /\ frames \in Nat
  BY DEF TypeOK
<1>1. ASSUME NEW w \in Coroutine, NEW len \in 1..MaxLen, Call(w, len) PROVE Queues'
  <2>1. /\ frame[w] = 0 /\ frame' = [frame EXCEPT ![w] = frames + 1]
        /\ strand' = Append(strand, w) /\ UNCHANGED ops
    BY <1>1 DEF Call
  <2>2. /\ Len(strand) \in Nat /\ Len(strand') = Len(strand) + 1
        /\ \A i \in 1..Len(strand) : strand'[i] = strand[i]
        /\ strand'[Len(strand) + 1] = w
        /\ \A i \in 1..Len(strand') : i \in 1..Len(strand) \/ i = Len(strand) + 1
    BY <1>t, <2>1, Enqueue
  <2>3. /\ \A i \in 1..Len(strand) : strand[i] # w /\ strand[i] \in Coroutine
        /\ \A i \in 1..Len(ops) : ops[i] # w /\ ops[i] \in Coroutine
    BY <1>t, <2>1, ElementOfSeq DEF Queues, QueuedWrite
  <2>4. frame'[w] # 0 /\ \A v \in Coroutine : v # w => frame'[v] = frame[v]
    BY <1>t, <2>1
  <2>5. Distinct(strand') /\ Distinct(ops')
    BY <2>1, <2>2, <2>3 DEF Queues, Distinct
  <2>6. Apart'
    BY <2>1, <2>2, <2>3 DEF Queues, Apart
  <2>7. QueuedWrite'
    BY <2>1, <2>2, <2>3, <2>4 DEF Queues, QueuedWrite
  <2>8. WritingQueued'
    <3> SUFFICES ASSUME NEW v \in Coroutine, frame'[v] # 0
                 PROVE  \/ \E i \in 1..Len(strand') : strand'[i] = v
                        \/ \E i \in 1..Len(ops) : ops[i] = v
      BY <2>1 DEF WritingQueued
    <3>1. CASE v = w
      BY <2>2, <3>1
    <3>2. CASE v # w
      <4>1. \/ \E i \in 1..Len(strand) : strand[i] = v
            \/ \E i \in 1..Len(ops) : ops[i] = v
        BY <2>4, <3>2 DEF Queues, WritingQueued
      <4> QED
        BY <2>2, <4>1
    <3> QED
      BY <3>1, <3>2
  <2> QED
    BY <2>5, <2>6, <2>7, <2>8 DEF Queues
<1>2. ASSUME strand # <<>>, strand' = Tail(strand)
      PROVE  /\ Head(strand) = strand[1] /\ Head(strand) \in Coroutine /\ 1 \in 1..Len(strand)
             /\ Len(strand) \in Nat /\ Len(strand') \in Nat
             /\ \A i \in 1..Len(strand') : /\ i + 1 \in 1..Len(strand) /\ strand'[i] = strand[i + 1]
                                           /\ strand'[i] # strand[1] /\ strand'[i] \in Coroutine
             /\ \A i \in 1..Len(strand) :
                   i = 1 \/ (i - 1 \in 1..Len(strand') /\ strand'[i - 1] = strand[i])
             /\ Distinct(strand')
  <2>1. /\ Head(strand) = strand[1] /\ Head(strand) \in Coroutine /\ 1 \in 1..Len(strand)
        /\ Len(strand) \in Nat /\ Len(strand') \in Nat
        /\ \A i \in 1..Len(strand') : i + 1 \in 1..Len(strand) /\ strand'[i] = strand[i + 1]
        /\ \A i \in 1..Len(strand) :
              i = 1 \/ (i - 1 \in 1..Len(strand') /\ strand'[i - 1] = strand[i])
    BY <1>t, <1>2, Dequeue
  <2>2. ASSUME NEW i \in 1..Len(strand') PROVE strand'[i] # strand[1] /\ strand'[i] \in Coroutine
    <3>1. i + 1 \in 1..Len(strand) /\ i + 1 # 1
      BY <2>1, <2>2
    <3>2. strand[i + 1] # strand[1]
      BY <2>1, <3>1 DEF Queues, Distinct
    <3> QED
      BY <1>t, <2>1, <3>1, <3>2, ElementOfSeq
  <2>3. Distinct(strand')
    BY <2>1 DEF Queues, Distinct
  <2> QED
    BY <2>1, <2>2, <2>3
<1>3. CASE Start
  <2>1. /\ strand # <<>> /\ strand' = Tail(strand) /\ ops' = Append(ops, Head(strand))
        /\ UNCHANGED frame
    BY <1>3 DEF Start
  <2>2. /\ Len(ops) \in Nat /\ Len(ops') = Len(ops) + 1
        /\ \A i \in 1..Len(ops) : ops'[i] = ops[i]
        /\ ops'[Len(ops) + 1] = strand[1]
        /\ \A i \in 1..Len(ops') : i \in 1..Len(ops) \/ i = Len(ops) + 1
    BY <1>t, <1>2, <2>1, Enqueue
  <2>3. Distinct(ops')
    BY <1>2, <2>1, <2>2 DEF Queues, Distinct, Apart
  <2>4. Apart'
    BY <1>2, <2>1, <2>2 DEF Queues, Apart
  <2>5. QueuedWrite'
    BY <1>2, <2>1, <2>2 DEF Queues, QueuedWrite
  <2>6. WritingQueued'
    <3> SUFFICES ASSUME NEW w \in Coroutine, frame[w] # 0
                 PROVE  \/ \E i \in 1..Len(strand') : strand'[i] = w
                        \/ \E i \in 1..Len(ops') : ops'[i] = w
      BY <2>1 DEF WritingQueued
    <3>1. ASSUME NEW i \in 1..Len(strand), strand[i] = w
          PROVE  \/ \E k \in 1..Len(strand') : strand'[k] = w
                 \/ \E k \in 1..Len(ops') : ops'[k] = w
      <4>1. CASE i = 1
        <5>1. Len(ops) + 1 \in 1..Len(ops') /\ ops'[Len(ops) + 1] = w
          BY <2>2, <3>1, <4>1
        <5> QED
          BY <5>1
      <4>2. CASE i - 1 \in 1..Len(strand') /\ strand'[i - 1] = strand[i]
        BY <3>1, <4>2
      <4> QED
        BY <1>2, <2>1, <4>1, <4>2
    <3>2. CASE \E i \in 1..Len(ops) : ops[i] = w
      BY <2>2, <3>2
    <3> QED
      BY <3>1, <3>2 DEF Queues, WritingQueued
  <2> QED
    BY <1>2, <2>1, <2>3, <2>4, <2>5, <2>6 DEF Queues
<1>4. CASE Return
  <2>1. /\ strand # <<>> /\ strand' = Tail(strand) /\ UNCHANGED ops
        /\ frame' = [frame EXCEPT ![strand[1]] = 0]
    BY <1>4, <1>2 DEF Return
  <2>2. frame'[strand[1]] = 0 /\ \A w \in Coroutine : w # strand[1] => frame'[w] = frame[w]
    BY <1>t, <1>2, <2>1
  <2>3. Apart'
    BY <1>2, <2>1 DEF Queues, Apart
  <2>4. QueuedWrite'
    <3>1. \A i \in 1..Len(ops) : ops[i] # strand[1] /\ ops[i] \in Coroutine
      BY <1>t, <1>2, <2>1, ElementOfSeq DEF Queues, Apart
    <3> QED
      BY <1>2, <2>1, <2>2, <3>1 DEF Queues, QueuedWrite
  <2>5. WritingQueued'
    <3> SUFFICES ASSUME NEW w \in Coroutine, frame'[w] # 0
                 PROVE  \/ \E i \in 1..Len(strand') : strand'[i] = w
                        \/ \E i \in 1..Len(ops) : ops[i] = w
      BY <2>1 DEF WritingQueued
    <3>1. w # strand[1] /\ frame[w] # 0
      BY <2>2
    <3>2. ASSUME NEW i \in 1..Len(strand), strand[i] = w
          PROVE  \E k \in 1..Len(strand') : strand'[k] = w
      <4>1. i # 1
        BY <3>1, <3>2
      <4> QED
        BY <1>2, <2>1, <3>2, <4>1
    <3> QED
      BY <3>1, <3>2 DEF Queues, WritingQueued
  <2> QED
    BY <1>2, <2>1, <2>3, <2>4, <2>5 DEF Queues
<1>5. ASSUME NEW n \in 1..MaxLen, Transfer(n) PROVE Queues'
  BY <1>5, BackToStrand DEF Transfer
<1>6. CASE TransferFail
  BY <1>6, BackToStrand DEF TransferFail
<1>7. CASE Lose \/ UNCHANGED vars
  BY <1>7 DEF Lose, vars, Queues, Distinct, Apart, QueuedWrite, WritingQueued
<1> QED
  BY <1>1, <1>3, <1>4, <1>5, <1>6, <1>7 DEF Next

LEMMA QueuesAlways == Spec => [](TypeOK /\ Queues)
<1>1. Init => Queues
  BY DEF Init, Queues, Distinct, Apart, QueuedWrite, WritingQueued
<1> QED
  BY <1>1, QueuesStep, TypeCorrect, PTL DEF Spec

\* A coroutine that called aconn_write has one handler, on the strand or on the
\* socket, until it returns, and a coroutine that did not has none.
THEOREM HandlersUnique == Spec => []OneHandlerEach
<1>1. TypeOK /\ Queues => OneHandlerEach
  BY QueuesMeaning
<1> QED
  BY <1>1, QueuesAlways, PTL

-----------------------------------------------------------------------------
(* In which order frames start *)

\* The coroutines that have no piece of their frame on the wire.
Unstarted == {w \in Coroutine : \A k \in 1..Len(wire) : wire[k] # frame[w]}

CallsKnown == /\ \A w \in Coroutine : frame[w] <= frames
              /\ \A k \in 1..Len(wire) : wire[k] <= frames
OpsInOrder ==
    \A i, j \in 1..Len(ops) :
        i < j /\ ops[i] \in Unstarted /\ ops[j] \in Unstarted
        => frame[ops[i]] < frame[ops[j]]
StrandInOrder ==
    \A i, j \in 1..Len(strand) :
        i < j /\ strand[i] \in Unstarted /\ strand[j] \in Unstarted
        => frame[strand[i]] < frame[strand[j]]
OpsBeforeStrand ==
    \A i \in 1..Len(ops), j \in 1..Len(strand) :
        ops[i] \in Unstarted /\ strand[j] \in Unstarted
        => frame[ops[i]] < frame[strand[j]]
UnstartedLater ==
    \A w \in Unstarted : frame[w] # 0 => \A k \in 1..Len(wire) : wire[k] < frame[w]

\* While the connection is up, the frames that have not started stand in the
\* order of their calls: in the operations first, then on the strand, and all
\* of them after what is on the wire.  A failed operation breaks this order,
\* when nothing is put on the wire any more.
Orders == /\ OpsInOrder
          /\ StrandInOrder
          /\ OpsBeforeStrand
          /\ UnstartedLater

StartInv == CallsKnown /\ StartInCallOrder /\ (alive => Orders)

LEMMA StartCall ==
    ASSUME TypeOK, Queues, StartInv, NEW w \in Coroutine, NEW len \in 1..MaxLen, Call(w, len)
    PROVE  StartInv'
<1>1. /\ frame[w] = 0 /\ frame' = [frame EXCEPT ![w] = frames + 1] /\ frames' = frames + 1
      /\ strand' = Append(strand, w) /\ UNCHANGED <<ops, wire, alive>>
  BY DEF Call
<1>2. /\ frame'[w] = frames + 1 /\ \A v \in Coroutine : v # w => frame'[v] = frame[v]
      /\ frames \in Nat /\ \A v \in Coroutine : frame[v] \in Nat
  BY <1>1 DEF TypeOK
<1>3. /\ Len(strand) \in Nat /\ Len(strand') = Len(strand) + 1
      /\ \A i \in 1..Len(strand) : strand'[i] = strand[i]
      /\ strand'[Len(strand) + 1] = w
      /\ \A i \in 1..Len(strand') : i \in 1..Len(strand) \/ i = Len(strand) + 1
  BY <1>1, Enqueue DEF TypeOK
<1>4. /\ \A i \in 1..Len(strand) : strand[i] # w /\ strand[i] \in Coroutine
      /\ \A i \in 1..Len(ops) : ops[i] # w /\ ops[i] \in Coroutine
  BY <1>1, ElementOfSeq DEF Queues, QueuedWrite, TypeOK
<1>5. /\ Len(wire) \in Nat
      /\ \A k \in 1..Len(wire) : wire[k] \in Nat /\ wire[k] <= frames
  BY ElementOfSeq, LenProperties DEF TypeOK, StartInv, CallsKnown
<1>6. \A v \in Coroutine : v # w => (v \in Unstarted' <=> v \in Unstarted)
  BY <1>1, <1>2 DEF Unstarted
<1>7. CallsKnown'
  <2>1. ASSUME NEW v \in Coroutine PROVE frame'[v] <= frames'
    BY <1>1, <1>2 DEF StartInv, CallsKnown
  <2> QED
    BY <1>1, <1>2, <1>5, <2>1 DEF CallsKnown
<1>8. StartInCallOrder'
  BY <1>1 DEF StartInv, StartInCallOrder
<1>9. ASSUME alive PROVE Orders'
  <2>1. Orders
    BY <1>9 DEF StartInv
  <2>2. OpsInOrder'
    BY <1>1, <1>2, <1>4, <1>6, <2>1 DEF Orders, OpsInOrder
  <2>3. StrandInOrder'
    <3> SUFFICES ASSUME NEW i \in 1..Len(strand'), NEW j \in 1..Len(strand'), i < j,
                        strand'[i] \in Unstarted', strand'[j] \in Unstarted'
                 PROVE  frame'[strand'[i]] < frame'[strand'[j]]
      BY DEF StrandInOrder
    <3>1. i \in 1..Len(strand)
      BY <1>3
    <3>2. CASE j \in 1..Len(strand)
      BY <1>2, <1>3, <1>4, <1>6, <2>1, <3>1, <3>2 DEF Orders, StrandInOrder
    <3>3. CASE j = Len(strand) + 1
      <4>1. frame[strand[i]] <= frames /\ frame[strand[i]] \in Nat
        BY <1>2, <1>4, <3>1 DEF StartInv, CallsKnown
      <4>2. frame'[strand'[i]] = frame[strand[i]] /\ frame'[strand'[j]] = frames + 1
        BY <1>2, <1>3, <1>4, <3>1, <3>3
      <4> QED
        BY <1>2, <4>1, <4>2
    <3> QED
      BY <1>3, <3>2, <3>3
  <2>4. OpsBeforeStrand'
    <3> SUFFICES ASSUME NEW i \in 1..Len(ops), NEW j \in 1..Len(strand'),
                        ops[i] \in Unstarted', strand'[j] \in Unstarted'
                 PROVE  frame'[ops[i]] < frame'[strand'[j]]
      BY <1>1 DEF OpsBeforeStrand
    <3>2. CASE j \in 1..Len(strand)
      BY <1>2, <1>3, <1>4, <1>6, <2>1, <3>2 DEF Orders, OpsBeforeStrand
    <3>3. CASE j = Len(strand) + 1
      <4>1. frame[ops[i]] <= frames /\ frame[ops[i]] \in Nat
        BY <1>2, <1>4 DEF StartInv, CallsKnown
      <4>2. frame'[ops[i]] = frame[ops[i]] /\ frame'[strand'[j]] = frames + 1
        BY <1>2, <1>3, <1>4, <3>3
      <4> QED
        BY <1>2, <4>1, <4>2
    <3> QED
      BY <1>3, <3>2, <3>3
  <2>5. UnstartedLater'
    <3> SUFFICES ASSUME NEW v \in Unstarted', frame'[v] # 0, NEW k \in 1..Len(wire)
                 PROVE  wire[k] < frame'[v]
      BY <1>1 DEF UnstartedLater
    <3>1. CASE v = w
      BY <1>2, <1>5, <3>1
    <3>2. CASE v # w
      <4>1. v \in Coroutine
        BY DEF Unstarted
      <4> QED
        BY <1>2, <1>6, <2>1, <3>2, <4>1 DEF Orders, UnstartedLater
    <3> QED
      BY <3>1, <3>2
  <2> QED
    BY <2>2, <2>3, <2>4, <2>5 DEF Orders
<1> QED
  BY <1>1, <1>7, <1>8, <1>9 DEF StartInv

\* The strand without its first.
LEMMA StrandRest ==
    ASSUME TypeOK, Queues, strand # <<>>, strand' = Tail(strand)
    PROVE  /\ strand[1] = Head(strand) /\ strand[1] \in Coroutine /\ 1 \in 1..Len(strand)
           /\ Len(strand) \in Nat
           /\ \A i \in 1..Len(strand') : /\ i \in Nat /\ i + 1 \in 1..Len(strand) /\ i + 1 > 1
                                         /\ strand'[i] = strand[i + 1]
                                         /\ strand'[i] # strand[1] /\ strand'[i] \in Coroutine
<1>1. /\ Head(strand) = strand[1] /\ Head(strand) \in Coroutine /\ 1 \in 1..Len(strand)
      /\ Len(strand) \in Nat /\ Len(strand') \in Nat
      /\ \A i \in 1..Len(strand') : i + 1 \in 1..Len(strand) /\ strand'[i] = strand[i + 1]
  BY Dequeue DEF TypeOK
<1>2. ASSUME NEW i \in 1..Len(strand')
      PROVE  i \in Nat /\ i + 1 > 1 /\ strand'[i] # strand[1] /\ strand'[i] \in Coroutine
  <2>1. i + 1 \in 1..Len(strand) /\ i + 1 # 1 /\ i \in Nat /\ i + 1 > 1
    BY <1>1, <1>2
  <2>2. strand[i + 1] # strand[1]
    BY <1>1, <2>1 DEF Queues, Distinct
  <2> QED
    BY <1>1, <2>1, <2>2, ElementOfSeq DEF TypeOK
<1> QED
  BY <1>1, <1>2

LEMMA StartStart ==
    ASSUME TypeOK, Queues, StartInv, Start
    PROVE  StartInv'
<1>1. /\ strand # <<>> /\ strand' = Tail(strand) /\ ops' = Append(ops, Head(strand))
      /\ UNCHANGED <<frames, frame, wire, alive>>
  BY DEF Start
<1>2. /\ strand[1] = Head(strand) /\ strand[1] \in Coroutine /\ 1 \in 1..Len(strand)
      /\ Len(strand) \in Nat
      /\ \A i \in 1..Len(strand') : /\ i \in Nat /\ i + 1 \in 1..Len(strand) /\ i + 1 > 1
                                    /\ strand'[i] = strand[i + 1]
  BY <1>1, StrandRest
<1>3. /\ Len(ops) \in Nat /\ Len(ops') = Len(ops) + 1
      /\ \A i \in 1..Len(ops) : ops'[i] = ops[i]
      /\ ops'[Len(ops) + 1] = strand[1]
      /\ \A i \in 1..Len(ops') : i \in 1..Len(ops) \/ i = Len(ops) + 1
  BY <1>1, <1>2, Enqueue DEF TypeOK
<1>4. Unstarted' = Unstarted
  BY <1>1 DEF Unstarted
<1>5. CallsKnown' /\ StartInCallOrder'
  BY <1>1 DEF StartInv, CallsKnown, StartInCallOrder
<1>6. ASSUME alive PROVE Orders'
  <2>1. Orders
    BY <1>6 DEF StartInv
  <2>2. OpsInOrder'
    <3> SUFFICES ASSUME NEW i \in 1..Len(ops'), NEW j \in 1..Len(ops'), i < j,
                        ops'[i] \in Unstarted, ops'[j] \in Unstarted
                 PROVE  frame[ops'[i]] < frame[ops'[j]]
      BY <1>1, <1>4 DEF OpsInOrder
    <3>1. i \in 1..Len(ops)
      BY <1>3
    <3>2. CASE j \in 1..Len(ops)
      BY <1>3, <2>1, <3>1, <3>2 DEF Orders, OpsInOrder
    <3>3. CASE j = Len(ops) + 1
      BY <1>2, <1>3, <2>1, <3>1, <3>3 DEF Orders, OpsBeforeStrand
    <3> QED
      BY <1>3, <3>2, <3>3
  <2>3. StrandInOrder'
    <3> SUFFICES ASSUME NEW i \in 1..Len(strand'), NEW j \in 1..Len(strand'), i < j,
                        strand'[i] \in Unstarted, strand'[j] \in Unstarted
                 PROVE  frame[strand'[i]] < frame[strand'[j]]
      BY <1>1, <1>4 DEF StrandInOrder
    <3>1. i + 1 < j + 1
      BY <1>2
    <3> QED
      BY <1>2, <2>1, <3>1 DEF Orders, StrandInOrder
  <2>4. OpsBeforeStrand'
    <3> SUFFICES ASSUME NEW i \in 1..Len(ops'), NEW j \in 1..Len(strand'),
                        ops'[i] \in Unstarted, strand'[j] \in Unstarted
                 PROVE  frame[ops'[i]] < frame[strand'[j]]
      BY <1>1, <1>4 DEF OpsBeforeStrand
    <3>2. CASE i \in 1..Len(ops)
      BY <1>2, <1>3, <2>1, <3>2 DEF Orders, OpsBeforeStrand
    <3>3. CASE i = Len(ops) + 1
      BY <1>2, <1>3, <2>1, <3>3 DEF Orders, StrandInOrder
    <3> QED
      BY <1>3, <3>2, <3>3
  <2>5. UnstartedLater'
    BY <1>1, <1>4, <2>1 DEF Orders, UnstartedLater
  <2> QED
    BY <2>2, <2>3, <2>4, <2>5 DEF Orders
<1> QED
  BY <1>1, <1>5, <1>6 DEF StartInv

LEMMA StartReturn ==
    ASSUME TypeOK, Queues, StartInv, Return
    PROVE  StartInv'
<1>1. /\ strand # <<>> /\ strand' = Tail(strand) /\ frame' = [frame EXCEPT ![Head(strand)] = 0]
      /\ UNCHANGED <<frames, ops, wire, alive>>
  BY DEF Return
<1>2. /\ strand[1] = Head(strand) /\ strand[1] \in Coroutine /\ 1 \in 1..Len(strand)
      /\ Len(strand) \in Nat
      /\ \A i \in 1..Len(strand') : /\ i \in Nat /\ i + 1 \in 1..Len(strand) /\ i + 1 > 1
                                    /\ strand'[i] = strand[i + 1]
                                    /\ strand'[i] # strand[1] /\ strand'[i] \in Coroutine
  BY <1>1, StrandRest
<1>3. frame'[strand[1]] = 0 /\ \A w \in Coroutine : w # strand[1] => frame'[w] = frame[w]
  BY <1>1, <1>2 DEF TypeOK
<1>4. \A i \in 1..Len(ops) : ops[i] # strand[1] /\ ops[i] \in Coroutine
  BY <1>2, ElementOfSeq DEF Queues, Apart, TypeOK
<1>5. \A w \in Coroutine : w # strand[1] => (w \in Unstarted' <=> w \in Unstarted)
  BY <1>1, <1>3 DEF Unstarted
<1>6. CallsKnown'
  <2>1. ASSUME NEW w \in Coroutine PROVE frame'[w] <= frames
    <3>1. CASE w = strand[1]
      BY <1>3, <3>1 DEF TypeOK
    <3>2. CASE w # strand[1]
      BY <1>3, <3>2 DEF StartInv, CallsKnown
    <3> QED
      BY <3>1, <3>2
  <2> QED
    BY <1>1, <2>1 DEF StartInv, CallsKnown
<1>7. StartInCallOrder'
  BY <1>1 DEF StartInv, StartInCallOrder
<1>8. ASSUME alive PROVE Orders'
  <2>1. Orders
    BY <1>8 DEF StartInv
  <2>2. OpsInOrder'
    BY <1>1, <1>3, <1>4, <1>5, <2>1 DEF Orders, OpsInOrder
  <2>3. StrandInOrder'
    <3> SUFFICES ASSUME NEW i \in 1..Len(strand'), NEW j \in 1..Len(strand'), i < j,
                        strand'[i] \in Unstarted', strand'[j] \in Unstarted'
                 PROVE  frame'[strand'[i]] < frame'[strand'[j]]
      BY DEF StrandInOrder
    <3>1. i + 1 < j + 1
      BY <1>2
    <3> QED
      BY <1>2, <1>3, <1>5, <2>1, <3>1 DEF Orders, StrandInOrder
  <2>4. OpsBeforeStrand'
    BY <1>1, <1>2, <1>3, <1>4, <1>5, <2>1 DEF Orders, OpsBeforeStrand
  <2>5. UnstartedLater'
    <3> SUFFICES ASSUME NEW v \in Unstarted', frame'[v] # 0, NEW k \in 1..Len(wire)
                 PROVE  wire[k] < frame'[v]
      BY <1>1 DEF UnstartedLater
    <3>1. v \in Coroutine /\ v # strand[1]
      BY <1>3 DEF Unstarted
    <3> QED
      BY <1>3, <1>5, <2>1, <3>1 DEF Orders, UnstartedLater
  <2> QED
    BY <2>2, <2>3, <2>4, <2>5 DEF Orders
<1> QED
  BY <1>1, <1>6, <1>7, <1>8 DEF StartInv

\* The operations without the oldest.
LEMMA OpsRest ==
    ASSUME TypeOK, Queues, ops # <<>>, ops' = Tail(ops)
    PROVE  /\ ops[1] = Head(ops) /\ ops[1] \in Coroutine /\ 1 \in 1..Len(ops)
           /\ \A i \in 1..Len(ops') : /\ i \in Nat /\ i + 1 \in 1..Len(ops) /\ i + 1 > 1
                                      /\ ops'[i] = ops[i + 1] /\ ops'[i] \in Coroutine
BY Dequeue, ElementOfSeq DEF TypeOK

LEMMA StartTransfer ==
    ASSUME TypeOK, Queues, StartInv, NEW n \in 1..MaxLen, Transfer(n)
    PROVE  StartInv'
<1> DEFINE w == ops[1]
           f == frame[w]
<1>1. /\ ops # <<>> /\ alive /\ ops' = Tail(ops) /\ UNCHANGED <<frames, frame, alive>>
      /\ strand' = Append(strand, w) /\ wire' = Append(wire, f)
      /\ w \in Coroutine /\ 1 \in 1..Len(ops)
      /\ \A i \in 1..Len(ops') : /\ i \in Nat /\ i + 1 \in 1..Len(ops) /\ i + 1 > 1
                                 /\ ops'[i] = ops[i + 1] /\ ops'[i] \in Coroutine
  BY OpsRest DEF Transfer
<1>2. f \in Nat /\ f # 0 /\ f <= frames /\ frames \in Nat
  BY <1>1 DEF TypeOK, Queues, QueuedWrite, StartInv, CallsKnown
<1> HIDE DEF w, f
<1>3. /\ Len(wire) \in Nat /\ Len(wire') = Len(wire) + 1
      /\ DOMAIN wire = 1..Len(wire) /\ DOMAIN wire' = 1..Len(wire')
  BY <1>1, <1>2, PieceAppended DEF TypeOK
<1>4. /\ \A k \in 1..Len(wire) : k \in 1..Len(wire') /\ wire'[k] = wire[k] /\ wire[k] \in Nat
      /\ Len(wire) + 1 \in 1..Len(wire') /\ wire'[Len(wire) + 1] = f
      /\ \A k \in 1..Len(wire') : k \in 1..Len(wire) \/ k = Len(wire) + 1
  BY <1>1, <1>2, PieceAppended DEF TypeOK
<1>5. \A v \in Unstarted' : v \in Unstarted /\ frame[v] # f /\ v # w /\ v \in Coroutine
  BY <1>1, <1>4 DEF Unstarted, f
<1>6. Orders
  BY <1>1 DEF StartInv
<1>7. CallsKnown'
  BY <1>1, <1>2, <1>4 DEF StartInv, CallsKnown
<1>8. StartInCallOrder'
  <2> SUFFICES ASSUME NEW j \in DOMAIN wire', \A i \in 1..(j - 1) : wire'[i] # wire'[j],
                      NEW i \in 1..(j - 1)
               PROVE  wire'[i] < wire'[j]
    BY DEF StartInCallOrder
  <2>1. j \in Nat /\ (j <= Len(wire) \/ j = Len(wire) + 1)
    BY <1>3
  <2>2. CASE j <= Len(wire)
    <3>1. /\ j \in 1..Len(wire) /\ j \in DOMAIN wire /\ i \in 1..Len(wire)
          /\ \A k \in 1..(j - 1) : k \in 1..Len(wire)
      BY <1>3, <2>2
    <3>2. \A k \in 1..(j - 1) : wire[k] # wire[j]
      BY <1>4, <3>1
    <3> QED
      BY <1>4, <3>1, <3>2 DEF StartInv, StartInCallOrder
  <2>3. CASE j = Len(wire) + 1
    <3>1. i \in 1..Len(wire) /\ \A k \in 1..Len(wire) : k \in 1..(j - 1)
      BY <1>3, <2>3
    <3>2. \A k \in 1..Len(wire) : wire[k] # f
      BY <1>4, <2>3, <3>1
    <3>3. w \in Unstarted
      BY <1>1, <3>2 DEF Unstarted, f
    <3>4. \A k \in 1..Len(wire) : wire[k] < f
      BY <1>2, <1>6, <3>3 DEF Orders, UnstartedLater, f
    <3> QED
      BY <1>4, <2>3, <3>1, <3>4
  <2> QED
    BY <2>1, <2>2, <2>3
<1>9. OpsInOrder'
  <2> SUFFICES ASSUME NEW i \in 1..Len(ops'), NEW j \in 1..Len(ops'), i < j,
                      ops'[i] \in Unstarted', ops'[j] \in Unstarted'
               PROVE  frame[ops'[i]] < frame[ops'[j]]
    BY <1>1 DEF OpsInOrder
  <2>1. i + 1 < j + 1
    BY <1>1
  <2> QED
    BY <1>1, <1>5, <1>6, <2>1 DEF Orders, OpsInOrder
<1>10. /\ Len(strand) \in Nat /\ Len(strand') = Len(strand) + 1
       /\ \A i \in 1..Len(strand) : strand'[i] = strand[i]
       /\ strand'[Len(strand) + 1] = w
  BY <1>1, Enqueue DEF TypeOK
<1>11. \A i \in 1..Len(strand') :
          strand'[i] \in Unstarted' => i \in 1..Len(strand) /\ strand'[i] = strand[i]
  <2> SUFFICES ASSUME NEW i \in 1..Len(strand'), strand'[i] \in Unstarted'
               PROVE  i \in 1..Len(strand) /\ strand'[i] = strand[i]
    OBVIOUS
  <2>1. i # Len(strand) + 1
    BY <1>5, <1>10
  <2> QED
    BY <1>10, <2>1
<1>12. StrandInOrder'
  BY <1>1, <1>5, <1>6, <1>11 DEF Orders, StrandInOrder
<1>13. OpsBeforeStrand'
  <2> SUFFICES ASSUME NEW i \in 1..Len(ops'), NEW j \in 1..Len(strand'),
                      ops'[i] \in Unstarted', strand'[j] \in Unstarted'
               PROVE  frame[ops'[i]] < frame[strand'[j]]
    BY <1>1 DEF OpsBeforeStrand
  <2>1. j \in 1..Len(strand) /\ strand'[j] = strand[j] /\ strand[j] \in Unstarted
    BY <1>5, <1>11
  <2>2. i + 1 \in 1..Len(ops) /\ ops'[i] = ops[i + 1] /\ ops[i + 1] \in Unstarted
    BY <1>1, <1>5
  <2> QED
    BY <1>6, <2>1, <2>2 DEF Orders, OpsBeforeStrand
<1>14. UnstartedLater'
  <2> SUFFICES ASSUME NEW v \in Unstarted', frame[v] # 0, NEW k \in 1..Len(wire')
               PROVE  wire'[k] < frame[v]
    BY <1>1 DEF UnstartedLater
  <2>1. v \in Unstarted /\ v \in Coroutine /\ v # w
    BY <1>5
  <2>2. \A m \in 1..Len(wire) : wire[m] < frame[v]
    BY <1>6, <2>1 DEF Orders, UnstartedLater
  <2>3. f < frame[v]
    <3>1. CASE w \notin Unstarted
      BY <1>1, <2>2, <3>1 DEF Unstarted, f
    <3>2. CASE w \in Unstarted
      <4>1. ASSUME NEW j \in 1..Len(strand), strand[j] = v PROVE f < frame[v]
        BY <1>1, <1>6, <2>1, <3>2, <4>1 DEF Orders, OpsBeforeStrand, w, f
      <4>2. ASSUME NEW j \in 1..Len(ops), ops[j] = v PROVE f < frame[v]
        <5>1. 1 < j
          BY <2>1, <4>2, LenProperties DEF w, TypeOK
        <5> QED
          BY <1>1, <1>6, <2>1, <3>2, <4>2, <5>1 DEF Orders, OpsInOrder, w, f
      <4> QED
        BY <2>1, <4>1, <4>2 DEF Queues, WritingQueued
    <3> QED
      BY <3>1, <3>2
  <2> QED
    BY <1>4, <2>2, <2>3
<1> QED
  BY <1>7, <1>8, <1>9, <1>12, <1>13, <1>14 DEF StartInv, Orders

LEMMA StartStep == TypeOK /\ Queues /\ StartInv /\ [Next]_vars => StartInv'
<1> SUFFICES ASSUME TypeOK, Queues, StartInv, [Next]_vars PROVE StartInv'
  OBVIOUS
<1>1. ASSUME NEW w \in Coroutine, NEW len \in 1..MaxLen, Call(w, len) PROVE StartInv'
  BY <1>1, StartCall
<1>2. CASE Start
  BY <1>2, StartStart
<1>3. CASE Return
  BY <1>3, StartReturn
<1>4. ASSUME NEW n \in 1..MaxLen, Transfer(n) PROVE StartInv'
  BY <1>4, StartTransfer
<1>5. CASE TransferFail \/ Lose
  BY <1>5 DEF TransferFail, Lose, StartInv, CallsKnown, StartInCallOrder
<1>6. CASE UNCHANGED vars
  BY <1>6 DEF vars, StartInv, CallsKnown, StartInCallOrder, Orders, OpsInOrder, StrandInOrder,
              OpsBeforeStrand, UnstartedLater, Unstarted
<1> QED
  BY <1>1, <1>2, <1>3, <1>4, <1>5, <1>6 DEF Next

LEMMA StartInit == Init => StartInv
<1>1. Init => Len(wire) = 0 /\ Len(ops) = 0 /\ Len(strand) = 0 /\ DOMAIN wire = {}
  BY DEF Init
<1> QED
  BY <1>1 DEF Init, StartInv, CallsKnown, StartInCallOrder, Orders, OpsInOrder, StrandInOrder,
              OpsBeforeStrand, UnstartedLater

\* Frames start on the wire in the order of the aconn_write calls, whatever the
\* kernel accepts at a time and also when the connection is lost under writes.
THEOREM StartsInCallOrder == Spec => []StartInCallOrder
<1>1. StartInv => StartInCallOrder
  BY DEF StartInv
<1> QED
  BY <1>1, StartInit, StartStep, QueuesAlways, PTL DEF Spec

-----------------------------------------------------------------------------
(* How frames take turns *)

FramesApart == \A v, w \in Coroutine : frame[v] = frame[w] /\ frame[v] # 0 => v = w

\* v is before w in the operations followed by the strand.  Starting an
\* operation changes nothing in this order.
Ahead(v, w) ==
    \/ \E i, j \in 1..Len(ops) : i < j /\ ops[i] = v /\ ops[j] = w
    \/ \E i \in 1..Len(ops), j \in 1..Len(strand) : ops[i] = v /\ strand[j] = w
    \/ \E i, j \in 1..Len(strand) : i < j /\ strand[i] = v /\ strand[j] = w

\* Between two pieces of another frame that come after the first piece of a
\* frame under way there is a piece of this frame.
NoneTwice ==
    \A w \in Coroutine : \A h, i, j \in 1..Len(wire) :
        /\ frame[w] # 0 /\ wire[h] = frame[w]
        /\ h < i /\ i < j /\ wire[i] = wire[j] /\ wire[i] # frame[w]
        => \E m \in i..j : wire[m] = frame[w]

\* A writer that was overtaken since its last piece is before the one that
\* overtook it.
OvertakenAhead ==
    \A v, w \in Coroutine : \A h, i \in 1..Len(wire) :
        /\ v # w /\ frame[v] # 0 /\ frame[w] # 0
        /\ h < i /\ wire[h] = frame[v] /\ wire[i] = frame[w]
        /\ \A m \in i..Len(wire) : wire[m] # frame[v]
        => Ahead(v, w)

\* A failed operation breaks the order, when nothing is put on the wire any
\* more.
TurnsInv == FramesApart /\ NoneTwice /\ FramesTakeTurns /\ (alive => OvertakenAhead)

\* Nobody is before the oldest operation.
LEMMA NoneAheadOfHead ==
    ASSUME TypeOK, Queues, ops # <<>>, NEW v
    PROVE  ~Ahead(v, ops[1])
<1>1. 1 \in 1..Len(ops) /\ Len(ops) \in Nat
  BY Dequeue DEF TypeOK
<1>2. \A j \in 1..Len(ops) : ops[j] = ops[1] => j = 1
  BY <1>1 DEF Queues, Distinct
<1>3. \A j \in 1..Len(strand) : strand[j] # ops[1]
  BY <1>1 DEF Queues, Apart
<1> QED
  BY <1>1, <1>2, <1>3 DEF Ahead

\* The oldest operation goes to the end of the strand: it is behind everybody,
\* and nobody else changes places.
LEMMA AheadRequeued ==
    ASSUME TypeOK, Queues, ops # <<>>, ops' = Tail(ops), strand' = Append(strand, Head(ops)),
           NEW x \in Coroutine, x = ops[1], NEW v \in Coroutine, frame[v] # 0, v # x
    PROVE  /\ Ahead(v, x)'
           /\ \A w \in Coroutine : Ahead(v, w) => Ahead(v, w)'
<1>1. /\ Head(ops) = ops[1] /\ Head(ops) \in Coroutine
      /\ Len(ops) \in Nat /\ Len(ops') \in Nat
      /\ \A i \in 1..Len(ops) : i = 1 \/ (i - 1 \in 1..Len(ops') /\ ops'[i - 1] = ops[i])
  BY Dequeue DEF TypeOK
<1>2. /\ Len(strand) \in Nat /\ Len(strand') = Len(strand) + 1
      /\ \A i \in 1..Len(strand) : i \in 1..Len(strand') /\ strand'[i] = strand[i]
      /\ Len(strand) + 1 \in 1..Len(strand') /\ strand'[Len(strand) + 1] = ops[1]
  BY <1>1, Enqueue DEF TypeOK
<1>3. \/ \E i \in 1..Len(ops') : ops'[i] = v
      \/ \E i \in 1..Len(strand') : i < Len(strand) + 1 /\ strand'[i] = v
  <2>1. CASE \E i \in 1..Len(strand) : strand[i] = v
    BY <1>2, <2>1
  <2>2. CASE \E i \in 1..Len(ops) : ops[i] = v
    BY <1>1, <2>2
  <2> QED
    BY <2>1, <2>2 DEF Queues, WritingQueued
<1>4. Ahead(v, x)'
  BY <1>2, <1>3 DEF Ahead
<1>5. ASSUME NEW w \in Coroutine, Ahead(v, w) PROVE Ahead(v, w)'
  <2>1. ASSUME NEW i \in 1..Len(ops), NEW j \in 1..Len(ops), i < j, ops[i] = v, ops[j] = w
        PROVE  Ahead(v, w)'
    <3>1. i # 1 /\ j # 1 /\ i - 1 < j - 1
      BY <1>1, <2>1
    <3> QED
      BY <1>1, <2>1, <3>1 DEF Ahead
  <2>2. ASSUME NEW i \in 1..Len(ops), NEW j \in 1..Len(strand), ops[i] = v, strand[j] = w
        PROVE  Ahead(v, w)'
    <3>1. i # 1
      BY <2>2
    <3> QED
      BY <1>1, <1>2, <2>2, <3>1 DEF Ahead
  <2>3. ASSUME NEW i \in 1..Len(strand), NEW j \in 1..Len(strand), i < j,
               strand[i] = v, strand[j] = w
        PROVE  Ahead(v, w)'
    BY <1>2, <2>3 DEF Ahead
  <2> QED
    BY <1>5, <2>1, <2>2, <2>3 DEF Ahead
<1> QED
  BY <1>4, <1>5

\* The other changes of the queues leave everybody in place too: a call goes to
\* the end, the head of the strand is started, or returns.
LEMMA AheadKept ==
    ASSUME TypeOK, Queues,
           \/ \E x \in Coroutine : strand' = Append(strand, x) /\ UNCHANGED ops
           \/ strand # <<>> /\ strand' = Tail(strand) /\ ops' = Append(ops, Head(strand))
           \/ /\ strand # <<>> /\ strand' = Tail(strand) /\ UNCHANGED ops
              /\ frame'[strand[1]] = 0
           \/ UNCHANGED <<strand, ops>>,
           NEW v \in Coroutine, NEW w \in Coroutine, Ahead(v, w),
           frame'[v] # 0, frame'[w] # 0
    PROVE  Ahead(v, w)'
<1>1. ASSUME NEW x \in Coroutine, strand' = Append(strand, x), UNCHANGED ops
      PROVE  Ahead(v, w)'
  <2>1. \A i \in 1..Len(strand) : i \in 1..Len(strand') /\ strand'[i] = strand[i]
    BY <1>1, Enqueue DEF TypeOK
  <2> QED
    BY <1>1, <2>1 DEF Ahead
<1>2. ASSUME strand # <<>>, strand' = Tail(strand)
      PROVE  /\ Head(strand) = strand[1] /\ Head(strand) \in Coroutine /\ Len(strand) \in Nat
             /\ \A i \in 1..Len(strand) :
                   i = 1 \/ (i - 1 \in 1..Len(strand') /\ strand'[i - 1] = strand[i])
  BY <1>2, Dequeue DEF TypeOK
<1>3. CASE strand # <<>> /\ strand' = Tail(strand) /\ ops' = Append(ops, Head(strand))
  <2>1. /\ Len(ops) \in Nat
        /\ \A i \in 1..Len(ops) : i \in 1..Len(ops') /\ ops'[i] = ops[i] /\ i < Len(ops) + 1
        /\ Len(ops) + 1 \in 1..Len(ops') /\ ops'[Len(ops) + 1] = strand[1]
    <3>1. Head(strand) \in Coroutine /\ Head(strand) = strand[1] /\ ops \in Seq(Coroutine)
      BY <1>2, <1>3 DEF TypeOK
    <3>2. /\ Len(ops) \in Nat /\ Len(ops') = Len(ops) + 1
          /\ \A i \in 1..Len(ops) : ops'[i] = ops[i]
          /\ ops'[Len(ops) + 1] = Head(strand)
      BY <1>3, <3>1, Enqueue
    <3> QED
      BY <3>1, <3>2
  <2>2. ASSUME NEW i \in 1..Len(ops), NEW j \in 1..Len(ops), i < j, ops[i] = v, ops[j] = w
        PROVE  Ahead(v, w)'
    BY <2>1, <2>2 DEF Ahead
  <2>3. ASSUME NEW i \in 1..Len(ops), NEW j \in 1..Len(strand), ops[i] = v, strand[j] = w
        PROVE  Ahead(v, w)'
    <3>1. CASE j = 1
      BY <2>1, <2>3, <3>1 DEF Ahead
    <3>2. CASE j # 1
      BY <1>2, <1>3, <2>1, <2>3, <3>2 DEF Ahead
    <3> QED
      BY <3>1, <3>2
  <2>4. ASSUME NEW i \in 1..Len(strand), NEW j \in 1..Len(strand), i < j,
               strand[i] = v, strand[j] = w
        PROVE  Ahead(v, w)'
    <3>1. j # 1 /\ (i # 1 => i - 1 < j - 1)
      BY <2>4
    <3>2. j - 1 \in 1..Len(strand') /\ strand'[j - 1] = w
      BY <1>2, <1>3, <2>4, <3>1
    <3>3. CASE i = 1
      BY <2>1, <2>4, <3>2, <3>3 DEF Ahead
    <3>4. CASE i # 1
      <4>1. i - 1 \in 1..Len(strand') /\ strand'[i - 1] = v
        BY <1>2, <1>3, <2>4, <3>4
      <4> QED
        BY <3>1, <3>2, <3>4, <4>1 DEF Ahead
    <3> QED
      BY <3>3, <3>4
  <2> QED
    BY <2>2, <2>3, <2>4 DEF Ahead
<1>4. CASE /\ strand # <<>> /\ strand' = Tail(strand) /\ UNCHANGED ops
           /\ frame'[strand[1]] = 0
  <2>1. v # strand[1] /\ w # strand[1]
    BY <1>4
  <2>2. ASSUME NEW i \in 1..Len(ops), NEW j \in 1..Len(ops), i < j, ops[i] = v, ops[j] = w
        PROVE  Ahead(v, w)'
    BY <1>4, <2>2 DEF Ahead
  <2>3. ASSUME NEW i \in 1..Len(ops), NEW j \in 1..Len(strand), ops[i] = v, strand[j] = w
        PROVE  Ahead(v, w)'
    <3>1. j - 1 \in 1..Len(strand') /\ strand'[j - 1] = w
      BY <1>2, <1>4, <2>1, <2>3
    <3> QED
      BY <1>4, <2>3, <3>1 DEF Ahead
  <2>4. ASSUME NEW i \in 1..Len(strand), NEW j \in 1..Len(strand), i < j,
               strand[i] = v, strand[j] = w
        PROVE  Ahead(v, w)'
    <3>1. /\ i - 1 \in 1..Len(strand') /\ strand'[i - 1] = v
          /\ j - 1 \in 1..Len(strand') /\ strand'[j - 1] = w
          /\ i - 1 < j - 1
      BY <1>2, <1>4, <2>1, <2>4
    <3> QED
      BY <3>1 DEF Ahead
  <2> QED
    BY <2>2, <2>3, <2>4 DEF Ahead
<1>5. CASE UNCHANGED <<strand, ops>>
  BY <1>5 DEF Ahead
<1> QED
  BY <1>1, <1>3, <1>4, <1>5

LEMMA TurnsTransfer ==
    ASSUME TypeOK, Queues, TurnsInv, NEW n \in 1..MaxLen, Transfer(n)
    PROVE  TurnsInv'
<1> PICK x : x = ops[1]
  OBVIOUS
<1> PICK f : f = frame[x]
  OBVIOUS
<1>1. /\ ops # <<>> /\ alive /\ ops' = Tail(ops) /\ UNCHANGED <<frame, alive>>
      /\ strand' = Append(strand, Head(ops)) /\ wire' = Append(wire, f)
      /\ x \in Coroutine /\ 1 \in 1..Len(ops)
  BY OpsRest DEF Transfer
<1>2. f \in Nat /\ f # 0
  BY <1>1 DEF TypeOK, Queues, QueuedWrite
<1> DEFINE L == Len(wire)
<1>3. /\ L \in Nat /\ Len(wire') = L + 1
      /\ DOMAIN wire = 1..L /\ DOMAIN wire' = 1..Len(wire')
      /\ \A k \in 1..L : k \in 1..Len(wire') /\ wire'[k] = wire[k]
      /\ L + 1 \in 1..Len(wire') /\ wire'[L + 1] = f
      /\ \A k \in 1..Len(wire') : k \in 1..L \/ k = L + 1
  BY <1>1, <1>2, PieceAppended DEF TypeOK
<1> HIDE DEF L
<1>4. /\ FramesApart /\ NoneTwice /\ FramesTakeTurns /\ OvertakenAhead
      /\ \A v \in Coroutine : v # x /\ frame[v] # 0 => frame[v] # f
  BY <1>1, <1>2 DEF TurnsInv, FramesApart
<1>5. /\ \A v \in Coroutine : ~Ahead(v, x)
      /\ \A v \in Coroutine : frame[v] # 0 /\ v # x =>
            /\ Ahead(v, x)'
            /\ \A w \in Coroutine : Ahead(v, w) => Ahead(v, w)'
  BY <1>1, NoneAheadOfHead, AheadRequeued
<1>6. FramesApart'
  BY <1>1, <1>4 DEF FramesApart
<1>u. frame' = frame
  BY <1>1
<1>7. NoneTwice'
  <2> SUFFICES ASSUME NEW w \in Coroutine, NEW h \in 1..Len(wire'), NEW i \in 1..Len(wire'),
                      NEW j \in 1..Len(wire'), frame[w] # 0, wire'[h] = frame[w],
                      h < i, i < j, wire'[i] = wire'[j], wire'[i] # frame[w]
               PROVE  \E m \in i..j : wire'[m] = frame[w]
    BY <1>u DEF NoneTwice
  <2>1. h \in 1..L /\ i \in 1..L /\ wire[h] = frame[w] /\ wire[i] = wire'[j]
    BY <1>3
  <2>2. CASE j \in 1..L
    <3>1. PICK m \in i..j : wire[m] = frame[w]
      BY <1>3, <1>4, <2>1, <2>2 DEF NoneTwice, L
    <3>2. m \in 1..L
      BY <1>3, <2>1, <2>2
    <3> QED
      BY <1>3, <3>1, <3>2
  <2>3. CASE j = L + 1
    <3>1. wire[i] = f /\ w # x
      BY <1>3, <2>1, <2>3
    <3>a. frame[x] = f /\ ~Ahead(w, x) /\ OvertakenAhead
      BY <1>4, <1>5
    <3>2. PICK m \in i..L : wire[m] = frame[w]
      BY <1>1, <1>2, <2>1, <3>1, <3>a DEF OvertakenAhead, L
    <3>3. m \in 1..L /\ m \in i..j
      BY <1>3, <2>1, <2>3
    <3> QED
      BY <1>3, <3>2, <3>3
  <2> QED
    BY <1>3, <2>2, <2>3
<1>8. FramesTakeTurns'
  <2> SUFFICES ASSUME NEW h \in 1..Len(wire'), NEW i \in 1..Len(wire'), NEW j \in 1..Len(wire'),
                      NEW k \in 1..Len(wire'), h < i, i < j, j < k,
                      wire'[h] = wire'[k], wire'[i] = wire'[j], wire'[h] # wire'[i]
               PROVE  \E m \in i..j : wire'[m] = wire'[h]
    BY <1>3 DEF FramesTakeTurns
  <2>1. /\ h \in 1..L /\ i \in 1..L /\ j \in 1..L
        /\ wire'[h] = wire[h] /\ wire[i] = wire[j] /\ wire[h] = wire'[k] /\ wire[h] # wire[i]
    BY <1>3
  <2>2. \E m \in i..j : wire[m] = wire[h]
    <3>1. CASE k \in 1..L
      <4>1. /\ {h, i, j, k} \subseteq DOMAIN wire /\ wire[h] = wire[k]
            /\ FramesTakeTurns
        BY <1>3, <1>4, <2>1, <3>1
      <4> QED
        BY <2>1, <4>1 DEF FramesTakeTurns
    <3>2. CASE k = L + 1
      <4>0. wire[h] = f
        BY <1>3, <2>1, <3>2
      <4>1. /\ wire[h] = frame[x] /\ wire[i] # frame[x] /\ frame[x] # 0 /\ x \in Coroutine
            /\ NoneTwice
        BY <1>1, <1>2, <1>4, <2>1, <4>0
      <4>2. \E m \in i..j : wire[m] = frame[x]
        BY <2>1, <4>1 DEF NoneTwice, L
      <4> QED
        BY <4>1, <4>2
    <3> QED
      BY <1>3, <3>1, <3>2
  <2>3. \A m \in i..j : m \in 1..L
    BY <1>3, <2>1
  <2> QED
    BY <1>3, <2>1, <2>2, <2>3
<1>9. OvertakenAhead'
  <2> SUFFICES ASSUME NEW v \in Coroutine, NEW w \in Coroutine, NEW h \in 1..Len(wire'),
                      NEW i \in 1..Len(wire'), v # w, frame[v] # 0, frame[w] # 0, h < i,
                      wire'[h] = frame[v], wire'[i] = frame[w],
                      \A m \in i..Len(wire') : wire'[m] # frame[v]
               PROVE  Ahead(v, w)'
    BY <1>u DEF OvertakenAhead
  <2>1. v # x /\ h \in 1..L
    <3>1. L + 1 \in i..Len(wire')
      BY <1>3
    <3> QED
      BY <1>3, <3>1
  <2>2. CASE w = x
    BY <1>5, <2>1, <2>2
  <2>3. CASE w # x
    <3>1. i \in 1..L /\ wire[i] = frame[w] /\ wire[h] = frame[v]
      BY <1>3, <1>4, <2>1, <2>3
    <3>2. \A m \in i..L : wire[m] # frame[v]
      <4>1. \A m \in i..L : m \in 1..L /\ m \in i..Len(wire')
        BY <1>3, <3>1
      <4> QED
        BY <1>3, <4>1
    <3>3. Ahead(v, w)
      BY <1>4, <2>1, <3>1, <3>2 DEF OvertakenAhead, L
    <3> QED
      BY <1>5, <2>1, <3>3
  <2> QED
    BY <2>2, <2>3
<1> QED
  BY <1>6, <1>7, <1>8, <1>9 DEF TurnsInv

\* A step that puts nothing on the wire and hands no frame over that has begun.
LEMMA TurnsSilent ==
    ASSUME TypeOK, Queues, TurnsInv, UNCHANGED wire, FramesApart', alive' => alive,
           \A v \in Coroutine :
              \/ frame'[v] = frame[v]
              \/ frame'[v] = 0
              \/ \A k \in 1..Len(wire) : wire[k] # frame'[v],
           alive' => \A v, w \in Coroutine :
              frame'[v] # 0 /\ frame'[w] # 0 /\ Ahead(v, w) => Ahead(v, w)'
    PROVE  TurnsInv'
<1>1. FramesTakeTurns'
  BY DEF TurnsInv, FramesTakeTurns
<1>2. NoneTwice'
  BY DEF TurnsInv, NoneTwice
<1>3. ASSUME alive' PROVE OvertakenAhead'
  <2> SUFFICES ASSUME NEW v \in Coroutine, NEW w \in Coroutine, NEW h \in 1..Len(wire),
                      NEW i \in 1..Len(wire), v # w, frame'[v] # 0, frame'[w] # 0, h < i,
                      wire[h] = frame'[v], wire[i] = frame'[w],
                      \A m \in i..Len(wire) : wire[m] # frame'[v]
               PROVE  Ahead(v, w)'
    BY DEF OvertakenAhead
  <2>1. frame'[v] = frame[v] /\ frame'[w] = frame[w]
    OBVIOUS
  <2>2. Ahead(v, w)
    BY <1>3, <2>1 DEF TurnsInv, OvertakenAhead
  <2> QED
    BY <1>3, <2>2
<1> QED
  BY <1>1, <1>2, <1>3 DEF TurnsInv

LEMMA TurnsStep == TypeOK /\ Queues /\ CallsKnown /\ TurnsInv /\ [Next]_vars => TurnsInv'
<1> SUFFICES ASSUME TypeOK, Queues, CallsKnown, TurnsInv, [Next]_vars PROVE TurnsInv'
  OBVIOUS
<1>t. /\ frames \in Nat /\ frame \in [Coroutine -> Nat]
      /\ \A v \in Coroutine : frame[v] \in Nat
  BY DEF TypeOK
<1>1. ASSUME NEW w \in Coroutine, NEW len \in 1..MaxLen, Call(w, len) PROVE TurnsInv'
  <2>1. /\ UNCHANGED <<wire, ops, alive>> /\ strand' = Append(strand, w)
        /\ frame'[w] = frames + 1
        /\ \A v \in Coroutine : v # w => frame'[v] = frame[v]
    BY <1>1, <1>t DEF Call
  <2>2. \A v \in Coroutine : v # w => frame'[v] # frames + 1
    BY <1>t, <2>1 DEF CallsKnown
  <2>3. FramesApart'
    BY <2>1, <2>2 DEF TurnsInv, FramesApart
  <2>4. \A k \in 1..Len(wire) : wire[k] # frames + 1
    <3>1. \A k \in 1..Len(wire) : wire[k] \in Nat
      BY ElementOfSeq DEF TypeOK
    <3> QED
      BY <1>t, <3>1 DEF CallsKnown
  <2>5. \A u, v \in Coroutine :
           frame'[u] # 0 /\ frame'[v] # 0 /\ Ahead(u, v) => Ahead(u, v)'
    BY <2>1, AheadKept
  <2> QED
    BY <2>1, <2>3, <2>4, <2>5, TurnsSilent
<1>2. CASE Return
  <2>1. strand # <<>> /\ Head(strand) \in Coroutine /\ Head(strand) = strand[1]
    BY <1>2, Dequeue DEF Return, TypeOK
  <2>2. /\ UNCHANGED <<wire, ops, alive>> /\ strand' = Tail(strand) /\ frame'[strand[1]] = 0
        /\ \A v \in Coroutine : v # strand[1] => frame'[v] = frame[v]
    BY <1>2, <1>t, <2>1 DEF Return
  <2>3. FramesApart'
    BY <2>2 DEF TurnsInv, FramesApart
  <2>4. \A u, v \in Coroutine :
           frame'[u] # 0 /\ frame'[v] # 0 /\ Ahead(u, v) => Ahead(u, v)'
    BY <2>1, <2>2, AheadKept
  <2> QED
    BY <2>2, <2>3, <2>4, TurnsSilent
<1>3. CASE Start
  <2>1. /\ UNCHANGED <<wire, frame, alive>> /\ strand # <<>> /\ strand' = Tail(strand)
        /\ ops' = Append(ops, Head(strand))
    BY <1>3 DEF Start
  <2>2. FramesApart'
    BY <2>1 DEF TurnsInv, FramesApart
  <2>3. \A u, v \in Coroutine :
           frame'[u] # 0 /\ frame'[v] # 0 /\ Ahead(u, v) => Ahead(u, v)'
    BY <2>1, AheadKept
  <2> QED
    BY <2>1, <2>2, <2>3, TurnsSilent
<1>4. ASSUME NEW n \in 1..MaxLen, Transfer(n) PROVE TurnsInv'
  BY <1>4, TurnsTransfer
<1>5. CASE TransferFail \/ Lose
  <2>1. UNCHANGED <<wire, frame>> /\ ~alive'
    BY <1>5 DEF TransferFail, Lose
  <2>2. FramesApart'
    BY <2>1 DEF TurnsInv, FramesApart
  <2> QED
    BY <2>1, <2>2, TurnsSilent
<1>6. CASE UNCHANGED vars
  BY <1>6 DEF vars, TurnsInv, FramesApart, NoneTwice, FramesTakeTurns, OvertakenAhead, Ahead
<1> QED
  BY <1>1, <1>2, <1>3, <1>4, <1>5, <1>6 DEF Next

\* Once a frame has begun, no other frame gets two pieces in before its next
\* one, whatever the kernel takes at a time, however long the frames are and
\* also when the connection is lost.
THEOREM FramesTurnByTurn == Spec => []FramesTakeTurns
<1>1. Init => TurnsInv
  <2>1. Init => Len(wire) = 0 /\ DOMAIN wire = {}
    BY DEF Init
  <2> QED
    BY <2>1 DEF Init, TurnsInv, FramesApart, NoneTwice, FramesTakeTurns, OvertakenAhead
<1>2. TurnsInv => FramesTakeTurns
  BY DEF TurnsInv
<1>3. StartInv => CallsKnown
  BY DEF StartInv
<1> QED
  BY <1>1, <1>2, <1>3, StartInit, StartStep, TurnsStep, QueuesAlways, PTL DEF Spec
=============================================================================
