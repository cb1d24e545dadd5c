-------------------------------- MODULE AConn --------------------------------
(***************************************************************************)
(* AConn and aconn_write: how B and C put frames on their one connection   *)
(* to A.  Every caller posts itself to the strand, builds its frame and    *)
(* starts asio's composed async_write, whose steps resume on the strand.   *)
(*                                                                         *)
(* The strand keeps two handlers from running at once.  It does not keep   *)
(* two composed writes apart: async_write hands at most MaxTransfer bytes  *)
(* (65536) to one async_write_some, waits for it, and starts the next; the *)
(* socket is non-blocking and may take fewer than it is given; it serves   *)
(* the operations in the order they were started.  A DATA frame of a full  *)
(* read buffer has 65536 + 41 bytes and needs two operations in any case.  *)
(***************************************************************************)
EXTENDS Naturals, Sequences, FiniteSets, SequencesExt

CONSTANTS
    Coroutine,      \* the coroutines that call aconn_write
    MaxLen,         \* bound: units (some number of bytes) of a frame
    MaxTransfer,    \* units one async_write_some is given at most
    MaxFrames       \* bound: calls of aconn_write

ASSUME SizeAssumption == MaxLen \in Nat \ {0} /\ MaxTransfer \in Nat \ {0}
ASSUME CallAssumption == MaxFrames \in Nat

VARIABLES
    frames,         \* number of calls made; a frame is named by its call
    frame,          \* the frame a coroutine is writing; 0: none
    rest,           \* units of it that are not on the wire
    strand,         \* coroutines whose handler is queued on the strand
    ops,            \* coroutines with an async_write_some under way
    wire,           \* what each operation put on the wire: a piece of which frame
    alive           \* the connection is up

vars == <<frames, frame, rest, strand, ops, wire, alive>>

Init ==
    /\ frames = 0
    /\ frame = [w \in Coroutine |-> 0]
    /\ rest = [w \in Coroutine |-> 0]
    /\ strand = <<>>
    /\ ops = <<>>
    /\ wire = <<>>
    /\ alive = TRUE

\* Mutant: the handler goes to the head of the queue.
Call_front(w, len) ==
    /\ frame[w] = 0
    /\ frames < MaxFrames
    /\ frames' = frames + 1
    /\ frame' = [frame EXCEPT ![w] = frames + 1]
    /\ rest' = [rest EXCEPT ![w] = len]
    /\ strand' = <<w>> \o strand
    /\ UNCHANGED <<ops, wire, alive>>

\* Mutant: the caller does not await the write.
Call_notAwaited(w, len) ==
    /\ frames < MaxFrames
    /\ frames' = frames + 1
    /\ frame' = [frame EXCEPT ![w] = frames + 1]
    /\ rest' = [rest EXCEPT ![w] = len]
    /\ strand' = Append(strand, w)
    /\ UNCHANGED <<ops, wire, alive>>

\* co_await post(bind_executor(strand, ...))
Call(w, len) ==
    /\ frame[w] = 0
    /\ frames < MaxFrames
    /\ frames' = frames + 1
    /\ frame' = [frame EXCEPT ![w] = frames + 1]
    /\ rest' = [rest EXCEPT ![w] = len]
    /\ strand' = Append(strand, w)
    /\ UNCHANGED <<ops, wire, alive>>

\* The strand runs its next handler: the coroutine starts async_write, or
\* async_write continues with what is left.
Start ==
    /\ strand # <<>>
    /\ rest[Head(strand)] > 0
    /\ strand' = Tail(strand)
    /\ ops' = Append(ops, Head(strand))
    /\ UNCHANGED <<frames, frame, rest, wire, alive>>

\* Or nothing is left: aconn_write returns.
Return ==
    /\ strand # <<>>
    /\ rest[Head(strand)] = 0
    /\ strand' = Tail(strand)
    /\ frame' = [frame EXCEPT ![Head(strand)] = 0]
    /\ UNCHANGED <<frames, rest, ops, wire, alive>>

\* Mutant: a full operation even when less is left.
Transferable_full(n) == {MaxTransfer}

\* What one operation may put on the wire when n units are left: the kernel
\* takes at least one of those it is given.
Transferable(n) == 1..(IF n < MaxTransfer THEN n ELSE MaxTransfer)

\* Mutant: the handler goes to the head of the queue.
Transfer_front(n) ==
    LET w == Head(ops)
    IN  /\ ops # <<>>
        /\ alive
        /\ n \in Transferable(rest[w])
        /\ ops' = Tail(ops)
        /\ strand' = <<w>> \o strand
        /\ rest' = [rest EXCEPT ![w] = @ - n]
        /\ wire' = Append(wire, frame[w])
        /\ UNCHANGED <<frames, frame, alive>>

\* The oldest operation completes and posts its handler to the strand.
Transfer(n) ==
    LET w == Head(ops)
    IN  /\ ops # <<>>
        /\ alive
        /\ n \in Transferable(rest[w])
        /\ ops' = Tail(ops)
        /\ strand' = Append(strand, w)
        /\ rest' = [rest EXCEPT ![w] = @ - n]
        /\ wire' = Append(wire, frame[w])
        /\ UNCHANGED <<frames, frame, alive>>

\* Mutant: a failed operation is started again.
TransferFail_retries ==
    /\ ops # <<>>
    /\ ~alive
    /\ ops' = Append(Tail(ops), Head(ops))
    /\ UNCHANGED <<frames, frame, rest, strand, wire, alive>>

\* It fails: async_write gives up, and aconn_write returns without a trace of
\* the error.
TransferFail ==
    LET w == Head(ops)
    IN  /\ ops # <<>>
        /\ ~alive
        /\ ops' = Tail(ops)
        /\ strand' = Append(strand, w)
        /\ rest' = [rest EXCEPT ![w] = 0]
        /\ UNCHANGED <<frames, frame, wire, alive>>

Lose ==
    /\ alive
    /\ alive' = FALSE
    /\ UNCHANGED <<frames, frame, rest, strand, ops, wire>>

Next ==
    \/ \E w \in Coroutine, len \in 1..MaxLen : Call(w, len)
    \/ Start \/ Return
    \/ \E n \in 1..MaxLen : Transfer(n)
    \/ TransferFail \/ Lose

Spec == Init /\ [][Next]_vars

\* The executor runs queued handlers and the kernel serves the socket.
Fairness ==
    /\ WF_vars(Start \/ Return)
    /\ WF_vars(TransferFail \/ \E n \in 1..MaxLen : Transfer(n))

FairSpec == Spec /\ Fairness

-----------------------------------------------------------------------------

\* Every variable has its type.
TypeOK ==
    /\ frames \in Nat
    /\ frame \in [Coroutine -> Nat]
    /\ rest \in [Coroutine -> Nat]
    /\ strand \in Seq(Coroutine)
    /\ ops \in Seq(Coroutine)
    /\ wire \in Seq(Nat)
    /\ alive \in BOOLEAN

PiecesOf(f) == {i \in DOMAIN wire : wire[i] = f}

\* comment before AConn: the strand serialises the writes, so that the pieces
\* of a frame are contiguous on the wire.
FramesWhole ==
    \A f \in ToSet(wire) : \A i, k \in PiecesOf(f) : \A j \in i..k : wire[j] = f

\* What holds instead: frames take turns.  Once a frame has begun, another one
\* gets at most one piece in before the next piece of the first, so that no
\* writer is overtaken twice by the same frame, whatever the kernel takes.
FramesTakeTurns ==
    \A h, i, j, k \in DOMAIN wire :
        /\ h < i /\ i < j /\ j < k
        /\ wire[h] = wire[k] /\ wire[i] = wire[j] /\ wire[h] # wire[i]
        => \E m \in i..j : wire[m] = wire[h]

\* The first piece of a frame is where it is in the order of the calls: a
\* frame that was handed over later never starts earlier.
StartInCallOrder ==
    \A j \in DOMAIN wire :
        (\A i \in 1..(j - 1) : wire[i] # wire[j])
        => \A i \in 1..(j - 1) : wire[i] < wire[j]

\* A coroutine inside aconn_write is in exactly one queue, once: it is neither
\* lost nor resumed twice for one await.
OneHandlerEach ==
    /\ IsInjective(strand)
    /\ IsInjective(ops)
    /\ ToSet(strand) \intersect ToSet(ops) = {}
    /\ ToSet(strand) \union ToSet(ops) = {w \in Coroutine : frame[w] # 0}

\* Every call returns, also when the connection is lost under it.
EveryCallReturns ==
    \A w \in Coroutine : frame[w] # 0 ~> frame[w] = 0
==============================================================================
