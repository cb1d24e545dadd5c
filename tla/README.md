# msg801 in TLA+

msg801 is a C++20 / Boost.Asio network tool. Its own code is about 2200 lines:
the IDR relay (`src/lib/src/relay.cpp`), the TCP tunnel with its stream
processors (`tunnel.cpp`, `cfb.cpp`, `padding.cpp`, `processor_chain.cpp`,
`identity.cpp`), a UDP pair and a command line. Everything runs as coroutines on
one `io_context` thread: nothing runs in parallel, but every `co_await` is a
point where any other coroutine may run. The errors this code could have are
therefore errors of interleaving between awaits, of ordering on shared sockets
and of half-finished failure paths, and those are what the modules are about.

## Inventory

| Component | State | Operations | Interacts with | Hard behaviours | What makes it correct |
|---|---|---|---|---|---|
| Matcher A (`run_server`, `pump_one_way`) | `pairs[id]` with two slots and the latch `dead`; a socket per peer | accept, REGISTER, reject, READY to both, two pumps | B and C through frames; handlers and pumps through `pairs` and sockets | nothing serialises `write_frame`; peers vanish at any point; both pumps end together | one writer per socket; frames forwarded in order without a gap; one pump closes; both end |
| Visitor B (`run_visitor`) | map uuid -> `ClientSession` (half-close flags, `closed`) | accept loop, one pump per client, one reader | clients, A | iterator and reference kept across awaits; DATA_EOF of both directions cross | the client receives what the remote sent, in order, then the end; no dead session in the map |
| Provider C (`run_provider`) | map uuid -> `SessionState` (`arrival_buffer`, `remote`, flags) | main loop, one coroutine per session (connect, drain, pump) | A, remotes | two coroutines write to one remote; one exception ends the shared loop | nothing lost or duplicated on the way to the remote; refused sessions reach the client |
| `AConn`, `aconn_write` | one socket and a strand per node | post, composed write | all coroutines of B or C | a composed write is several operations; errors are swallowed | whole frames, in call order; every call returns |
| Node start (`run_node`) | none | connect, REGISTER, wait for READY | A | - | - |
| Tunnel (`run_tunnel`) | per session two sockets, `closed`, two eof flags, `done_count` | accept, connect, two read loops, statistics loop, `close_all` | client, target, processor chain | ends, errors and aborts in any order | sockets closed exactly once, never leaked; half-close and close lose no data |
| Processors: Cfb, CfbNonce, Padding, Identity, ProcessorChain | per direction IV, offset, handshake or frame buffer | pack, unpack, flush | the two read loops; the chain of the other node | streams cut at arbitrary places; two configurations that must mirror each other | two nodes back to back are a byte pipe; nothing is kept back; a wrong key lets nothing pass |
| Tunnel configuration (`build_processor_chain`) | none | check the specifications, order and roles of the processors | command line, `run_tunnel`, each session | `--reverse` and the older argument `reverse` | an invalid configuration is refused at the start |
| UDP server and sender, command line | none | receive and print, send, parse options | - | - | - |

PROJECT.json lists the same components with their status, and the hazards one by
one at the lines where they bite.

## Modules

| Module | Models | Builds on |
|---|---|---|
| `Pipe` | abstract: what one direction of a forwarded connection promises | |
| `Pipe_proofs` | a theorem about every implementation of `Pipe` | `Pipe`, `TLAPS` |
| `RelayWire` | frames and the two FIFO streams B <-> C through A, loss of a connection | |
| `RelayVisitor` | role B | `RelayWire` |
| `RelayProvider` | role C | `RelayWire` |
| `Relay` | one pair of nodes, its properties and fairness | `RelayVisitor`, `RelayProvider`, `Pipe` |
| `Relay_proofs` | theorems about the pair: types, maps, the stream from B to C, the way from a remote to its client | `Relay`, `TLAPS` |
| `RelayUp_proofs` | the theorem about the way from a client to its remote | `Relay_proofs` |
| `RelayServer` | role A | |
| `RelayServer_proofs` | theorems about role A | `RelayServer`, `TLAPS` |
| `AConn` | the strand and the composed writes of one node | |
| `AConn_proofs` | theorems about the write path | `AConn`, `TLAPS` |
| `Tunnel` | accept loop and sessions of the tunnel | |
| `Tunnel_proofs` | theorems about the tunnel | `Tunnel`, `TLAPS` |
| `Processors` | ciphers, padding, the chain and its configuration, as functions | |
| `Processors_proofs` | theorems about each processor, the two ends of one, and chains of them | `Processors`, `TLAPS` |
| `Stream` | two tunnels back to back, one direction of a session through both | `Processors`, `Pipe` |
| `Stream_proofs` | theorems about two tunnels, and that they implement `Pipe` | `Stream`, `Processors_proofs` |
| `MCRelay`, `MCRelayServer`, `MCAConn`, `MCTunnel`, `MCStream` | instances for TLC | |

An operator whose comment starts with "Mutant:" is a deliberately wrong form of
the definition that follows it. It is part of no specification; PROJECT.json says
which property fails when it takes the place of the original.

### How the modules correspond to the code

In all modules an action is what one coroutine does between two awaits, with
every change of state on that stretch. Where a coroutine awaits is the value of a
control variable (`b_pump`, `c_co`, `pump`, `loop`, ...).

*RelayWire.* A frame is method, uuid and unit. The unit is the position of the
payload in the stream it was read from, so loss, duplication and reordering
remain visible while bytes do not matter. `Translated` is what A's pump does to
NEW_SESSION. `aconn_write_up` and `aconn_write_down` place a frame in its stream
at the call; on a broken connection the frame is lost and nobody is told, as in the
code, which never looks at the error code. The step in which the call returns is one
of its own and may come at any time after it. `LinkDown` breaks one connection and
loses any suffix of what was under way.

*Pipe.* Not code but a promise: the receiver has a prefix of what was sent, grows along
it, and is told the end when it has everything, unless the connection broke. `Relay`
instantiates it for the way from a remote to its client (`Down(u)`, with units
as items and never broken: a lost connection shows as an end that never comes), `Stream`
for a session through two tunnels (`Link`, with bytes as items).

*RelayVisitor.* `Accept`, `PumpLoop`, `PumpRead`, `PumpEof`, `PumpEofSent` and the
`Reader...` actions are the three kinds of coroutines of `run_visitor`. A session
lives as long as the map or its pump refers to it (`b_Reaped`), as its
`shared_ptr` does. In the pump `if (ec == eof || n == 0)` comes before `if (ec)`,
and a failed read returns 0 bytes, so the second branch cannot be reached: every
end of a stream takes the DATA_EOF path. The reader keeps an iterator and a
reference into the map across the awaits at `relay.cpp:441` and `446` and erases through
the iterator at `451`. An insertion by the accept loop (`Accept`, at `506`) may rehash the
map, which invalidates the iterator but not the reference; `b_inserted` records that one
fell between the awaits, and how full the buckets are is left open. The behaviour of the
program is undefined from there on: erase does its work, as it does with libstdc++
and its nodes (`ReaderCloseSent`), or the process dies (`ReaderStaleIterator`, which
leaves the reader in state `crashed`). The same holds when the entry itself has gone.

*RelayProvider.* `c_arrival_buffer` holds the units of `arrival_buffer` not yet
written; the code keeps the written ones until the drain ends and clears the
vector then. `c_pending` holds the writes under way on a remote, of the main loop and of
the session's coroutine, oldest first: the socket serves them in the order they
were started. An exception in the coroutine, which is detached, leaves it in state
`thrown` with nothing after the throw done; an exception in the main loop runs
into the teardown (`c_Teardown`).

*RelayServer.* `inbox` and `outbox` are the two directions of a peer's byte stream.
A `write_frame` is under way from the step that calls it to the step in which it
returns; that is why `SingleWriter` can be stated. Peers are external: they
connect, register, send frames and EOF_, and vanish at any moment (`PeerGone`).
`MaxFrames` bounds the frames of each peer; the model-checking instance gives one peer
more than the others (`Busy`).

*AConn.* `strand` is the queue of handlers, `ops` the queue of write operations on
the socket. asio's composed `async_write` gives at most 65536 bytes to one operation
(`default_max_transfer_size`; external, `MaxTransfer`), and a DATA frame of a full
read buffer has 65577. The kernel may take less than an operation offers, since the
socket is non-blocking: `Transferable` is any part of it, and what is left is
another operation behind those that other coroutines have started. The wire is the
sequence of these pieces, each known by the number of its frame.

*Tunnel.* `read_local` and `read_remote` are the same code with the sides exchanged
and are one set of actions over `Side`. What the chain makes of a read is any number
of buffers, or an exception; flushing produces nothing in any processor of the
repository. A tick of the statistics timer before the session is closed changes
nothing the model has and is a stuttering step. `failed`, `reads`, `made`,
`written`, `close_calls` and `close_logs` observe and guard nothing but the bound
on reads.

*Processors.* A buffer is a sequence of bytes, a processor a record, and a call a
function from processor and input to the next processor, the buffers it appends to
`output` and how it ended: with buffers, with an exception, or never. The last is
the loop of `apply_pack`, which goes on until `pos` has reached the end of the input: a round
that leaves `pos` where it is, is repeated for ever. `CutFrame` is one round, and `apply_pack`
looks at where as many rounds as the input has bytes have come; that only chunks of
size zero make no progress is a result (`HangsOnlyOnZeroChunk`), not part of the definition. The
loop then makes empty frames until memory runs out and never returns to the `io_context`. The sizes the code fixes (bytes of
8 bits, IVs of at least 8 bytes, a tag of 32 and a nonce of 512 bytes, lengths of 4)
are parameters; exclusive or, HMAC-SHA256, SHA-512 and the random generators are
parameters with only the properties they need (`XorAssumption`). `mix` and the two cipher
loops are the code's, byte by byte, with addition modulo the byte size. The loops over
bytes, frames, buffers and processors are recursive functions whose step has a name
(`EncryptByte`, `CutFrame`, `TakeFrame`, `FeedOne`, `VisitOne`). `pack_rng_` is represented
by the number of frames it has served. A chain visits its processors in the code's order
with all buffers of the one before; `ValidSpec`, `MakeProcessor` and
`build_processor_chain` are what `build_processor_chain` makes of specifications that
have been split into a name and arguments.

*Stream.* The near node has the client, the far one the server. `dir` says which
direction of the session is looked at; the two share no state in a chain, since `pack`
and `unpack` have members of their own. A read takes any number of bytes that have been
written (`Read`): this is where the stream is cut at arbitrary places. An exception of the chain
closes the session. `Lose` drops the connection between the nodes with any suffix of
what was under way. How the two loops of a session end each other is left to `Tunnel`;
here a loop ends for its own reasons or because the session broke (`Fails`).

## Runs

Constants and bounds are in the `.cfg` files. All bounds are named constants, except
the state constraints of `relay_two` in `MCRelay`: `TwoUnitsOneWay` bounds the units of two
sessions together, and `UntilCrash` does not follow a crashed B any further, from which no
client gets anything (`relay_one` does follow it).

| Run | Instance | Checks |
|---|---|---|
| `relay_one` | one session, 3 units up, 2 down, connections may break | `TypeOK`, `UpstreamConserved`, `ReferenceValid`, `MapsHoldLiveSessions`, `MainWritesToOpenRemote`, `DownstreamIsPipe` |
| `relay_two` | two sessions, two units from remotes (of one or of both) or one from each client, no connection loss | `DownstreamInOrder`, `ClientFinAfterData`, `UpstreamConserved`, `ReferenceValid`, `MapsHoldLiveSessions` |
| `relay_live` | one session, one unit each way, connections may break, fair | `RejectedClientClosed`, `BothEofCleanUp`, `DisconnectStopsNodes`, `WritersReturn` |
| `server` | three connections, one identifier, two frames from one peer and one from the others, fair | `TypeOK`, `SingleWriter`, `OutboxWellFormed`, `ClosedByOnePump`, `PumpsEndTogether`, `PairStarts` |
| `aconn` | three coroutines, three frames of up to three units, operations that take one or two of what they are given, fair | `TypeOK`, `FramesTakeTurns`, `StartInCallOrder`, `OneHandlerEach`, `EveryCallReturns` |
| `tunnel` | one session, two reads of up to three buffers in each direction, fair | `TypeOK`, `CloseAllOnce`, `EndedMeansClosed`, `CloseLosesNothing`, `FinAfterData`, `ClosedSessionEnds`, `AcceptLoopComesBack` |
| `stream` | fifteen pairs of command lines, both directions, three bytes, every cut, the connection may break, fair | `TypeOK`, `NothingHeldBack`, `BuffersBounded`, `WrongKeyDeliversNothing`, `HangsOnlyOnZeroChunk`, `ImplementsPipe`, `DeliveredInTheEnd` |

What they show:

- *Downstream is sound.* Whatever fails, the way from a remote to its client implements
  `Pipe`: a client receives a prefix of what its remote sent, in order, and is told the end
  of the stream only after all of it.
- *Upstream keeps every unit.* As long as C holds the session, every unit the pump
  of B read is in exactly one place: on the wire, buffered, being written, or
  delivered. (Its order is another matter, see below.)
- *The maps hold live sessions only*, and while the accept loop runs, the entry and the
  reference that B's reader keeps across awaits stay valid although pumps and reader both
  erase. The iterator it keeps besides does not: an insertion may invalidate it
  (`ReaderStaleIterator`).
- *The main loop of C never starts a write on a remote that it shut down.*
- *Sessions end.* A refused client is closed; a session that both ends have ended is
  removed on both nodes, in whichever order the two DATA_EOFs cross; a node whose
  connection is lost leaves its read loop.
- *The nodes do not wait for each other in a circle*, however little the connections
  buffer: the reader of B may wait for the stream to C, but the main loop of C, which
  reads that stream, waits for no frame to B. This is so while the main loop runs. Once the failure of
  one remote has stopped it (`finding_one_remote_stops_c`), the reader of B can wait for
  ever to write SESSION_CLOSE while a coroutine of C waits for the reader of B; the
  liveness properties of `Relay` therefore end at `Apart`.
- *A never writes two frames to one socket at a time*, although nothing in the code
  serialises `write_frame`: the order of registration, READY and pumps does. Each
  peer receives READY, its partner's frames in order without a gap, and at most one
  EOF_, or one EOF_ alone if it is a duplicate. A complete pair starts, or one of its
  peers is gone.
- *aconn_write* keeps the order in which frames start, loses no caller and always
  returns. It keeps no frame whole, neither a long one nor a short one of which the
  kernel takes only a part (`finding_frame_interleaving`); what it keeps is the turn:
  once a frame has begun, each other frame gets at most one piece in before its next.
- *The tunnel* closes a session exactly once, in every order of ends, errors and
  aborts; without a failure it is closed only when both streams ended and all was
  written; the accept loop comes back from a target that refuses.
- *Two tunnels that mirror each other are a pipe*, for each processor and for chains of them,
  by `--reverse` or by the older argument, in both directions, however the stream is
  cut: offsets and IVs stay in step, handshake and frames are found again, nothing is kept
  for `flush` (which comes after the shutdown and would be lost), and all
  arrives in the end. If only the sizes of padding differ, what arrives is still a
  prefix. A wrong HMAC key lets no byte pass. Every chunk size but zero makes progress in each
  round of the loop of `pack`; with zero the chain hangs, and nothing in the configuration refuses it.

Why the bounds are enough: the interesting cases of `Relay` need a unit buffered, a
unit drained and a unit overtaking (three up), and a unit written while another is on
the wire (two down). Sessions meet in the reader of B, the main loop of C and the two
streams only, and two sessions are what it takes for one to disturb the other. For an
order to be disturbed one session needs two units down, with the other accepted, refused or
ended around them; for one client's unit to go down with the other's, one of each. Units both
ways at once are left to `relay_one` and the theorems, which have no bound. In
`RelayServer` pairs share nothing but the map, so one identifier suffices; a duplicate
needs a third connection, an order of frames a peer that sends two; the theorems
cover any number. In `AConn` frames of three units need two operations or three, and three coroutines put two
frames between the pieces of another; in `MCAConn_FramesWhole` every operation transfers
all it may, so that only a frame longer than one operation can be torn. Tunnel sessions share nothing but the accept loop, which only waits
for the connection of the newest; one session suffices, and the theorems cover any number.
In `Stream` bytes have two bits, IVs two or three bytes, tag and nonce two each, lengths
two digits: three bytes of payload wrap the position in a short IV, and with
chunks of two they make two frames, of which the second is short; a header,
a handshake and a payload are cut at every place, alone and with what comes before
and behind. The setups have every processor alone, the ones that change lengths on
either side of a cipher, unequal seeds and sizes, wrong keys, a failing RAND_bytes, a
chunk size of zero, and one that does not fit its field.

Deadlock is not checked: clients and peers may stop sending for ever, which is a
legitimate end, and the bounds stop every behaviour.

### Fairness

Weak fairness is assumed of what the executor and the kernel owe a coroutine: a
frame that has arrived is read, an operation that was started completes or fails, a
posted handler runs, an aborted read returns, a timer fires. None is assumed of clients,
remotes and peers as senders: they need not send or end.

That a started write completes is an assumption on the other end of the socket, since the
code sets no timeout. For writes between the nodes `Relay` assumes less: an `aconn_write` is
owed its return only when its frame has been read or the connection is lost
(`MustReturn`), which covers buffers of every size. Clients, remotes and the peers
of A are assumed to take what is written to them; a client that never reads again
blocks the reader of B for all sessions.

In `Stream` the fairness of a loop is weak fairness with the condition of ENABLED
spelled out (`CanStep`): evaluating ENABLED of `Read` would run the chains again
for every state. The connection of the tunnel to its target completes or fails, as the
kernel's connect does after its own timeout.

### Where documentation and code disagree

Five runs state what a document or a comment says, and TLC shows a behaviour of the
code that does otherwise:

- `finding_upstream_order`: `remote_connected` is set before SESSION_OK is written and
  the buffer drained, so DATA that arrives meanwhile overtakes buffered units.
- `finding_half_open`: C erases a session as soon as its remote has ended, although
  the client may still send.
- `finding_one_remote_stops_c`: a failed write to one remote throws out of the main
  loop of C and closes all sessions.
- `finding_survivor`: when the final EOF_ write of a pump throws, the peer that is left
  is neither told nor closed.
- `finding_frame_interleaving`: a frame longer than one operation is written in two, and
  the strand does not keep another coroutine's frame out between them. A short write has the
  same effect on a frame of any length; the trace does without.

More of the kind was met while modelling and is visible in the actions named, without
a run of its own:

- a DATA_EOF that arrives during the SESSION_OK write or the drain shuts the remote down
  before the buffer is written (`MainDataEof`); the drain then throws (`c_Drain`,
  `DrainFail`) and the session stays in C's map without a coroutine, which is why
  `UpstreamConserved` excludes `thrown`; `docs/abc_protocol.md:148` has the buffer drained;
- a session that is still connecting when C loses A is left alone by the teardown
  (`c_Close`) and opens its remote afterwards; `docs/abc_protocol.md:222` says that C closes
  all remotes;
- after its reader stopped, B still accepts clients (`Accept` does not look at `b_reader`)
  and neither exits nor connects again, as `docs/abc_protocol.md:220` says;
- an insertion may invalidate the iterator of B's reader before it erases through it
  (`Accept`, `ReaderStaleIterator`);
- an acceptor failure clears B's map at once, also while the reader is in an await
  (`AcceptFail`, `ReaderStaleIterator`); the comment at `relay.cpp:548` says it waits;
  this is why `ReferenceValid` is about the time while the accept loop runs;
- if the first peer of a pair is gone when the second registers, the second waits for
  ever (`ReadyFail`), and a node whose pair was closed is rejected as a duplicate when
  it comes back, since `pairs` is never cleaned (`Register`);
- a client that reset its connection before it is accepted ends the tunnel's accept
  loop (`AcceptThrows`); `scripts/test_tunnel.sh:189` expects it to survive.

## Proofs

Every theorem holds for any sets of sessions, connections, identifiers or coroutines and
any bounds, from the named assumptions of the module that declares the constants: the
absent value (`NoUuid`, `NoConn`, ...) is not a member of its set, and bounds are natural
numbers or Booleans. Those about two tunnels hold for any set of command lines, payloads and
random choices; what they assume besides is said below. Each inductive invariant was
checked by TLC on the instance of the module's run before it was proved, `StreamInv` as far
as it can be evaluated (`SafeInv` and `Base`; the rest quantifies over all chains and streams).

### The pair B and C

`Relay_proofs` proves `TypeOK`, `MapsHoldLiveSessions` and `MainWritesToOpenRemote`.
That C finds an open remote when DATA arrives depends on what B may have put on the
wire before, so the last two need an invariant about both nodes and the stream between
them (`WireInv`):

- `NewToB`, `NewToC`: a session not yet accepted, or not yet heard of, has left no trace;
  `ForwardedOnce`: C hears of it once, so a session never comes back to the map;
- `EofLastUp`: DATA_EOF ends the pump of B, and no DATA of the session is behind it, on the
  wire or once C has read it;
- `ShutByEof`: C shuts a remote down only for a DATA_EOF; `MapOfB`, `MapOfC`.

Every step takes frames from the head or the tail of `up`, or appends one; `Shrinks` says
the first once for all actions (`UpInvShrinks`), `WrittenUp` the second.

`Relay_proofs` also proves `DownstreamInOrder`, `ClientFinAfterData`, `ReferenceValid` and
the refinement `DownstreamIsPipe`. They hold although the reader of B forgets sessions,
connections break and lose frames, and both nodes end sessions on their own. The invariant
`DownInv` follows a unit from the remote to the client:

- `DataRead`, `DataInOrder`, `NoGap`: the units of a session on the wire were read, are
  increasing, and the first of them is the next the reader takes (`Taken` counts what
  it has taken, the one it is writing included);
- `NothingLost`: while both connections are up, all that was read has been taken or is on
  the wire, and `CompleteAtEof`: the same in front of every DATA_EOF, also after a
  loss, since a loss cuts the stream at its end;
- `EofEndsCo`, `EofOnDown`, `EofBehindDown`, `FinIsLast`: DATA_EOF is the last C sends and
  the last B reads of a session;
- `WritesNext`: what the reader writes is the next unit of its client.

`RelayUp_proofs` proves `UpstreamConserved`. Upstream there is no order to rely on (see
`finding_upstream_order`), so the argument counts: the units 1 to `b_read` are spread over
four places, each in one of them (`EachOnce`). `Moved`, `Skipped` and `Added` say what keeps
that: a unit leaves the front of a place for the back of another, a frame without a unit of
the session leaves the wire, the next unit is put on it. Every step of B and C is one of
these, two in a row (`DrainWrote` delivers a unit and starts the next), none, or ends the
condition of the property (a connection is lost, C forgets the session, its coroutine
throws). Two steps need more than the property itself:

- C ignores DATA of a session it does not hold. It never does so before the session was
  announced: `DataBehindForward` and `ForwardUnderWay` put FORWARD_SESSION ahead of the
  DATA, and `MapOfC` excludes a closed session in the map;
- a failed write empties C's map and drops a unit. A session C has not heard of, which the
  property still speaks of then, has no write under way (`NoEarlyWrite`).

`ReferenceValid` needs all of this: a pump erases its session when `half_close_recv` is set,
and what keeps it from doing so while the reader awaits a write for that session is that no
DATA follows DATA_EOF. For the refinement each step is classified by what it does at the
two ends of one session (`EndsSteps`), and each class is a step of `Pipe` or a stutter.

### The matcher

`RelayServer_proofs` proves `TypeOK`, `SingleWriter`, `ClosedByOnePump` and
`OutboxWellFormed`.

`SingleWriter` is not inductive: that a pump and a handler never write to one socket
follows from who is registered where and who has been told READY. The inductive
invariant `IndInv` adds

- `Registration`: a connection in a slot has registered that identifier and role
  (`SlotsRegistered`); a handler that writes READY belongs to the pair and both slots
  are taken (`ReadyCompletesPair`); a pair has one such handler at most
  (`OneReady`); pumps run only after it is through (`PumpsAfterReady`);
- `Latch`: a pump that left its loop has set `dead`, and of the two only one leaves by
  the branch that tells and closes (`DeadLatched`, `ClosedByOnePump`).

The proof has one step per action (`RegisterStep`, `ReadyCWrittenStep`, `PeerStep`,
`PumpStepInv`, ...), lemmas for what the actions leave alone (`ControlUnchanged`), and
`IndInvSingleWriter` for the last implication: two writers of one socket would be in the
same slot of the same pair.

For `OutboxWellFormed` the invariant `OutInv` says how far each writer has come: a
connection without a slot got at most EOF_ (`Outsiders`), one whose pump has not started
at most READY (`BeforePumps`, `Announcing`), and for a running pump there is a number k of
frames it has passed on (`Pumping`): the outbox is READY and the first k frames, the frame it
holds is the next, and the unread ones follow that (`Incoming`). `SingleWriter` is what
allows the step from "each writer appends the right frame" to "the outbox is right".

### The write path

`AConn_proofs` proves `TypeOK`, `OneHandlerEach`, `StartInCallOrder` and
`FramesTakeTurns`, for short writes too.

- `Queues` is `OneHandlerEach` position by position, and inductive.
- `StartInCallOrder` needs the order of what is not on the wire yet (`Orders`): operations
  before the strand, each in the order of the calls, all of them later than what has
  started. This holds while the connection is up: a failed operation lets its coroutine
  call again and breaks the order, at a time when nothing reaches the wire any more.
- `FramesTakeTurns` needs `TurnsInv`: while the connection is up, a frame that has been
  overtaken since its last piece stands in the queue before the one that overtook it
  (`OvertakenAhead`), so its next piece comes first and nobody overtakes it
  twice (`NoneTwice`).

### Tunnel and Pipe

`Tunnel_proofs` proves `TypeOK`, `CloseAllOnce`, `EndedMeansClosed`, `FinAfterData` and
`CloseLosesNothing`. None but the first is inductive. The invariant says, session by session:

- `Lifecycle`: a loop that ended in an open session has seen the end of its stream;
  both ends seen means closed; a loop that still runs in a closed session outlives one
  that was abandoned, not one that saw the end. This last part is why the end-of-file
  branch may call `close_all` without a test: whoever finds the other's flag set is in
  a session that is still open;
- `Counted`: `done_count`, the report and the calls of `close_all` follow from the loops
  and from `closed`;
- `Sockets`: closed with the session, shut only behind an end of file, unused before;
- `Buffers`: what a loop has made and not written is what it still holds;

and `Accepting` that the session the accept loop connects has not been started. Steps of
the loops are of two kinds, those that go on (`GoOnStep`) and those that end the loop
(`EndStep`); only end of file (`ReadEofStep`) needs an argument of its own.

`Pipe_proofs` proves `Spec => []InOrder` of `Pipe` for any items: the receiver has a
prefix, and after `fin`, if nothing broke, everything. It says what the refinements
`ImplementsPipe` and `DownstreamIsPipe` amount to. `InOrder` is inductive together with the
types, because nothing is sent after `ended` and nothing received after `fin`.

### Processors and two tunnels

`Processors_proofs` is about functions on buffers, `Stream_proofs` about the state machine.
They assume of the sizes `SizeAssumption`, of exclusive or `XorAssumption`; `SetupsAssumption`
(arguments have the types the command line parser gives them, HMAC gives a tag, SHA-512
some bytes), `PayloadsAssumption` and `RandomsAssumption` (a nonce has its size, or RAND_bytes
failed); and `DrawsNumbers`, a hypothesis of the theorems because TLC cannot enumerate
seeds: the generators give natural numbers. Nothing is assumed about which digests
differ or what is drawn.

Loops over data. The code's loops are recursive functions on 0..n. That such a function
exists, takes in i the value its step gives from i - 1, and is the only one, is proved
once (`RunExists`, `RunUnique`). Induction is over indices: a set that contains 0 and with i also
i + 1 contains 0..n, since there is no smallest index outside it (`UpTo`); the set stands for
the induction hypothesis, which no rule with an operator parameter is needed for.
With these, `write_u32` and `read_u32` are inverse, `Encrypted` and `Decrypted` too, and
`apply_unpack` takes the same frames off a stream however it was cut.

Every call (`Sound`, `VisitSound`): results have their types; a processor keeps its kind
and arguments; only padding with chunks of zero hangs, because a round of the loop of `pack` passes a byte of the
input whenever a chunk has one (`CutFrameCuts`), and as many rounds as there are bytes then
use it up (`PackMakesFrames`); and what `unpack` collects stays below what
it waits for (`Small`). From these, `SafeInv` is inductive and gives

- `StreamTyped` (`TypeOK`), `AccumulatorsBounded` (`BuffersBounded`) and `HangsOnlyWithZeroChunk`
  (`HangsOnlyOnZeroChunk`), for any pair of command lines, mirrored or not.

Two ends. `DecryptInvertsEncrypt`: for every byte size, every non-empty IV (one of a single
byte too, where `mix` writes twice to one place) and every offset, `DecryptByte` gives back
the byte `EncryptByte` was given and leaves both ends with the same IV and offset. From a
single byte the argument goes to streams by a relation between two processors and what is between
them: `Linked(p, q, w, u)` says that once q has unpacked w, which is under way, it has
given back u, all that p was given and q has not yet given back. For the ciphers that is
`CipherLink` (both keys come from one IV and one stream, p's from all of it, q's from the part
in front of w), for the handshake
`NonceLink` (the part of the handshake that has not arrived comes first), for padding
`PadLink` (accumulator and w together are whole frames with payload u). `LinkPacks` and
`LinkUnpacks` say that every call of `pack` appends to w and u, and that every call of
`unpack`, with any piece cut off the front of w, takes from both.

Chains. `ChainLink(side, c, d, U)` puts such links one inside the other: U[0] is what the
chain c was given and d has not given back, U[i] the same below the i-th processor, and U[Len(c)]
what is under way. `VisitPacks` and `VisitUnpacks` carry it over a call of a whole chain.
`MirroredLinks` shows that two command lines with the same processors, mirrored by `--reverse`
or by the older argument, start with a `ChainLink` of empty streams.

The state machine. `StreamInv` adds to `SafeInv`

- `Base`: what was taken and what is left are the payload; a loop is done when its stream ended;
- `FlowInv`, for nodes with matching command lines: there are U and the chain c that packed what is
  under way, with `Carries` (a link of which the connection may have lost the end) and, as long as nothing broke,
  `Exact`: what the connection holds and what the first loop has still to write is U[Len(c)],
  and what was given out and U[0] are all that was taken. When the second loop is done,
  what arrived is a prefix, and all, unless something broke.

From it follow `NothingKeptBack` (`NothingHeldBack`: with nothing under way, U[Len(c)] is empty,
hence every U[i], hence U[0]) and the refinement `StreamIsPipe` (`ImplementsPipe`): reading is
`Pipe`'s sending, what the second loop writes its receiving, and `Fails`, `Lose` or an exception
its breaking.

### Only model-checked

- `WrongKeyDeliversNothing` of `Stream`: that no handshake of another key passes is a property of
  HMAC that would have to be assumed in the words of the conclusion; the run checks it with
  a concrete digest.
- All liveness: liveness under fairness and ENABLED are out of the prover's reach.

## Not modelled

- UDP server and sender, command line: pure I/O or option parsing, no state to go wrong.
- The splitting of processor specifications and addresses into their parts, and what
  `stoull` makes of text that is no number.
- `run_node`'s synchronous connect and its argument checks; its REGISTER is the peer of
  `RelayServer`, its wait for READY the initial state of `Relay`.
- The byte layout of relay frames and limits on their length; contents of log messages.
- The check of `apply_unpack` for an overflow of `size_t`: with two lengths of 32 bits it
  cannot fail where `size_t` has 64.
- Clients and remotes that stop reading: head-of-line blocking of the reader of B and the
  main loop of C behind one such socket is a listed hazard without a property.
- `generate_uuid` is taken to return fresh identifiers (122 random bits).

## Plan

Done, in this order: `RelayWire`, `RelayVisitor`, `RelayProvider`, `Relay`, the most
important behaviour of the program; `RelayServer` and its proofs; `AConn`; `Tunnel` and
its proofs; `Processors` and `Stream`; `Pipe` with its two refinements and its proof; the
step of the cipher; small buffers between the nodes (`MustReturn`, `WritersReturn`).

Proved since: all safety properties of `RelayServer`, `AConn`, `Tunnel`, `Relay` and `Stream` that the
passing runs check but `WrongKeyDeliversNothing`, and both refinements of `Pipe`.

Next:

1. `RelayServer` as an implementation of the FIFO link that `RelayWire` assumes, for one pair.
2. Both directions of a session and its two loops in one module: `Tunnel` with `Stream` in it.
