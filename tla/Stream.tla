-------------------------------- MODULE Stream --------------------------------
(***************************************************************************)
(* Two tunnels back to back, near with the client and far with the server, *)
(* and one direction of one session through them: the bytes of a source    *)
(* pass the read loop and the processor chain of the first node, the       *)
(* connection between the nodes, the loop and the chain of the second and  *)
(* reach the sink.  The two directions of a chain share no state, pack and *)
(* unpack have members of their own.                                       *)
(*                                                                         *)
(* TCP keeps no boundaries: a read gets any number of the bytes that have  *)
(* been written.  How the two loops of a session end together is the       *)
(* subject of Tunnel; here one loop ends for the reasons it has itself, or *)
(* because the session broke.                                              *)
(***************************************************************************)
EXTENDS Processors

CONSTANTS
    Setups,         \* the command lines of both nodes: specs and reverse
    Payloads,       \* what the source sends
    Randoms,        \* what the random devices of a node may give
    MaxRead         \* bound: bytes of one async_read_some (65536)

NodeName == {"near", "far"}
Direction == {"up", "down"}
Hop == {1, 2}       \* hop h reads pipe[h] and writes to pipe[h + 1]

\* The arguments of a --processor option that the command line gave.
TypedArgs(kv) ==
    /\ \A a \in {"key", "iv", "hmac_key"} \intersect DOMAIN kv : kv[a] \in Seq(Byte)
    /\ \A a \in {"chunk", "max", "seed"} \intersect DOMAIN kv : kv[a] \in Nat
    /\ \A a \in {"reverse"} \intersect DOMAIN kv : kv[a] \in BOOLEAN

\* The digests of the library have bytes, and HMAC always as many as a tag.
Digests(kv) ==
    {"iv", "hmac_key"} \subseteq DOMAIN kv =>
        \A nonce \in [1..NonceSize -> Byte] :
            /\ Hmac(kv.hmac_key, nonce) \in [1..TagSize -> Byte]
            /\ Sha512(nonce \o kv.iv) \in Seq(Byte) /\ Sha512(nonce \o kv.iv) # <<>>

ASSUME MaxReadAssumption == MaxRead \in Nat \ {0}
ASSUME SetupsAssumption ==
    \A s \in Setups : \A n \in NodeName :
        /\ s.specs[n] \in Seq(Range(s.specs[n])) /\ s.reverse[n] \in BOOLEAN
        /\ \A k \in DOMAIN s.specs[n] : TypedArgs(s.specs[n][k].kv) /\ Digests(s.specs[n][k].kv)
ASSUME PayloadsAssumption == \A s \in Payloads : s \in Seq(Byte)
ASSUME RandomsAssumption ==
    \A rnd \in Randoms : /\ rnd.nonce \in [1..NonceSize -> Byte] \union {<<>>}
                          /\ rnd.seed \in Nat

VARIABLES
    setup,          \* the command lines
    payload,        \* all the source sends
    dir,            \* up: from the client to the server
    tunnel,         \* tunnel[n]: how far run_tunnel has come
    chain,          \* chain[n]: the chain of the session in node n
    pipe,           \* bytes: unread of the source, between the nodes, at the sink
    fin,            \* the stream in that pipe has ended
    loop,           \* loop[h]: where the read loop of hop h is
    output,         \* output[h]: buffers it has still to write
    broken          \* a connection was lost or an exception closed the session

vars == <<setup, payload, dir, tunnel, chain, pipe, fin, loop, output, broken>>
fixed == <<setup, payload, dir>>

Init ==
    /\ setup \in Setups
    /\ payload \in Payloads
    /\ dir \in Direction
    /\ tunnel = [n \in NodeName |-> "starting"]
    /\ chain = [n \in NodeName |-> <<>>]
    /\ pipe = <<payload, <<>>, <<>> >>
    /\ fin = <<TRUE, FALSE, FALSE>>
    /\ loop = [h \in Hop |-> "none"]
    /\ output = [h \in Hop |-> <<>>]
    /\ broken = FALSE

\* The node whose loop makes hop h.
Node(h) == IF (dir = "up") = (h = 1) THEN "near" ELSE "far"

Process(h, input) ==
    IF dir = "up" THEN chain_on_local_data(chain[Node(h)], input)
                  ELSE chain_on_remote_data(chain[Node(h)], input)

Flush(h) ==
    IF dir = "up" THEN chain_flush_local(chain[Node(h)])
                  ELSE chain_flush_remote(chain[Node(h)])

\* run_tunnel builds a chain to find out whether the configuration is valid.
run_tunnel(n) ==
    /\ tunnel[n] = "starting"
    /\ tunnel' = [tunnel EXCEPT ![n] =
                    IF \A k \in DOMAIN setup.specs[n] : ValidSpec(setup.specs[n][k])
                    THEN "listening" ELSE "refused"]
    /\ UNCHANGED <<fixed, chain, pipe, fin, loop, output, broken>>

\* do_accept in both nodes: each session gets a chain of its own.  In one
\* direction only one of the chains packs and draws random numbers.
Connect ==
    /\ \A n \in NodeName : tunnel[n] = "listening"
    /\ \A h \in Hop : loop[h] = "none"
    /\ \E rnd \in Randoms :
          chain' = [n \in NodeName |->
                      build_processor_chain(setup.specs[n], setup.reverse[n], rnd)]
    /\ loop' = [h \in Hop |-> "read"]
    /\ UNCHANGED <<fixed, tunnel, pipe, fin, output, broken>>

\* The loop of hop h ends and ends the stream behind it.
Done(h) ==
    /\ loop' = [loop EXCEPT ![h] = "done"]
    /\ fin' = [fin EXCEPT ![h + 1] = TRUE]

\* async_read_some gives k bytes, which the chain processes: its buffers are
\* written next, an exception closes the session, or the call never returns.
Read(h) ==
    /\ loop[h] = "read"
    /\ \E k \in 1..Min({MaxRead, Len(pipe[h])}) :
       \E r \in {Process(h, SubSeq(pipe[h], 1, k))} :
          /\ pipe' = [pipe EXCEPT ![h] = SubSeq(@, k + 1, Len(@))]
          /\ chain' = [chain EXCEPT ![Node(h)] = r.p]
          /\ output' = [output EXCEPT ![h] = r.out]
          /\ \/ /\ r.status = "ok"
                /\ loop' = [loop EXCEPT ![h] = IF r.out = <<>> THEN "read" ELSE "write"]
                /\ UNCHANGED <<fin, broken>>
             \/ /\ r.status = "throw"
                /\ Done(h)
                /\ broken' = TRUE
             \/ /\ r.status = "hang"
                /\ loop' = [loop EXCEPT ![h] = "stuck"]
                /\ UNCHANGED <<fin, broken>>
    /\ UNCHANGED <<fixed, tunnel>>

\* async_write of one buffer.  On a connection that is lost it may still
\* succeed; the bytes do not arrive.
Write(h) ==
    /\ loop[h] = "write"
    /\ pipe' = IF h = 1 /\ broken THEN pipe
               ELSE [pipe EXCEPT ![h + 1] = @ \o Head(output[h])]
    /\ output' = [output EXCEPT ![h] = Tail(@)]
    /\ loop' = [loop EXCEPT ![h] = IF Len(output[h]) = 1 THEN "read" ELSE "write"]
    /\ UNCHANGED <<fixed, tunnel, chain, fin, broken>>

\* End of the stream: shutdown_send, then flush.  A buffer of the flush would
\* be written to a socket that is shut down, which closes the session.
Eof(h) ==
    /\ loop[h] = "read"
    /\ pipe[h] = <<>> /\ fin[h]
    /\ Done(h)
    /\ broken' = (broken \/ Flush(h).out # <<>>)
    /\ UNCHANGED <<fixed, tunnel, chain, pipe, output>>

\* The session broke: a read or a write of this loop fails.
Fails(h) ==
    /\ broken
    /\ loop[h] \in {"read", "write"}
    /\ Done(h)
    /\ output' = [output EXCEPT ![h] = <<>>]
    /\ UNCHANGED <<fixed, tunnel, chain, pipe, broken>>

\* The connection between the nodes is lost, with what was under way from
\* some byte on.
Lose ==
    /\ loop[1] # "none" /\ ~broken
    /\ broken' = TRUE
    /\ \E k \in 0..Len(pipe[2]) : pipe' = [pipe EXCEPT ![2] = SubSeq(@, 1, k)]
    /\ UNCHANGED <<fixed, tunnel, chain, fin, loop, output>>

LoopNext(h) == Read(h) \/ Write(h) \/ Eof(h) \/ Fails(h)

Next ==
    \/ \E n \in NodeName : run_tunnel(n)
    \/ Connect \/ Lose
    \/ \E h \in Hop : LoopNext(h)

Spec == Init /\ [][Next]_vars

\* Started operations complete and bytes that were written arrive.  This is
\* weak fairness of each loop, with the condition spelled out under which a
\* loop can make a step.
CanStep(h) ==
    \/ loop[h] = "write"
    \/ loop[h] = "read" /\ (pipe[h] # <<>> \/ fin[h] \/ broken)
Fairness ==
    /\ \A n \in NodeName : WF_vars(run_tunnel(n))
    /\ WF_vars(Connect)
    /\ \A h \in Hop : []<>~CanStep(h) \/ []<><<LoopNext(h)>>_vars

FairSpec == Spec /\ Fairness

-----------------------------------------------------------------------------
(* Properties *)

\* Two specs that process the same stream: all arguments but the seed agree,
\* and for Readable the sizes of padding need not either.
Without(spec, args) ==
    <<spec.name, [a \in DOMAIN spec.kv \ args |-> spec.kv[a]]>>
SameSpecs(s, t, args) ==
    /\ Len(s) = Len(t)
    /\ \A k \in DOMAIN s : Without(s[k], args) = Without(t[k], args)

Legacy(spec) == "reverse" \in DOMAIN spec.kv /\ spec.kv.reverse

\* The far node mirrors the near one: by --reverse=1, which also reverses the
\* order, or by hand with the argument reverse of every processor.
Mirrored(args) ==
    LET near == setup.specs["near"]
        far == setup.specs["far"]
    IN  /\ ~setup.reverse["near"] /\ ~\E k \in DOMAIN near : Legacy(near[k])
        /\ \/ setup.reverse["far"] /\ SameSpecs(near, far, args)
           \/ /\ ~setup.reverse["far"] /\ \A k \in DOMAIN far : Legacy(far[k])
              /\ SameSpecs(near, Reverse(far), args \union {"reverse"})
Readable == Mirrored({"seed", "chunk", "max"})
Compatible == Mirrored({"seed"})

Taken == SubSeq(payload, 1, Len(payload) - Len(pipe[1]))

\* Every variable has its type.
TypeOK ==
    /\ setup \in Setups /\ payload \in Payloads /\ dir \in Direction
    /\ tunnel \in [NodeName -> {"starting", "listening", "refused"}]
    /\ DOMAIN chain = NodeName
    /\ DOMAIN pipe = 1..3 /\ \A i \in 1..3 : pipe[i] \in Seq(Byte)
    /\ fin \in [1..3 -> BOOLEAN]
    /\ loop \in [Hop -> {"none", "read", "write", "done", "stuck"}]
    /\ \A h \in Hop : output[h] \in Seq(Seq(Byte))
    /\ broken \in BOOLEAN

\* Chains that mirror each other make a byte pipe, however the stream is cut
\* on the way, whatever breaks and whether or not the sizes of padding agree:
\* the offsets and IVs of both ends stay in step, the nonce handshake and the
\* frames of padding are found again (docs/architecture.md:47-48, 58-61).
Link == INSTANCE Pipe WITH
            Item <- Byte,
            sent <- IF Readable THEN Taken ELSE <<>>,
            received <- IF Readable THEN pipe[3] ELSE <<>>,
            ended <- loop[1] = "done",
            fin <- fin[3],
            broken <- broken \/ ~Readable
ImplementsPipe == Link!Spec

\* No chain keeps bytes back: when nothing is under way, all that was taken
\* from the source is at the sink, so that nothing is left for flush, which
\* comes after the shutdown and gives none.
NothingHeldBack ==
    /\ Compatible /\ ~broken
    /\ \A h \in Hop : loop[h] \in {"read", "done"}
    /\ pipe[2] = <<>>
    => pipe[3] = Taken

\* The accumulators of unpack stay below a frame and below a handshake.
BuffersBounded ==
    \A n \in NodeName : \A k \in DOMAIN chain[n] :
        LET p == chain[n][k]
        IN  ~broken => Len(p.buffer) <
               CASE p.kind = "padding" -> HeaderLen + p.arg.chunk + p.arg.max
                 [] p.kind = "cfb_nonce" -> HandshakeSize
                 [] OTHER -> 1

\* The keys of cfb_nonce processors of the two nodes differ.
WrongHmacKey ==
    LET Keys(n) == {setup.specs[n][k].kv.hmac_key : k \in
                      {j \in DOMAIN setup.specs[n] : setup.specs[n][j].name = "cfb_nonce"}}
    IN  /\ \A n \in NodeName : Keys(n) # {}
        /\ Keys("near") \intersect Keys("far") = {}

\* docs/usage.md:118: a handshake with a tag of another key lets nothing pass,
\* not even a part of the stream.
WrongKeyDeliversNothing == WrongHmacKey => pipe[3] = <<>>

\* A chain that never returns has a padding processor with chunks of size 0:
\* nothing in the configuration refuses it.
HangsOnlyOnZeroChunk ==
    \A h \in Hop : loop[h] = "stuck" =>
        \E k \in DOMAIN chain[Node(h)] :
            LET p == chain[Node(h)][k] IN p.kind = "padding" /\ p.arg.chunk = 0

ZeroChunk == \E n \in NodeName : \E k \in DOMAIN setup.specs[n] :
                LET spec == setup.specs[n][k]
                IN  spec.name = "padding" /\ ValidSpec(spec) /\ spec.kv.chunk = 0

\* All that the source sends arrives in the end, and then its end, when both
\* nodes started with chains that mirror each other and nothing breaks.
DeliveredInTheEnd ==
    (Compatible /\ ~ZeroChunk /\ loop[1] # "none")
      ~> (broken \/ (fin[3] /\ pipe[3] = payload))
==============================================================================
