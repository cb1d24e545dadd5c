----------------------------- MODULE Stream_proofs -----------------------------
(***************************************************************************)
(* Proofs about Stream: for every pair of command lines, every payload and *)
(* every way in which the stream is cut on its way.                        *)
(***************************************************************************)
EXTENDS Stream, Processors_proofs

-----------------------------------------------------------------------------
(* The chains that the command lines make. *)

LEMMA ArgsTyped ==
    ASSUME NEW kv, TypedArgs(kv)
    PROVE  /\ "key" \in DOMAIN kv => kv.key \in Bytes
           /\ "iv" \in DOMAIN kv => kv.iv \in Bytes
           /\ "hmac_key" \in DOMAIN kv => kv.hmac_key \in Bytes
           /\ "chunk" \in DOMAIN kv => kv.chunk \in Nat
           /\ "max" \in DOMAIN kv => kv.max \in Nat
           /\ "seed" \in DOMAIN kv => kv.seed \in Nat
           /\ "reverse" \in DOMAIN kv => kv.reverse \in BOOLEAN
<1>1. /\ \A a \in {"key", "iv", "hmac_key"} \intersect DOMAIN kv : kv[a] \in Bytes
      /\ \A a \in {"chunk", "max", "seed"} \intersect DOMAIN kv : kv[a] \in Nat
      /\ \A a \in {"reverse"} \intersect DOMAIN kv : kv[a] \in BOOLEAN
  BY DEF TypedArgs, Bytes
<1> QED
  BY <1>1

\* The IV of a cfb processor depends on its key only.
CfbIv(key) == key \o [i \in 1..(MinIv - Len(key)) |-> (Len(key) + i - 1) % ByteSize]

LEMMA CfbIvTyped ==
    ASSUME NEW key \in Bytes
    PROVE  CfbIv(key) \in Bytes \ {<<>>}
<1> DEFINE n == Len(key)
           pad == [i \in 1..(MinIv - n) |-> (n + i - 1) % ByteSize]
<1>1. n \in Nat /\ key \in Seq(Byte)
  BY DEF Bytes
<1>2. MinIv \in Nat \ {0} /\ ByteSize \in Nat \ {0}
  BY SizeAssumption
<1>3. pad \in Seq(Byte) /\ (n < MinIv => Len(pad) = MinIv - n) /\ Len(pad) \in Nat
  <2>1. ASSUME NEW i \in 1..(MinIv - n) PROVE (n + i - 1) % ByteSize \in Byte
    <3>1. n + i - 1 \in Nat
      BY <1>1, <1>2
    <3> QED
      BY <3>1, Masked
  <2>2. CASE n < MinIv
    <3>1. MinIv - n \in Nat
      BY <1>1, <1>2, <2>2
    <3> QED
      BY <2>1, <3>1
  <2>3. CASE ~(n < MinIv)
    <3>1. 1..(MinIv - n) = {}
      BY <1>1, <1>2, <2>3
    <3>2. pad = <<>>
      BY <3>1
    <3>3. <<>> \in Seq(Byte) /\ Len(<<>>) = 0
      OBVIOUS
    <3> HIDE DEF pad
    <3> QED
      BY <2>3, <3>2, <3>3
  <2> QED
    BY <2>2, <2>3
<1> HIDE DEF pad
<1>4. key \o pad \in Seq(Byte) /\ Len(key \o pad) = n + Len(pad)
  <2>1. pad \in Seq(Byte)
    BY <1>3
  <2> QED
    BY <1>1, <2>1, ConcatTyped
<1>5. n + Len(pad) # 0
  <2> HIDE DEF n
  <2> QED
    BY <1>1, <1>2, <1>3
<1> QED
  BY <1>4, <1>5 DEF CfbIv, Bytes, pad

LEMMA MakeCases ==
    ASSUME NEW spec, NEW rev, NEW rnd
    PROVE  LET kv == spec.kv
               r == resolve_processor_reverse(kv, rev)
               seed == IF "seed" \in DOMAIN kv THEN kv.seed ELSE rnd.seed
               p == MakeProcessor(spec, rev, rnd)
           IN  /\ spec.name = "identity" => p = IdentityProcessor
               /\ spec.name = "cfb" => p = CfbProcessor(kv.key, r)
               /\ spec.name = "cfb_nonce" => p = CfbNonceProcessor(kv.iv, kv.hmac_key, rnd.nonce, r)
               /\ spec.name = "padding" => p = PaddingProcessor(kv.chunk, kv.max, seed, r)
BY DEF MakeProcessor

\* What the processors of a session need: that run_tunnel accepted the spec
\* and that its arguments and the random numbers have their types.
Given(spec, rnd) ==
    /\ ValidSpec(spec) /\ TypedArgs(spec.kv) /\ Digests(spec.kv)
    /\ rnd.nonce \in Nonces \union {<<>>} /\ rnd.seed \in Nat

LEMMA ResolveTyped ==
    ASSUME NEW kv, TypedArgs(kv), NEW rev \in BOOLEAN
    PROVE  resolve_processor_reverse(kv, rev) \in BOOLEAN
BY ArgsTyped DEF resolve_processor_reverse

LEMMA ValidCases ==
    ASSUME NEW spec, ValidSpec(spec)
    PROVE  /\ spec.name \in {"identity", "cfb", "cfb_nonce", "padding"}
           /\ spec.name = "cfb" => "key" \in DOMAIN spec.kv
           /\ spec.name = "cfb_nonce" => "iv" \in DOMAIN spec.kv /\ "hmac_key" \in DOMAIN spec.kv
           /\ spec.name = "padding" => /\ "chunk" \in DOMAIN spec.kv /\ "max" \in DOMAIN spec.kv
                                       /\ spec.kv.chunk <= U32Max /\ spec.kv.max <= U32Max
BY DEF ValidSpec

\* A processor before its first call.
New(p, r) ==
    /\ p \in Procs /\ p.buffer = <<>>
    /\ p.kind # "identity" => p.reverse = r

LEMMA NewIdentity == New(IdentityProcessor, FALSE) /\ IdentityProcessor.kind = "identity"
BY DEF IdentityProcessor, Processor, New, Procs, IdentityProcs

LEMMA NewCfb ==
    ASSUME NEW key \in Bytes, NEW r \in BOOLEAN
    PROVE  LET p == CfbProcessor(key, r)
           IN  /\ New(p, r) /\ p.kind = "cfb"
               /\ p.pack = Key(CfbIv(key)) /\ p.unpack = Key(CfbIv(key))
<1> DEFINE iv == CfbIv(key)
           k == Key(iv)
           p == CfbProcessor(key, r)
<1>1. iv \in Bytes \ {<<>>}
  BY CfbIvTyped
<1>2. p = [kind |-> "cfb", reverse |-> r, arg |-> <<>>, pack |-> k, unpack |-> k, buffer |-> <<>>]
  BY DEF CfbProcessor, Processor, CfbIv
<1> HIDE DEF iv, p
<1>3. k \in IdleKeys
  BY <1>1 DEF IdleKeys, Keys, Key, Bytes
<1> HIDE DEF k
<1>4. p \in CfbProcs
  BY <1>2, <1>3 DEF CfbProcs
<1>5. New(p, r)
  BY <1>2, <1>4 DEF New, Procs
<1> QED
  BY <1>2, <1>5 DEF p, k, iv

LEMMA NewNonce ==
    ASSUME NEW iv \in Bytes, NEW hmac_key \in Bytes, NEW nonce \in Nonces \union {<<>>},
           NEW r \in BOOLEAN,
           \A x \in Nonces : /\ Hmac(hmac_key, x) \in Tags
                             /\ Sha512(x \o iv) \in Bytes \ {<<>>}
    PROVE  LET p == CfbNonceProcessor(iv, hmac_key, nonce, r)
           IN  /\ New(p, r) /\ p.kind = "cfb_nonce"
               /\ p.pack = Key(<<>>) /\ p.unpack = Key(<<>>) /\ p.arg.iv = iv
<1> DEFINE a == [iv |-> iv, hmac_key |-> hmac_key, nonce |-> nonce]
           k == Key(<<>>)
           p == CfbNonceProcessor(iv, hmac_key, nonce, r)
<1>1. a \in NonceArgs
  BY DEF NonceArgs
<1>2. p = [kind |-> "cfb_nonce", reverse |-> r, arg |-> a, pack |-> k, unpack |-> k, buffer |-> <<>>]
  BY DEF CfbNonceProcessor, Processor
<1>3. a.iv = iv
  OBVIOUS
<1> HIDE DEF a, k, p
<1>4. <<>> \in Bytes
  BY DEF Bytes
<1>5. p \in NonceProcs
  BY <1>1, <1>2, <1>4 DEF NonceProcs, k
<1>6. New(p, r)
  BY <1>2, <1>5 DEF New, Procs
<1> QED
  BY <1>2, <1>3, <1>6 DEF p, k

LEMMA NewPadding ==
    ASSUME NEW chunk \in 0..U32Max, NEW max \in 0..U32Max, NEW seed \in Nat, NEW r \in BOOLEAN
    PROVE  LET p == PaddingProcessor(chunk, max, seed, r)
           IN  New(p, r) /\ p.kind = "padding"
<1> DEFINE a == [chunk |-> chunk, max |-> max, seed |-> <<seed, r>>]
           p == PaddingProcessor(chunk, max, seed, r)
<1>1. a \in PadArgs
  BY DEF PadArgs
<1>2. p = [kind |-> "padding", reverse |-> r, arg |-> a, pack |-> 0, unpack |-> 0, buffer |-> <<>>]
  BY DEF PaddingProcessor, Processor
<1> HIDE DEF a, p
<1>3. <<>> \in Bytes
  BY DEF Bytes
<1>4. p \in PaddingProcs
  BY <1>1, <1>2, <1>3 DEF PaddingProcs
<1>5. New(p, r)
  BY <1>2, <1>4 DEF New, Procs
<1> QED
  BY <1>2, <1>5 DEF p

\* The processor that MakeProcessor makes for a spec, with the keys it starts
\* with.
Made(p, spec, r) ==
    /\ New(p, r) /\ p.kind = spec.name
    /\ spec.name = "cfb" => /\ spec.kv.key \in Bytes
                            /\ p.pack = Key(CfbIv(spec.kv.key))
                            /\ p.unpack = Key(CfbIv(spec.kv.key))
    /\ spec.name = "cfb_nonce" => /\ p.pack = Key(<<>>) /\ p.unpack = Key(<<>>)
                                  /\ p.arg.iv = spec.kv.iv

LEMMA MakeNew ==
    ASSUME NEW spec, NEW rnd, Given(spec, rnd), NEW rev \in BOOLEAN
    PROVE  Made(MakeProcessor(spec, rev, rnd), spec, resolve_processor_reverse(spec.kv, rev))
<1> DEFINE kv == spec.kv
           r == resolve_processor_reverse(kv, rev)
           p == MakeProcessor(spec, rev, rnd)
           seed == IF "seed" \in DOMAIN kv THEN kv.seed ELSE rnd.seed
<1>1. r \in BOOLEAN /\ TypedArgs(kv)
  BY ResolveTyped DEF Given
<1>2. /\ spec.name = "identity" => p = IdentityProcessor
      /\ spec.name = "cfb" => p = CfbProcessor(kv.key, r)
      /\ spec.name = "cfb_nonce" => p = CfbNonceProcessor(kv.iv, kv.hmac_key, rnd.nonce, r)
      /\ spec.name = "padding" => p = PaddingProcessor(kv.chunk, kv.max, seed, r)
  BY MakeCases
<1>3. /\ spec.name \in {"identity", "cfb", "cfb_nonce", "padding"}
      /\ spec.name = "cfb" => "key" \in DOMAIN kv
      /\ spec.name = "cfb_nonce" => "iv" \in DOMAIN kv /\ "hmac_key" \in DOMAIN kv
      /\ spec.name = "padding" => /\ "chunk" \in DOMAIN kv /\ "max" \in DOMAIN kv
                                  /\ kv.chunk <= U32Max /\ kv.max <= U32Max
  BY ValidCases DEF Given
<1>4. /\ "key" \in DOMAIN kv => kv.key \in Bytes
      /\ "iv" \in DOMAIN kv => kv.iv \in Bytes
      /\ "hmac_key" \in DOMAIN kv => kv.hmac_key \in Bytes
      /\ "chunk" \in DOMAIN kv => kv.chunk \in Nat
      /\ "max" \in DOMAIN kv => kv.max \in Nat
      /\ "seed" \in DOMAIN kv => kv.seed \in Nat
  BY <1>1, ArgsTyped
<1>5. seed \in Nat /\ rnd.nonce \in Nonces \union {<<>>}
  BY <1>4 DEF Given
<1> HIDE DEF r, p, seed
<1>6. CASE spec.name = "identity"
  <2>1. New(p, r) /\ p.kind = "identity"
    BY <1>2, <1>6, NewIdentity DEF New
  <2> QED
    BY <1>6, <2>1 DEF Made, p, r
<1>7. CASE spec.name = "cfb"
  <2> DEFINE key == kv.key
  <2>1. key \in Bytes /\ p = CfbProcessor(key, r)
    BY <1>2, <1>3, <1>4, <1>7
  <2> HIDE DEF key
  <2>2. New(p, r) /\ p.kind = "cfb" /\ p.pack = Key(CfbIv(key)) /\ p.unpack = Key(CfbIv(key))
    BY <1>1, <2>1, NewCfb
  <2> QED
    BY <1>7, <2>1, <2>2 DEF Made, p, r, key
<1>8. CASE spec.name = "cfb_nonce"
  <2> DEFINE iv == kv.iv
             hk == kv.hmac_key
             nonce == rnd.nonce
  <2>1. iv \in Bytes /\ hk \in Bytes /\ nonce \in Nonces \union {<<>>}
    BY <1>3, <1>4, <1>5, <1>8
  <2>2. p = CfbNonceProcessor(iv, hk, nonce, r)
    BY <1>2, <1>8
  <2>3. \A x \in Nonces : /\ Hmac(hk, x) \in Tags
                          /\ Sha512(x \o iv) \in Bytes \ {<<>>}
    BY <1>3, <1>8 DEF Given, Digests, Nonces, Tags, Bytes
  <2> HIDE DEF iv, hk, nonce
  <2>4. New(p, r) /\ p.kind = "cfb_nonce" /\ p.pack = Key(<<>>) /\ p.unpack = Key(<<>>) /\ p.arg.iv = iv
    BY <1>1, <2>1, <2>2, <2>3, NewNonce
  <2> QED
    BY <1>8, <2>4 DEF Made, p, r, iv
<1>9. CASE spec.name = "padding"
  <2> DEFINE c == kv.chunk
             m == kv.max
  <2>1. c \in 0..U32Max /\ m \in 0..U32Max
    BY <1>3, <1>4, <1>9, U32Typed
  <2>2. p = PaddingProcessor(c, m, seed, r)
    BY <1>2, <1>9
  <2> HIDE DEF c, m
  <2>3. New(p, r) /\ p.kind = "padding"
    BY <1>1, <1>5, <2>1, <2>2, NewPadding
  <2> QED
    BY <1>9, <2>3 DEF Made, p, r
<1> QED
  BY <1>3, <1>6, <1>7, <1>8, <1>9

LEMMA NewSmall ==
    ASSUME NEW p, NEW r, New(p, r)
    PROVE  Small(p)
<1>1. p \in Procs /\ Len(p.buffer) = 0
  BY DEF New
<1>2. p.kind = "padding" => p.arg.chunk \in Nat /\ p.arg.max \in Nat
  BY <1>1, KindCases, U32Typed DEF PaddingProcs, PadArgs
<1>3. HandshakeSize \in Nat \ {0} /\ HeaderLen \in Nat \ {0}
  BY SizeAssumption, U32Typed DEF HandshakeSize
<1> QED
  BY <1>1, <1>2, <1>3 DEF Small

\* The specs of two processors that understand each other.
Matched(s, t) ==
    /\ s.name = t.name
    /\ s.name = "cfb" => s.kv.key = t.kv.key
    /\ s.name = "cfb_nonce" => s.kv.iv = t.kv.iv

LEMMA MadeLinked ==
    ASSUME NEW p, NEW q, NEW s, NEW t, NEW x, NEW y,
           Made(p, s, x), Made(q, t, y), Matched(s, t)
    PROVE  Linked(p, q, <<>>, <<>>) /\ Linked(q, p, <<>>, <<>>)
<1>1. p.kind = q.kind /\ p.kind = s.name /\ p.buffer = <<>> /\ q.buffer = <<>>
  BY DEF Made, Matched, New
<1>2. ASSUME s.name = "cfb" PROVE CipherLink(p.pack, q.unpack, <<>>, <<>>) /\ CipherLink(q.pack, p.unpack, <<>>, <<>>)
  <2> DEFINE iv == CfbIv(s.kv.key)
  <2>1. iv \in Bytes /\ iv # <<>>
    BY <1>2, CfbIvTyped DEF Made
  <2>2. p.pack = Key(iv) /\ p.unpack = Key(iv) /\ q.pack = Key(iv) /\ q.unpack = Key(iv)
    BY <1>2 DEF Made, Matched
  <2> HIDE DEF iv
  <2> QED
    BY <2>1, <2>2, CipherLinkStart
<1>3. ASSUME s.name = "cfb_nonce"
      PROVE  p.arg.iv = q.arg.iv /\ Fresh(p, q, <<>>, <<>>) /\ Fresh(q, p, <<>>, <<>>)
  BY <1>1, <1>3 DEF Made, Matched, Fresh
<1> QED
  BY <1>1, <1>2, <1>3, PadLinkStart DEF Linked, NonceLink

LEMMA ReverseTyped ==
    ASSUME NEW S, NEW s \in Seq(S)
    PROVE  /\ Reverse(s) \in Seq(S) /\ Len(Reverse(s)) = Len(s)
           /\ \A k \in 1..Len(s) : Reverse(s)[k] = s[Len(s) + 1 - k]
<1>1. Reverse(s) = [i \in 1..Len(s) |-> s[(Len(s) - i) + 1]]
  BY DEF Reverse
<1>2. Len(s) \in Nat /\ \A i \in 1..Len(s) : (Len(s) - i) + 1 = Len(s) + 1 - i /\ Len(s) + 1 - i \in 1..Len(s)
  OBVIOUS
<1>3. \A i \in 1..Len(s) : s[Len(s) + 1 - i] \in S
  BY <1>2
<1> QED
  BY <1>1, <1>2, <1>3

\* The spec that the k-th processor of a chain is made for.
SpecAt(specs, rev, k) == specs[IF rev THEN Len(specs) + 1 - k ELSE k]

\* The chain that was made for specs.
Built(c, specs, rev) ==
    /\ c \in Seq(Procs) /\ \A k \in 1..Len(c) : Small(c[k])
    /\ IF specs = <<>> THEN c = <<IdentityProcessor>>
       ELSE /\ Len(c) = Len(specs)
            /\ \A k \in 1..Len(c) :
                  Made(c[k], SpecAt(specs, rev, k),
                       resolve_processor_reverse(SpecAt(specs, rev, k).kv, rev))

LEMMA BuildNew ==
    ASSUME NEW S, NEW specs \in Seq(S), NEW rev \in BOOLEAN, NEW rnd,
           \A k \in 1..Len(specs) : Given(specs[k], rnd)
    PROVE  Built(build_processor_chain(specs, rev, rnd), specs, rev)
<1> DEFINE c == build_processor_chain(specs, rev, rnd)
           ordered == IF rev THEN Reverse(specs) ELSE specs
           n == Len(specs)
<1>1. CASE specs = <<>>
  <2>1. c = <<IdentityProcessor>>
    BY <1>1 DEF build_processor_chain
  <2>2. IdentityProcessor \in Procs /\ Small(IdentityProcessor)
    BY NewIdentity, NewSmall DEF New
  <2> HIDE DEF c
  <2>3. c \in Seq(Procs) /\ Len(c) = 1 /\ c[1] = IdentityProcessor
    BY <2>1, <2>2
  <2>4. \A k \in 1..Len(c) : Small(c[k])
    BY <2>2, <2>3
  <2> QED
    BY <1>1, <2>1, <2>3, <2>4 DEF Built, c
<1>2. CASE specs # <<>>
  <2>1. n \in Nat
    OBVIOUS
  <2>2. /\ ordered \in Seq(S) /\ Len(ordered) = n
        /\ \A k \in 1..n : ordered[k] = SpecAt(specs, rev, k)
    BY ReverseTyped DEF SpecAt
  <2>3. DOMAIN ordered = 1..n
    BY <2>2
  <2>4. c = [k \in DOMAIN ordered |-> MakeProcessor(ordered[k], rev, rnd)]
    BY <1>2 DEF build_processor_chain
  <2> HIDE DEF c, ordered
  <2>5. ASSUME NEW k \in 1..n
        PROVE  Made(c[k], SpecAt(specs, rev, k),
                    resolve_processor_reverse(SpecAt(specs, rev, k).kv, rev))
    <3> DEFINE s == SpecAt(specs, rev, k)
    <3>1. c[k] = MakeProcessor(s, rev, rnd)
      BY <2>2, <2>3, <2>4
    <3>2. Given(s, rnd)
      <4>1. (IF rev THEN n + 1 - k ELSE k) \in 1..n
        BY <2>1
      <4> QED
        BY <4>1 DEF SpecAt
    <3> HIDE DEF s
    <3>3. Made(c[k], s, resolve_processor_reverse(s.kv, rev))
      BY <3>1, <3>2, MakeNew
    <3> QED
      BY <3>3 DEF s
  <2>6. ASSUME NEW k \in 1..n PROVE c[k] \in Procs /\ Small(c[k])
    BY <2>5, NewSmall DEF Made, New
  <2>7. c \in Seq(Procs) /\ Len(c) = n
    <3>1. c \in [1..n -> Procs]
      <4>1. DOMAIN c = 1..n /\ c = [k \in 1..n |-> c[k]]
        BY <2>3, <2>4
      <4> QED
        BY <2>6, <4>1
    <3> HIDE DEF n
    <3> QED
      BY <2>1, <3>1, ChainTyped
  <2> QED
    BY <1>2, <2>5, <2>6, <2>7 DEF Built, c
<1> QED
  BY <1>1, <1>2

-----------------------------------------------------------------------------
(* Types, configuration and the limits of the accumulators. *)

\* Both hops call the chain of their node from the same side.
Side == IF dir = "up" THEN "local" ELSE "remote"

Types ==
    /\ TypeOK
    /\ chain \in [NodeName -> Seq(Procs)]
    /\ pipe \in [1..3 -> Bytes]
    /\ output \in [Hop -> Seq(Bytes)]

\* A node listens only with specs that are all valid.
Configured ==
    \A n \in NodeName : tunnel[n] = "listening" =>
        \A k \in DOMAIN setup.specs[n] : ValidSpec(setup.specs[n][k])

\* A loop reads, and ends unless something broke, only when it has written
\* everything.
Written ==
    \A h \in Hop : /\ loop[h] \in {"none", "read"} => output[h] = <<>>
                   /\ loop[h] = "done" /\ ~broken => output[h] = <<>>
                   /\ loop[h] = "write" => output[h] # <<>>

AllSmall ==
    ~broken => \A n \in NodeName : \A k \in 1..Len(chain[n]) : Small(chain[n][k])

SafeInv == Types /\ Configured /\ Written /\ AllSmall /\ HangsOnlyOnZeroChunk

LEMMA SideTyped == Side \in Sides
BY DEF Side, Sides

LEMMA NodeTyped ==
    /\ \A h \in Hop : Node(h) \in NodeName
    /\ Node(1) # Node(2) /\ NodeName = {Node(1), Node(2)}
BY DEF Node, NodeName, Hop

LEMMA ProcessVisits ==
    ASSUME NEW h, NEW input
    PROVE  /\ Process(h, input) = Visit(Side, chain[Node(h)], <<input>>)
           /\ Flush(h) = Visit(Side, chain[Node(h)], <<>>)
<1>1. CASE dir = "up"
  BY <1>1 DEF Side, Process, Flush, chain_on_local_data, chain_flush_local
<1>2. CASE dir # "up"
  BY <1>2 DEF Side, Process, Flush, chain_on_remote_data, chain_flush_remote
<1> QED
  BY <1>1, <1>2

LEMMA InitSafe == Init => SafeInv
<1> SUFFICES ASSUME Init PROVE SafeInv
  OBVIOUS
<1>1. payload \in Bytes /\ <<>> \in Bytes /\ <<>> \in Seq(Bytes) /\ <<>> \in Seq(Procs)
  BY PayloadsAssumption DEF Init, Bytes
<1>2. pipe = <<payload, <<>>, <<>> >> /\ fin = <<TRUE, FALSE, FALSE>>
  BY DEF Init
<1>3. pipe \in [1..3 -> Bytes] /\ DOMAIN pipe = 1..3
  BY <1>1, <1>2
<1>4. fin \in [1..3 -> BOOLEAN]
  <2> DEFINE a == TRUE
             b == FALSE
             t == <<a, b, b>>
  <2>1. a \in BOOLEAN /\ b \in BOOLEAN
    OBVIOUS
  <2> HIDE DEF a, b
  <2>2. t \in [1..3 -> BOOLEAN]
    BY <2>1
  <2>3. fin = t
    BY <1>2 DEF a, b
  <2> QED
    BY <2>2, <2>3
<1>5. chain \in [NodeName -> Seq(Procs)] /\ output \in [Hop -> Seq(Bytes)]
  BY <1>1 DEF Init
<1>6. loop \in [Hop -> {"none"}] /\ tunnel \in [NodeName -> {"starting"}]
  BY DEF Init
<1>7. TypeOK
  BY <1>3, <1>4, <1>5, <1>6 DEF Init, TypeOK, Bytes
<1>8. AllSmall
  BY <1>5 DEF Init, AllSmall
<1>9. \A h \in Hop : loop[h] = "none" /\ output[h] = <<>>
  BY DEF Init
<1> QED
  BY <1>3, <1>5, <1>6, <1>7, <1>8, <1>9
     DEF SafeInv, Types, Configured, Written, HangsOnlyOnZeroChunk

\* What a step of a loop that reads does.
Reads(h, input, rest, r) ==
    /\ loop[h] = "read"
    /\ input \in Bytes /\ rest \in Bytes /\ Joins(pipe[h], input, rest)
    /\ r = Visit(Side, chain[Node(h)], <<input>>)
    /\ pipe' = [pipe EXCEPT ![h] = rest]
    /\ chain' = [chain EXCEPT ![Node(h)] = r.p]
    /\ output' = [output EXCEPT ![h] = r.out]
    /\ \/ /\ r.status = "ok"
          /\ loop' = [loop EXCEPT ![h] = IF r.out = <<>> THEN "read" ELSE "write"]
          /\ fin' = fin /\ broken' = broken
       \/ /\ r.status = "throw"
          /\ loop' = [loop EXCEPT ![h] = "done"]
          /\ fin' = [fin EXCEPT ![h + 1] = TRUE]
          /\ broken' = TRUE
       \/ /\ r.status = "hang"
          /\ loop' = [loop EXCEPT ![h] = "stuck"]
          /\ fin' = fin /\ broken' = broken
    /\ UNCHANGED <<setup, payload, dir, tunnel>>

LEMMA ReadCases ==
    ASSUME Types, NEW h \in Hop, Read(h)
    PROVE  \E input, rest, r : Reads(h, input, rest, r)
<1> DEFINE s == pipe[h]
<1>1. s \in Bytes /\ s \in Seq(Byte) /\ Len(s) \in Nat
  BY DEF Types, Hop, Bytes
<1>2. PICK k \in 1..Min({MaxRead, Len(pipe[h])}) :
        \E q \in {Process(h, SubSeq(pipe[h], 1, k))} :
            /\ pipe' = [pipe EXCEPT ![h] = SubSeq(@, k + 1, Len(@))]
            /\ chain' = [chain EXCEPT ![Node(h)] = q.p]
            /\ output' = [output EXCEPT ![h] = q.out]
            /\ \/ /\ q.status = "ok"
                  /\ loop' = [loop EXCEPT ![h] = IF q.out = <<>> THEN "read" ELSE "write"]
                  /\ UNCHANGED <<fin, broken>>
               \/ /\ q.status = "throw"
                  /\ Done(h)
                  /\ broken' = TRUE
               \/ /\ q.status = "hang"
                  /\ loop' = [loop EXCEPT ![h] = "stuck"]
                  /\ UNCHANGED <<fin, broken>>
  BY DEF Read
<1>3. k \in 0..Len(s)
  <2> DEFINE l == Len(s)
  <2>1. k \in 1..Min({MaxRead, l}) /\ l \in Nat /\ MaxRead \in Nat
    BY <1>1, <1>2, MaxReadAssumption
  <2> HIDE DEF l
  <2>2. Min({MaxRead, l}) = IF MaxRead <= l THEN MaxRead ELSE l
    BY <2>1, MinOfTwo
  <2>3. k \in 0..l
    BY ONLY <2>1, <2>2
  <2> QED
    BY <2>3 DEF l
<1> DEFINE input == SubSeq(s, 1, k)
           rest == After(s, k)
           r == Visit(Side, chain[Node(h)], <<input>>)
<1>4. input \in Bytes /\ rest \in Bytes /\ Joins(s, input, rest)
  BY <1>1, <1>3, SplitAt, AfterTyped DEF Joins, Bytes
<1>5. Process(h, SubSeq(pipe[h], 1, k)) = r
  BY ProcessVisits
<1>6. pipe' = [pipe EXCEPT ![h] = rest]
  BY <1>2 DEF After, Types
<1> HIDE DEF input, rest, r
<1>7. /\ chain' = [chain EXCEPT ![Node(h)] = r.p]
      /\ output' = [output EXCEPT ![h] = r.out]
      /\ \/ /\ r.status = "ok"
            /\ loop' = [loop EXCEPT ![h] = IF r.out = <<>> THEN "read" ELSE "write"]
            /\ UNCHANGED <<fin, broken>>
         \/ /\ r.status = "throw"
            /\ Done(h)
            /\ broken' = TRUE
         \/ /\ r.status = "hang"
            /\ loop' = [loop EXCEPT ![h] = "stuck"]
            /\ UNCHANGED <<fin, broken>>
  BY <1>2, <1>5
<1>8. loop[h] = "read" /\ UNCHANGED <<setup, payload, dir, tunnel>>
  BY DEF Read, fixed
<1>9. r = Visit(Side, chain[Node(h)], <<input>>)
  BY DEF r
<1>10. Reads(h, input, rest, r)
  BY <1>4, <1>6, <1>7, <1>8, <1>9 DEF Reads, Done
<1> QED
  BY <1>10

\* The call of a loop that reads.
LEMMA ReadsSound ==
    ASSUME DrawsNumbers, Types, NEW h \in Hop, NEW input, NEW rest, NEW r,
           Reads(h, input, rest, r)
    PROVE  LET c == chain[Node(h)]
           IN  /\ c \in Seq(Procs) /\ <<input>> \in Seq(Bytes)
               /\ ChainSound(c, r)
               /\ r.p \in Seq(Procs) /\ Len(r.p) = Len(c) /\ r.out \in Seq(Bytes)
               /\ r.status \in Statuses
<1> DEFINE c == chain[Node(h)]
           b == <<input>>
<1>1. c \in Seq(Procs)
  BY NodeTyped DEF Types
<1>2. b \in Seq(Bytes)
  BY DEF Reads
<1>3. r = Visit(Side, c, b)
  BY DEF Reads
<1> HIDE DEF c, b
<1>4. ChainSound(c, r)
  BY <1>1, <1>2, <1>3, SideTyped, VisitSound
<1>5. r.p \in Seq(Procs) /\ Len(r.p) = Len(c) /\ r.out \in Seq(Bytes) /\ r.status \in Statuses
  BY <1>1, <1>2, <1>3, SideTyped, VisitKeeps
<1> QED
  BY <1>1, <1>2, <1>4, <1>5 DEF c, b

LEMMA ReadSafe ==
    ASSUME DrawsNumbers, SafeInv, NEW h \in Hop, NEW input, NEW rest, NEW r,
           Reads(h, input, rest, r)
    PROVE  SafeInv'
<1> DEFINE n == Node(h)
           c == chain[n]
<1>1. /\ Types /\ Configured /\ Written /\ AllSmall /\ HangsOnlyOnZeroChunk
      /\ n \in NodeName /\ h + 1 \in 1..3 /\ h \in 1..3
  BY NodeTyped DEF SafeInv, Hop
<1>2. /\ c \in Seq(Procs) /\ ChainSound(c, r)
      /\ r.p \in Seq(Procs) /\ Len(r.p) = Len(c) /\ r.out \in Seq(Bytes)
      /\ r.status \in Statuses
  BY <1>1, ReadsSound
<1>3. /\ setup' = setup /\ payload' = payload /\ dir' = dir /\ tunnel' = tunnel
      /\ pipe' = [pipe EXCEPT ![h] = rest] /\ rest \in Bytes
      /\ chain' = [chain EXCEPT ![n] = r.p]
      /\ output' = [output EXCEPT ![h] = r.out]
  BY DEF Reads
<1>4. \/ /\ r.status = "ok"
         /\ loop' = [loop EXCEPT ![h] = IF r.out = <<>> THEN "read" ELSE "write"]
         /\ fin' = fin /\ broken' = broken
      \/ /\ r.status = "throw"
         /\ loop' = [loop EXCEPT ![h] = "done"]
         /\ fin' = [fin EXCEPT ![h + 1] = TRUE]
         /\ broken' = TRUE
      \/ /\ r.status = "hang"
         /\ loop' = [loop EXCEPT ![h] = "stuck"]
         /\ fin' = fin /\ broken' = broken
  BY DEF Reads
<1>5. \A x : Node(x)' = Node(x)
  BY <1>3 DEF Node
<1> HIDE DEF n
<1>6. Types'
  <2>1. chain' \in [NodeName -> Seq(Procs)] /\ pipe' \in [1..3 -> Bytes] /\ output' \in [Hop -> Seq(Bytes)]
    BY <1>1, <1>2, <1>3 DEF Types
  <2>2. loop' \in [Hop -> {"none", "read", "write", "done", "stuck"}]
    BY <1>1, <1>4 DEF Types, TypeOK
  <2>3. fin' \in [1..3 -> BOOLEAN]
    <3>1. fin \in [1..3 -> BOOLEAN]
      BY <1>1 DEF Types, TypeOK
    <3>2. [fin EXCEPT ![h + 1] = TRUE] \in [1..3 -> BOOLEAN]
      BY <1>1, <3>1
    <3> QED
      BY <1>4, <3>1, <3>2
  <2>4. broken' \in BOOLEAN
    BY <1>1, <1>4 DEF Types, TypeOK
  <2>5. TypeOK'
    BY <1>1, <1>3, <2>1, <2>2, <2>3, <2>4 DEF Types, TypeOK, Bytes
  <2> QED
    BY <2>1, <2>5 DEF Types
<1>7. Configured'
  BY <1>1, <1>3 DEF Configured
<1>8. Written'
  <2> SUFFICES ASSUME NEW g \in Hop
               PROVE  /\ loop'[g] \in {"none", "read"} => output'[g] = <<>>
                      /\ loop'[g] = "done" /\ ~broken' => output'[g] = <<>>
                      /\ loop'[g] = "write" => output'[g] # <<>>
    BY DEF Written
  <2>1. loop \in [Hop -> {"none", "read", "write", "done", "stuck"}] /\ output \in [Hop -> Seq(Bytes)]
    BY <1>1 DEF Types, TypeOK
  <2>2. CASE g = h
    BY <1>3, <1>4, <2>1, <2>2
  <2>3. CASE g # h
    <3>1. loop'[g] = loop[g] /\ output'[g] = output[g] /\ (~broken' => ~broken)
      BY <1>1, <1>3, <1>4, <2>1, <2>3 DEF Types, TypeOK
    <3> QED
      BY <1>1, <3>1 DEF Written
  <2> QED
    BY <2>2, <2>3
<1>9. \A m \in NodeName : chain'[m] = IF m = n THEN r.p ELSE chain[m]
  BY <1>1, <1>3 DEF Types
<1>10. AllSmall'
  <2> SUFFICES ASSUME ~broken', NEW m \in NodeName, NEW k \in 1..Len(chain'[m])
               PROVE  Small(chain'[m][k])
    BY DEF AllSmall
  <2>1. ~broken /\ r.status # "throw"
    BY <1>1, <1>4 DEF Types, TypeOK
  <2>2. CASE m = n
    <3>1. \A x \in 1..Len(c) : Small(c[x])
      BY <1>1, <2>1 DEF AllSmall
    <3>2. \A x \in 1..Len(c) : Small(r.p[x])
      BY <1>2, <2>1, <3>1 DEF ChainSound
    <3> QED
      BY <1>2, <1>9, <2>2, <3>2
  <2>3. CASE m # n
    BY <1>1, <1>9, <2>1, <2>3 DEF AllSmall
  <2> QED
    BY <2>2, <2>3
<1>11. HangsOnlyOnZeroChunk'
  <2> DEFINE Zero(p) == p.kind = "padding" /\ p.arg.chunk = 0
  <2> SUFFICES ASSUME NEW g \in Hop, loop'[g] = "stuck"
               PROVE  \E k \in DOMAIN chain'[Node(g)] : Zero(chain'[Node(g)][k])
    BY <1>5 DEF HangsOnlyOnZeroChunk
  <2>1. loop \in [Hop -> {"none", "read", "write", "done", "stuck"}]
    BY <1>1 DEF Types, TypeOK
  <2>2. CASE g = h
    <3>1. r.status = "hang"
      BY <1>4, <2>1, <2>2
    <3>2. PICK k \in 1..Len(c) : c[k].kind = "padding" /\ c[k].arg.chunk = 0
      BY <1>2, <3>1 DEF ChainSound
    <3>3. Same(c[k], r.p[k])
      BY <1>2 DEF ChainSound
    <3>4. Zero(r.p[k])
      BY <3>2, <3>3 DEF Same
    <3>5. chain'[Node(g)] = r.p /\ k \in DOMAIN r.p
      BY <1>1, <1>2, <1>9, <2>2 DEF n
    <3> QED
      BY <3>4, <3>5
  <2>3. CASE g # h
    <3>1. loop[g] = "stuck"
      BY <1>4, <2>1, <2>3
    <3>2. \E k \in DOMAIN chain[Node(g)] : Zero(chain[Node(g)][k])
      BY <1>1, <3>1 DEF HangsOnlyOnZeroChunk
    <3>3. Node(g) \in NodeName /\ Node(g) # n
      BY <2>3, NodeTyped DEF n, Hop
    <3> QED
      BY <1>9, <3>2, <3>3
  <2> QED
    BY <2>2, <2>3
<1> QED
  BY <1>6, <1>7, <1>8, <1>10, <1>11 DEF SafeInv

\* The other steps leave the chains alone, or make them.
LEMMA KeepsSafe ==
    ASSUME SafeInv, dir' = dir, chain' = chain, broken => broken',
           Types', Configured', Written',
           \A h \in Hop : loop'[h] = "stuck" => loop[h] = "stuck"
    PROVE  SafeInv'
<1>1. AllSmall /\ HangsOnlyOnZeroChunk
  BY DEF SafeInv
<1>2. AllSmall'
  BY <1>1 DEF AllSmall
<1>3. \A h : Node(h)' = Node(h)
  BY DEF Node
<1>4. HangsOnlyOnZeroChunk'
  BY <1>1, <1>3 DEF HangsOnlyOnZeroChunk
<1> QED
  BY <1>2, <1>4 DEF SafeInv

LEMMA SetupTyped ==
    ASSUME NEW s \in Setups, NEW n \in NodeName
    PROVE  /\ s.specs[n] \in Seq(Range(s.specs[n])) /\ s.reverse[n] \in BOOLEAN
           /\ DOMAIN s.specs[n] = 1..Len(s.specs[n]) /\ Len(s.specs[n]) \in Nat
           /\ \A k \in DOMAIN s.specs[n] : TypedArgs(s.specs[n][k].kv) /\ Digests(s.specs[n][k].kv)
<1> DEFINE c == s.specs[n]
<1>1. /\ c \in Seq(Range(c)) /\ s.reverse[n] \in BOOLEAN
      /\ \A k \in DOMAIN c : TypedArgs(c[k].kv) /\ Digests(c[k].kv)
  BY SetupsAssumption
<1> HIDE DEF c
<1>2. DOMAIN c = 1..Len(c) /\ Len(c) \in Nat
  BY <1>1
<1> QED
  BY <1>1, <1>2 DEF c

\* The chains of a session.
LEMMA ConnectBuilds ==
    ASSUME SafeInv, NEW rnd \in Randoms, \A n \in NodeName : tunnel[n] = "listening",
           NEW n \in NodeName
    PROVE  Built(build_processor_chain(setup.specs[n], setup.reverse[n], rnd),
                 setup.specs[n], setup.reverse[n])
<1> DEFINE specs == setup.specs[n]
           rev == setup.reverse[n]
<1>1. setup \in Setups /\ \A k \in DOMAIN specs : ValidSpec(specs[k])
  BY DEF SafeInv, Types, TypeOK, Configured
<1>2. /\ specs \in Seq(Range(specs)) /\ rev \in BOOLEAN
      /\ DOMAIN specs = 1..Len(specs)
      /\ \A k \in DOMAIN specs : TypedArgs(specs[k].kv) /\ Digests(specs[k].kv)
  BY <1>1, SetupTyped
<1>3. rnd.nonce \in Nonces \union {<<>>} /\ rnd.seed \in Nat
  BY RandomsAssumption DEF Nonces
<1> HIDE DEF specs, rev
<1>4. \A k \in 1..Len(specs) : Given(specs[k], rnd)
  BY <1>1, <1>2, <1>3 DEF Given
<1>5. Built(build_processor_chain(specs, rev, rnd), specs, rev)
  <2> DEFINE S == Range(specs)
  <2>1. specs \in Seq(S)
    BY <1>2
  <2> HIDE DEF S
  <2> QED
    BY <1>2, <1>4, <2>1, BuildNew
<1> QED
  BY <1>5 DEF specs, rev

LEMMA ConnectSafe == SafeInv /\ Connect => SafeInv'
<1> SUFFICES ASSUME SafeInv, Connect PROVE SafeInv'
  OBVIOUS
<1>1. Types /\ Configured /\ Written /\ AllSmall
  BY DEF SafeInv
<1>2. PICK rnd \in Randoms :
        chain' = [n \in NodeName |->
                    build_processor_chain(setup.specs[n], setup.reverse[n], rnd)]
  BY DEF Connect
<1>3. /\ setup' = setup /\ payload' = payload /\ dir' = dir /\ tunnel' = tunnel
      /\ pipe' = pipe /\ fin' = fin /\ output' = output /\ broken' = broken
      /\ loop' = [h \in Hop |-> "read"]
      /\ \A h \in Hop : loop[h] = "none"
      /\ \A n \in NodeName : tunnel[n] = "listening"
  BY DEF Connect, fixed
<1>4. \A n \in NodeName : chain'[n] \in Seq(Procs) /\ \A k \in 1..Len(chain'[n]) : Small(chain'[n][k])
  <2> SUFFICES ASSUME NEW n \in NodeName
               PROVE  chain'[n] \in Seq(Procs) /\ \A k \in 1..Len(chain'[n]) : Small(chain'[n][k])
    OBVIOUS
  <2> DEFINE c == build_processor_chain(setup.specs[n], setup.reverse[n], rnd)
  <2>1. Built(c, setup.specs[n], setup.reverse[n])
    BY <1>3, ConnectBuilds
  <2>2. chain'[n] = c
    BY <1>2
  <2> HIDE DEF c
  <2> QED
    BY <2>1, <2>2 DEF Built
<1>5. chain' \in [NodeName -> Seq(Procs)] /\ DOMAIN chain' = NodeName
  BY <1>2, <1>4
<1>6. Types'
  BY <1>1, <1>3, <1>5 DEF Types, TypeOK
<1>7. Configured' /\ AllSmall'
  BY <1>1, <1>3, <1>4 DEF Configured, AllSmall
<1>8. HangsOnlyOnZeroChunk'
  BY <1>3 DEF HangsOnlyOnZeroChunk
<1>9. Written'
  BY <1>1, <1>3, <1>5 DEF Written
<1> QED
  BY <1>6, <1>7, <1>8, <1>9 DEF SafeInv

LEMMA WriteTyped0 ==
    ASSUME Types, Written, NEW h \in Hop, Write(h)
    PROVE  /\ Head(output[h]) \in Bytes /\ Tail(output[h]) \in Seq(Bytes)
           /\ Flat(output[h]) = Head(output[h]) \o Flat(Tail(output[h]))
           /\ Len(output[h]) = 1 <=> Tail(output[h]) = <<>>
<1> DEFINE b == output[h]
<1>1. b \in Seq(Bytes) /\ b # <<>>
  BY DEF Types, Written, Write
<1> HIDE DEF b
<1>2. Len(b) = 1 <=> Tail(b) = <<>>
  <2>1. Tail(b) \in Seq(Bytes) /\ Len(Tail(b)) = Len(b) - 1 /\ Len(b) \in Nat /\ Len(b) # 0
    BY <1>1
  <2> DEFINE t == Tail(b)
  <2> HIDE DEF t
  <2>2. t = <<>> <=> Len(t) = 0
    <3>1. t \in Seq(Bytes)
      BY <2>1 DEF t
    <3> QED
      BY <3>1
  <2> QED
    BY <2>1, <2>2 DEF t
<1> QED
  BY <1>1, <1>2, FlatHead DEF b

LEMMA WriteSafe ==
    ASSUME SafeInv, NEW h \in Hop, Write(h)
    PROVE  SafeInv'
<1>1. Types /\ Configured /\ Written /\ h + 1 \in 1..3
  BY DEF SafeInv, Hop
<1> DEFINE b == Head(output[h])
           t == Tail(output[h])
           p == [pipe EXCEPT ![h + 1] = @ \o b]
<1>2. b \in Bytes /\ t \in Seq(Bytes) /\ (Len(output[h]) = 1 <=> t = <<>>)
  BY <1>1, WriteTyped0
<1>3. /\ setup' = setup /\ payload' = payload /\ dir' = dir /\ tunnel' = tunnel
      /\ chain' = chain /\ fin' = fin /\ broken' = broken
      /\ pipe' = IF h = 1 /\ broken THEN pipe ELSE p
      /\ output' = [output EXCEPT ![h] = t]
      /\ loop' = [loop EXCEPT ![h] = IF Len(output[h]) = 1 THEN "read" ELSE "write"]
      /\ loop[h] = "write"
  BY DEF Write, fixed, Types
<1>4. p \in [1..3 -> Bytes]
  <2> DEFINE a == pipe[h + 1]
  <2>1. a \in Bytes
    BY <1>1 DEF Types
  <2> HIDE DEF a, b
  <2>2. a \o b \in Bytes
    BY <1>2, <2>1, BytesAssoc
  <2> QED
    BY <1>1, <2>2 DEF Types, a
<1> HIDE DEF b, t, p
<1>5. pipe' \in [1..3 -> Bytes] /\ output' \in [Hop -> Seq(Bytes)]
  BY <1>1, <1>2, <1>3, <1>4 DEF Types
<1>6. loop \in [Hop -> {"none", "read", "write", "done", "stuck"}]
  BY <1>1 DEF Types, TypeOK
<1>7. loop' \in [Hop -> {"none", "read", "write", "done", "stuck"}]
  BY <1>3, <1>6
<1>8. Types'
  BY <1>1, <1>3, <1>5, <1>7 DEF Types, TypeOK, Bytes
<1>9. Configured'
  BY <1>1, <1>3 DEF Configured
<1>10. Written'
  <2> SUFFICES ASSUME NEW g \in Hop
               PROVE  /\ loop'[g] \in {"none", "read"} => output'[g] = <<>>
                      /\ loop'[g] = "done" /\ ~broken' => output'[g] = <<>>
                      /\ loop'[g] = "write" => output'[g] # <<>>
    BY DEF Written
  <2>1. CASE g = h
    BY <1>1, <1>2, <1>3, <1>6, <2>1 DEF Types
  <2>2. CASE g # h
    <3>1. loop'[g] = loop[g] /\ output'[g] = output[g]
      BY <1>1, <1>3, <1>6, <2>2 DEF Types
    <3> QED
      BY <1>1, <1>3, <3>1 DEF Written
  <2> QED
    BY <2>1, <2>2
<1>11. \A g \in Hop : loop'[g] = "stuck" => loop[g] = "stuck"
  BY <1>3, <1>6
<1> QED
  BY <1>3, <1>8, <1>9, <1>10, <1>11, KeepsSafe

LEMMA EofSafe ==
    ASSUME SafeInv, NEW h \in Hop, Eof(h)
    PROVE  SafeInv'
<1>1. Types /\ Configured /\ Written /\ h + 1 \in 1..3
  BY DEF SafeInv, Hop
<1>2. /\ setup' = setup /\ payload' = payload /\ dir' = dir /\ tunnel' = tunnel
      /\ chain' = chain /\ pipe' = pipe /\ output' = output
      /\ broken' = (broken \/ Flush(h).out # <<>>)
      /\ loop' = [loop EXCEPT ![h] = "done"]
      /\ fin' = [fin EXCEPT ![h + 1] = TRUE]
      /\ loop[h] = "read"
  BY DEF Eof, Done, fixed
<1>3. loop \in [Hop -> {"none", "read", "write", "done", "stuck"}] /\ broken \in BOOLEAN
      /\ fin \in [1..3 -> BOOLEAN]
  BY <1>1 DEF Types, TypeOK
<1>4. loop' \in [Hop -> {"none", "read", "write", "done", "stuck"}] /\ broken' \in BOOLEAN
  BY <1>2, <1>3
<1>5. fin' \in [1..3 -> BOOLEAN]
  BY <1>1, <1>2, <1>3
<1>6. Types'
  BY <1>1, <1>2, <1>4, <1>5 DEF Types, TypeOK
<1>7. Configured'
  BY <1>1, <1>2 DEF Configured
<1>8. Written'
  BY <1>1, <1>2, <1>3 DEF Written
<1>9. \A g \in Hop : loop'[g] = "stuck" => loop[g] = "stuck"
  BY <1>2, <1>3
<1>10. broken => broken'
  BY <1>2
<1> QED
  BY <1>2, <1>6, <1>7, <1>8, <1>9, <1>10, KeepsSafe

LEMMA FailsSafe ==
    ASSUME SafeInv, NEW h \in Hop, Fails(h)
    PROVE  SafeInv'
<1>1. Types /\ Configured /\ Written /\ h + 1 \in 1..3
  BY DEF SafeInv, Hop
<1>2. /\ setup' = setup /\ payload' = payload /\ dir' = dir /\ tunnel' = tunnel
      /\ chain' = chain /\ pipe' = pipe /\ broken' = broken
      /\ output' = [output EXCEPT ![h] = <<>>]
      /\ loop' = [loop EXCEPT ![h] = "done"]
      /\ fin' = [fin EXCEPT ![h + 1] = TRUE]
      /\ broken /\ loop[h] \in {"read", "write"}
  BY DEF Fails, Done, fixed
<1>3. loop \in [Hop -> {"none", "read", "write", "done", "stuck"}] /\ broken \in BOOLEAN
      /\ fin \in [1..3 -> BOOLEAN]
  BY <1>1 DEF Types, TypeOK
<1>4. loop' \in [Hop -> {"none", "read", "write", "done", "stuck"}] /\ output' \in [Hop -> Seq(Bytes)]
  <2>1. <<>> \in Seq(Bytes)
    OBVIOUS
  <2> QED
    BY <1>1, <1>2, <1>3, <2>1 DEF Types
<1>5. fin' \in [1..3 -> BOOLEAN]
  BY <1>1, <1>2, <1>3
<1>6. Types'
  BY <1>1, <1>2, <1>4, <1>5 DEF Types, TypeOK, Bytes
<1>7. Configured'
  BY <1>1, <1>2 DEF Configured
<1>8. Written'
  BY <1>1, <1>2, <1>3 DEF Written, Types
<1>9. \A g \in Hop : loop'[g] = "stuck" => loop[g] = "stuck"
  BY <1>2, <1>3
<1> QED
  BY <1>2, <1>6, <1>7, <1>8, <1>9, KeepsSafe

LEMMA LoseSafe ==
    ASSUME SafeInv, Lose
    PROVE  SafeInv'
<1>1. Types /\ Configured /\ Written
  BY DEF SafeInv
<1>2. /\ setup' = setup /\ payload' = payload /\ dir' = dir /\ tunnel' = tunnel
      /\ chain' = chain /\ output' = output /\ broken' = TRUE
      /\ fin' = fin /\ loop' = loop
  BY DEF Lose, fixed
<1>3. PICK k \in 0..Len(pipe[2]) : pipe' = [pipe EXCEPT ![2] = SubSeq(@, 1, k)]
  BY DEF Lose
<1>4. pipe' \in [1..3 -> Bytes]
  <2> DEFINE s == pipe[2]
  <2>1. s \in Seq(Byte)
    BY <1>1 DEF Types, Bytes
  <2>2. k \in 0..Len(s)
    OBVIOUS
  <2> HIDE DEF s
  <2>3. SubSeq(s, 1, k) \in Bytes
    BY <2>1, <2>2, SplitAt DEF Bytes
  <2> QED
    BY <1>1, <1>3, <2>3 DEF Types, s
<1>5. Types'
  BY <1>1, <1>2, <1>4 DEF Types, TypeOK, Bytes
<1>6. Configured' /\ Written'
  BY <1>1, <1>2 DEF Configured, Written
<1> QED
  BY <1>2, <1>5, <1>6, KeepsSafe

LEMMA RunTunnelSafe ==
    ASSUME SafeInv, NEW n \in NodeName, run_tunnel(n)
    PROVE  SafeInv'
<1>1. Types /\ Configured /\ Written
  BY DEF SafeInv
<1> DEFINE valid == \A k \in DOMAIN setup.specs[n] : ValidSpec(setup.specs[n][k])
<1>2. /\ setup' = setup /\ payload' = payload /\ dir' = dir /\ pipe' = pipe
      /\ chain' = chain /\ output' = output /\ broken' = broken
      /\ fin' = fin /\ loop' = loop
      /\ tunnel' = [tunnel EXCEPT ![n] = IF valid THEN "listening" ELSE "refused"]
  BY DEF run_tunnel, fixed
<1>3. tunnel \in [NodeName -> {"starting", "listening", "refused"}]
  BY <1>1 DEF Types, TypeOK
<1>4. Configured'
  <2> SUFFICES ASSUME NEW m \in NodeName, tunnel'[m] = "listening"
               PROVE  \A k \in DOMAIN setup.specs[m] : ValidSpec(setup.specs[m][k])
    BY <1>2 DEF Configured
  <2>1. CASE m = n
    BY <1>2, <1>3, <2>1
  <2>2. CASE m # n
    BY <1>1, <1>2, <1>3, <2>2 DEF Configured
  <2> QED
    BY <2>1, <2>2
<1> HIDE DEF valid
<1>5. tunnel' \in [NodeName -> {"starting", "listening", "refused"}]
  BY <1>2, <1>3
<1>6. Types' /\ Written'
  BY <1>1, <1>2, <1>5 DEF Types, TypeOK, Written
<1> QED
  BY <1>2, <1>4, <1>6, KeepsSafe

LEMMA StepSafe ==
    ASSUME DrawsNumbers
    PROVE  SafeInv /\ [Next]_vars => SafeInv'
<1> SUFFICES ASSUME SafeInv, [Next]_vars PROVE SafeInv'
  OBVIOUS
<1>1. CASE \E n \in NodeName : run_tunnel(n)
  BY <1>1, RunTunnelSafe
<1>2. CASE Connect
  BY <1>2, ConnectSafe
<1>3. CASE Lose
  BY <1>3, LoseSafe
<1>4. ASSUME NEW h \in Hop, LoopNext(h) PROVE SafeInv'
  <2>1. CASE Read(h)
    BY <2>1, ReadCases, ReadSafe DEF SafeInv
  <2>2. CASE Write(h)
    BY <2>2, WriteSafe
  <2>3. CASE Eof(h)
    BY <2>3, EofSafe
  <2>4. CASE Fails(h)
    BY <2>4, FailsSafe
  <2> QED
    BY <1>4, <2>1, <2>2, <2>3, <2>4 DEF LoopNext
<1>5. CASE UNCHANGED vars
  <2>1. Types' /\ Configured' /\ Written'
    BY <1>5 DEF vars, SafeInv, Types, TypeOK, Configured, Written
  <2> QED
    BY <1>5, <2>1, KeepsSafe DEF vars
<1> QED
  BY <1>1, <1>2, <1>3, <1>4, <1>5 DEF Next

\* In every reachable state the chains are chains of processors, and their
\* accumulators are small as long as nothing broke.
LEMMA AlwaysSafe ==
    ASSUME DrawsNumbers
    PROVE  Spec => []SafeInv
<1>1. SafeInv /\ [Next]_vars => SafeInv'
  BY StepSafe
<1> QED
  BY InitSafe, <1>1, PTL DEF Spec

\* Every variable has its type: buffers, streams and accumulators hold bytes,
\* whatever arrives from the other node.
THEOREM StreamTyped ==
    ASSUME DrawsNumbers
    PROVE  Spec => []TypeOK
<1>1. SafeInv => TypeOK
  BY DEF SafeInv, Types
<1> QED
  BY AlwaysSafe, <1>1, PTL

\* What a processor collects before it can go on never reaches the size of
\* what it waits for: a frame of padding or the handshake of cfb_nonce.
THEOREM AccumulatorsBounded ==
    ASSUME DrawsNumbers
    PROVE  Spec => []BuffersBounded
<1>1. SafeInv => BuffersBounded
  <2> SUFFICES ASSUME SafeInv, NEW n \in NodeName, NEW k \in DOMAIN chain[n], ~broken
               PROVE  LET p == chain[n][k]
                      IN  Len(p.buffer) <
                            CASE p.kind = "padding" -> HeaderLen + p.arg.chunk + p.arg.max
                              [] p.kind = "cfb_nonce" -> HandshakeSize
                              [] OTHER -> 1
    BY DEF BuffersBounded
  <2> DEFINE p == chain[n][k]
  <2>1. chain[n] \in Seq(Procs)
    BY DEF SafeInv, Types
  <2>2. k \in 1..Len(chain[n]) /\ p \in Procs
    BY <2>1
  <2>3. Small(p)
    BY <2>2 DEF SafeInv, AllSmall
  <2> HIDE DEF p
  <2>4. p.kind \in {"identity", "cfb", "cfb_nonce", "padding"}
    BY <2>2, KindCases
  <2>5. Len(p.buffer) <
          CASE p.kind = "padding" -> HeaderLen + p.arg.chunk + p.arg.max
            [] p.kind = "cfb_nonce" -> HandshakeSize
            [] OTHER -> 1
    <3>1. CASE p.kind = "padding"
      BY <2>3, <3>1 DEF Small
    <3>2. CASE p.kind = "cfb_nonce"
      BY <2>3, <3>2 DEF Small
    <3>3. CASE p.kind \in {"identity", "cfb"}
      <4>1. Len(p.buffer) < 1
        BY <2>3, <3>3 DEF Small
      <4> QED
        BY <3>3, <4>1
    <3> QED
      BY <2>4, <3>1, <3>2, <3>3
  <2> QED
    BY <2>5 DEF p
<1> QED
  BY AlwaysSafe, <1>1, PTL

\* A call of a chain always returns, except for padding with chunks of size 0.
THEOREM HangsOnlyWithZeroChunk ==
    ASSUME DrawsNumbers
    PROVE  Spec => []HangsOnlyOnZeroChunk
<1>1. SafeInv => HangsOnlyOnZeroChunk
  BY DEF SafeInv
<1> QED
  BY AlwaysSafe, <1>1, PTL

-----------------------------------------------------------------------------
(* Command lines that mirror each other make chains that do.               *)

LEMMA WithoutMatched ==
    ASSUME NEW s, NEW t, NEW args, "key" \notin args, "iv" \notin args,
           Without(s, args) = Without(t, args), ValidSpec(s)
    PROVE  Matched(s, t)
<1>1. /\ s.name = t.name
      /\ [a \in DOMAIN s.kv \ args |-> s.kv[a]] = [a \in DOMAIN t.kv \ args |-> t.kv[a]]
  BY DEF Without
<1>2. ASSUME "key" \in DOMAIN s.kv PROVE s.kv.key = t.kv.key
  BY <1>1, <1>2
<1>3. ASSUME "iv" \in DOMAIN s.kv PROVE s.kv.iv = t.kv.iv
  BY <1>1, <1>3
<1> QED
  BY <1>1, <1>2, <1>3, ValidCases DEF Matched

\* Fewer arguments agree where more of them do.
LEMMA WithoutMore ==
    ASSUME NEW s, NEW t, NEW args, NEW more, args \subseteq more,
           Without(s, args) = Without(t, args)
    PROVE  Without(s, more) = Without(t, more)
<1> DEFINE f == s.kv
           g == t.kv
<1>1. /\ s.name = t.name
      /\ [a \in DOMAIN f \ args |-> f[a]] = [a \in DOMAIN g \ args |-> g[a]]
  BY DEF Without
<1> HIDE DEF f, g
<1>2. DOMAIN f \ args = DOMAIN g \ args
  BY <1>1
<1>3. \A a \in DOMAIN f \ args : f[a] = g[a]
  BY <1>1
<1>4. [a \in DOMAIN f \ more |-> f[a]] = [a \in DOMAIN g \ more |-> g[a]]
  BY <1>2, <1>3
<1> QED
  BY <1>1, <1>4 DEF Without, f, g

LEMMA CompatibleReadable == Compatible => Readable
<1> SUFFICES ASSUME Compatible PROVE Readable
  OBVIOUS
<1> DEFINE near == setup.specs["near"]
           far == setup.specs["far"]
           args == {"seed"}
           more == {"seed", "chunk", "max"}
           rargs == args \union {"reverse"}
           rmore == more \union {"reverse"}
<1>1. /\ ~setup.reverse["near"] /\ ~\E k \in DOMAIN near : Legacy(near[k])
      /\ \/ setup.reverse["far"] /\ SameSpecs(near, far, args)
         \/ /\ ~setup.reverse["far"] /\ \A k \in DOMAIN far : Legacy(far[k])
            /\ SameSpecs(near, Reverse(far), rargs)
  BY DEF Compatible, Mirrored
<1>2. args \subseteq more /\ rargs \subseteq rmore
  OBVIOUS
<1> HIDE DEF args, more, rargs, rmore
<1>3. /\ SameSpecs(near, far, args) => SameSpecs(near, far, more)
      /\ SameSpecs(near, Reverse(far), rargs) => SameSpecs(near, Reverse(far), rmore)
  BY <1>2, WithoutMore DEF SameSpecs
<1> QED
  BY <1>1, <1>3 DEF Readable, Mirrored, more, rmore

\* Both nodes run: each spec of the near node and the spec of the processor
\* of the far node that stands opposite.
Opposite(k) ==
    SpecAt(setup.specs["far"], setup.reverse["far"], Len(setup.specs["near"]) + 1 - k)

LEMMA ReadableMatches ==
    ASSUME setup \in Setups, Readable,
           \A n \in NodeName : \A k \in DOMAIN setup.specs[n] : ValidSpec(setup.specs[n][k])
    PROVE  LET near == setup.specs["near"]
               far == setup.specs["far"]
               m == Len(near)
           IN  /\ m \in Nat /\ Len(far) = m /\ ~setup.reverse["near"]
               /\ setup.reverse["near"] \in BOOLEAN /\ setup.reverse["far"] \in BOOLEAN
               /\ \A k \in 1..m :
                    /\ Matched(near[k], Opposite(k))
                    /\ resolve_processor_reverse(near[k].kv, FALSE) = FALSE
                    /\ resolve_processor_reverse(Opposite(k).kv, setup.reverse["far"]) = TRUE
<1> DEFINE near == setup.specs["near"]
           far == setup.specs["far"]
           m == Len(near)
           rev == setup.reverse["far"]
           args == {"seed", "chunk", "max"}
           rargs == args \union {"reverse"}
<1>1. /\ near \in Seq(Range(near)) /\ far \in Seq(Range(far))
      /\ setup.reverse["near"] \in BOOLEAN /\ rev \in BOOLEAN
      /\ DOMAIN near = 1..m /\ DOMAIN far = 1..Len(far) /\ m \in Nat /\ Len(far) \in Nat
      /\ \A k \in 1..m : TypedArgs(near[k].kv)
      /\ \A k \in 1..Len(far) : TypedArgs(far[k].kv)
  BY SetupTyped DEF NodeName
<1>2. /\ ~setup.reverse["near"] /\ \A k \in DOMAIN near : ~Legacy(near[k])
      /\ \/ rev /\ SameSpecs(near, far, args)
         \/ /\ ~rev /\ \A k \in DOMAIN far : Legacy(far[k])
            /\ SameSpecs(near, Reverse(far), rargs)
  BY DEF Readable, Mirrored
<1>3. \A k \in 1..m : ValidSpec(near[k])
  BY <1>1 DEF NodeName
<1>4. "key" \notin args /\ "iv" \notin args /\ "key" \notin rargs /\ "iv" \notin rargs
  OBVIOUS
<1>5. Opposite(1) = Opposite(1) /\ \A k : Opposite(k) = SpecAt(far, rev, m + 1 - k)
  BY DEF Opposite
<1>6. Len(Reverse(far)) = Len(far) /\ \A k \in 1..Len(far) : Reverse(far)[k] = far[Len(far) + 1 - k]
  <2> DEFINE S == Range(far)
  <2>1. far \in Seq(S)
    BY <1>1
  <2> HIDE DEF S, far
  <2> QED
    BY <2>1, ReverseTyped
<1> HIDE DEF near, far, m, rev, args, rargs
<1>7. \A k \in 1..m : resolve_processor_reverse(near[k].kv, FALSE) = FALSE
  <2> SUFFICES ASSUME NEW k \in 1..m PROVE resolve_processor_reverse(near[k].kv, FALSE) = FALSE
    OBVIOUS
  <2> DEFINE kv == near[k].kv
  <2>1. "reverse" \in DOMAIN kv => kv.reverse \in BOOLEAN /\ ~kv.reverse
    BY <1>1, <1>2, ArgsTyped DEF Legacy
  <2> QED
    BY <2>1 DEF resolve_processor_reverse
<1>8. CASE rev /\ SameSpecs(near, far, args)
  <2>1. Len(far) = m /\ \A k \in 1..m : Without(near[k], args) = Without(far[k], args)
    BY <1>1, <1>8 DEF SameSpecs, m
  <2>2. \A k \in 1..m : m + 1 - (m + 1 - k) = k
    BY <1>1
  <2>3. \A k \in 1..m : Opposite(k) = far[k]
    BY <1>5, <1>8, <2>1, <2>2 DEF SpecAt
  <2>4. \A k \in 1..m : Matched(near[k], Opposite(k))
    BY <1>3, <1>4, <2>1, <2>3, WithoutMatched
  <2>5. \A k : resolve_processor_reverse(Opposite(k).kv, rev) = TRUE
    BY <1>8 DEF resolve_processor_reverse
  <2> QED
    BY <1>1, <1>2, <1>7, <2>1, <2>4, <2>5 DEF near, far, m, rev
<1>9. CASE /\ ~rev /\ \A k \in DOMAIN far : Legacy(far[k])
           /\ SameSpecs(near, Reverse(far), rargs)
  <2>1. Len(far) = m
    BY <1>6, <1>9 DEF SameSpecs, m
  <2>2. \A k \in 1..m : Without(near[k], rargs) = Without(Reverse(far)[k], rargs)
    BY <1>1, <1>9 DEF SameSpecs
  <2>3. \A k \in 1..m : Opposite(k) = far[m + 1 - k] /\ m + 1 - k \in 1..m
    BY <1>1, <1>5, <1>9, <2>1 DEF SpecAt
  <2>4. \A k \in 1..m : Matched(near[k], Opposite(k))
    BY <1>3, <1>4, <1>6, <2>1, <2>2, <2>3, WithoutMatched
  <2>5. ASSUME NEW k \in 1..m PROVE resolve_processor_reverse(Opposite(k).kv, rev) = TRUE
    <3> DEFINE kv == Opposite(k).kv
    <3>1. "reverse" \in DOMAIN kv /\ kv.reverse /\ kv.reverse \in BOOLEAN
      BY <1>1, <1>9, <2>1, <2>3, ArgsTyped DEF Legacy
    <3> QED
      BY <1>9, <3>1 DEF resolve_processor_reverse
  <2> QED
    BY <1>1, <1>2, <1>7, <2>1, <2>4, <2>5 DEF near, far, m, rev
<1> QED
  BY <1>2, <1>8, <1>9

\* Nothing is on the way between two chains that were just made.
Nothing(n) == [i \in 0..n |-> <<>>]

LEMMA MirroredLinks ==
    ASSUME NEW m \in Nat, NEW c \in Seq(Procs), NEW d \in Seq(Procs),
           Len(c) = m, Len(d) = m, NEW side \in Sides,
           \A i \in 1..m : /\ Packs(side, c[At(side, m, i)])
                           /\ Unpacks(side, d[At(side, m, m + 1 - i)])
                           /\ Linked(c[At(side, m, i)], d[At(side, m, m + 1 - i)], <<>>, <<>>)
    PROVE  ChainLink(side, c, d, Nothing(m))
<1>1. ASSUME NEW k \in 1..m PROVE \E i \in 1..m : m + 1 - i \in 1..m /\ At(side, m, i) = k
  <2>1. m + 1 - k \in 1..m /\ m + 1 - (m + 1 - k) = k
    OBVIOUS
  <2>2. CASE side = "local"
    BY <2>1, <2>2 DEF At
  <2>3. CASE side # "local"
    BY <2>1, <2>3 DEF At
  <2> QED
    BY <2>2, <2>3
<1>2. ASSUME NEW k \in 1..m PROVE \E i \in 1..m : At(side, m, m + 1 - i) = k
  <2>1. m + 1 - k \in 1..m /\ m + 1 - (m + 1 - k) = k
    OBVIOUS
  <2>2. CASE side = "local"
    BY <2>1, <2>2 DEF At
  <2>3. CASE side # "local"
    BY <2>1, <2>3 DEF At
  <2> QED
    BY <2>2, <2>3
<1>3. \A k \in 1..m : Packs(side, c[k]) /\ Unpacks(side, d[k])
  BY <1>1, <1>2
<1>4. Nothing(m) \in [0..m -> Bytes] /\ \A i \in 1..m : Nothing(m)[i] = <<>> /\ Nothing(m)[i - 1] = <<>>
  BY DEF Nothing, Bytes
<1> QED
  BY <1>3, <1>4 DEF ChainLink

\* What packs at one node and unpacks at the other.
LEMMA MadePacks ==
    ASSUME NEW p, NEW s, NEW r \in BOOLEAN, Made(p, s, r), NEW side \in Sides
    PROVE  /\ (side = "local") = ~r => Packs(side, p)
           /\ (side = "local") = r => Unpacks(side, p)
<1>1. p.kind # "identity" => p.reverse = r
  BY DEF Made, New
<1> QED
  BY <1>1 DEF Packs, Unpacks

\* The chains of a session understand each other in both directions.
LEMMA BuiltLinked ==
    ASSUME setup \in Setups, Readable,
           \A n \in NodeName : \A k \in DOMAIN setup.specs[n] : ValidSpec(setup.specs[n][k]),
           NEW c, Built(c, setup.specs["near"], setup.reverse["near"]),
           NEW d, Built(d, setup.specs["far"], setup.reverse["far"])
    PROVE  /\ ChainLink("local", c, d, Nothing(Len(c)))
           /\ ChainLink("remote", d, c, Nothing(Len(d)))
<1> DEFINE near == setup.specs["near"]
           far == setup.specs["far"]
           n == Len(near)
           m == Len(c)
           rev == setup.reverse["far"]
<1>1. /\ n \in Nat /\ Len(far) = n /\ ~setup.reverse["near"]
      /\ setup.reverse["near"] \in BOOLEAN /\ rev \in BOOLEAN
      /\ \A k \in 1..n :
           /\ Matched(near[k], Opposite(k))
           /\ resolve_processor_reverse(near[k].kv, FALSE) = FALSE
           /\ resolve_processor_reverse(Opposite(k).kv, rev) = TRUE
  BY ReadableMatches
<1>2. setup.reverse["near"] = FALSE
  BY <1>1
<1>3. c \in Seq(Procs) /\ d \in Seq(Procs) /\ m \in Nat
  BY DEF Built
<1>4. near \in Seq(Range(near)) /\ far \in Seq(Range(far))
  BY SetupTyped DEF NodeName
<1>5. near = <<>> <=> far = <<>>
  <2>1. near = <<>> <=> Len(near) = 0
    BY <1>4
  <2>2. far = <<>> <=> Len(far) = 0
    BY <1>4
  <2> QED
    BY <1>1, <2>1, <2>2
<1> DEFINE Pair(k) == LET p == c[k]
                          q == d[m + 1 - k]
                      IN  /\ Packs("local", p) /\ Unpacks("remote", p)
                          /\ Unpacks("local", q) /\ Packs("remote", q)
                          /\ Linked(p, q, <<>>, <<>>) /\ Linked(q, p, <<>>, <<>>)
<1>6. Len(d) = m /\ \A k \in 1..m : Pair(k)
  <2>1. CASE near = <<>>
    <3>1. c = <<IdentityProcessor>> /\ d = <<IdentityProcessor>>
      BY <1>5, <2>1 DEF Built
    <3> DEFINE p == IdentityProcessor
    <3>2. p.kind = "identity"
      BY NewIdentity
    <3>3. Linked(p, p, <<>>, <<>>)
      BY <3>2 DEF Linked
    <3> HIDE DEF p
    <3>4. m = 1 /\ Len(d) = 1 /\ c[1] = p /\ d[1] = p
      BY <3>1 DEF p
    <3>5. Pair(1)
      BY <3>2, <3>3, <3>4 DEF Packs, Unpacks
    <3> QED
      BY <3>4, <3>5
  <2>2. CASE near # <<>>
    <3>1. /\ m = n /\ \A k \in 1..m : Made(c[k], SpecAt(near, FALSE, k),
                        resolve_processor_reverse(SpecAt(near, FALSE, k).kv, FALSE))
      BY <1>2, <2>2 DEF Built
    <3>2. /\ Len(d) = n /\ \A k \in 1..Len(d) : Made(d[k], SpecAt(far, rev, k),
                        resolve_processor_reverse(SpecAt(far, rev, k).kv, rev))
      BY <1>1, <1>5, <2>2 DEF Built
    <3> SUFFICES ASSUME NEW k \in 1..m PROVE Pair(k)
      BY <3>1, <3>2
    <3> DEFINE p == c[k]
               q == d[m + 1 - k]
               s == near[k]
               t == Opposite(k)
    <3>3. m + 1 - k \in 1..m
      BY <1>3
    <3>4. Made(p, s, FALSE)
      BY <1>1, <3>1 DEF SpecAt
    <3>5. Made(q, t, TRUE)
      <4>1. t = SpecAt(far, rev, m + 1 - k)
        BY <3>1 DEF Opposite
      <4>2. Made(q, t, resolve_processor_reverse(t.kv, rev))
        BY <3>1, <3>2, <3>3, <4>1
      <4> QED
        BY <1>1, <3>1, <4>2
    <3>6. Matched(s, t)
      BY <1>1, <3>1
    <3> HIDE DEF p, q, s, t
    <3>7. Packs("local", p) /\ Unpacks("remote", p) /\ Unpacks("local", q) /\ Packs("remote", q)
      <4>1. \A side \in Sides : /\ (side = "local") = TRUE => Packs(side, p)
                                /\ (side = "local") = FALSE => Unpacks(side, p)
        BY <3>4, MadePacks
      <4>2. \A side \in Sides : /\ (side = "local") = FALSE => Packs(side, q)
                                /\ (side = "local") = TRUE => Unpacks(side, q)
        BY <3>5, MadePacks
      <4>3. "local" \in Sides /\ "remote" \in Sides /\ "remote" # "local"
        BY DEF Sides
      <4> QED
        BY <4>1, <4>2, <4>3
    <3>8. Linked(p, q, <<>>, <<>>) /\ Linked(q, p, <<>>, <<>>)
      BY <3>4, <3>5, <3>6, MadeLinked
    <3> QED
      BY <3>7, <3>8 DEF p, q
  <2> QED
    BY <2>1, <2>2
<1> HIDE DEF m
<1>7. "local" \in Sides /\ "remote" \in Sides
  BY DEF Sides
<1>8. ChainLink("local", c, d, Nothing(m))
  <2>1. ASSUME NEW i \in 1..m
        PROVE  /\ Packs("local", c[At("local", m, i)])
               /\ Unpacks("local", d[At("local", m, m + 1 - i)])
               /\ Linked(c[At("local", m, i)], d[At("local", m, m + 1 - i)], <<>>, <<>>)
    <3>1. Pair(i)
      BY <1>6
    <3> QED
      BY <3>1 DEF At
  <2> HIDE DEF Pair
  <2> QED
    BY <1>3, <1>6, <1>7, <2>1, MirroredLinks DEF m
<1>9. ChainLink("remote", d, c, Nothing(m))
  <2>1. ASSUME NEW i \in 1..m
        PROVE  /\ Packs("remote", d[At("remote", m, i)])
               /\ Unpacks("remote", c[At("remote", m, m + 1 - i)])
               /\ Linked(d[At("remote", m, i)], c[At("remote", m, m + 1 - i)], <<>>, <<>>)
    <3>1. Pair(i)
      BY <1>6
    <3>2. At("remote", m, i) = m + 1 - i /\ At("remote", m, m + 1 - i) = i
      BY <1>3 DEF At
    <3> QED
      BY <3>1, <3>2
  <2> HIDE DEF Pair
  <2> QED
    BY <1>3, <1>6, <1>7, <2>1, MirroredLinks DEF m
<1> QED
  BY <1>6, <1>8, <1>9 DEF m

-----------------------------------------------------------------------------
(* What was taken from the source, is on the way and arrived. *)

LEMMA CutBack ==
    ASSUME NEW p, NEW t \in Bytes, NEW s \in Bytes, Joins(p, t, s)
    PROVE  SubSeq(p, 1, Len(p) - Len(s)) = t
<1>1. t \in Seq(Byte) /\ s \in Seq(Byte)
  BY DEF Bytes
<1>2. p = t \o s
  BY DEF Joins
<1>3. /\ p \in Seq(Byte) /\ Len(p) = Len(t) + Len(s) /\ Len(t) \in Nat /\ Len(s) \in Nat
      /\ \A i \in 1..Len(t) : p[i] = t[i]
  BY <1>1, <1>2, ConcatTyped
<1>4. Len(p) - Len(s) = Len(t) /\ Len(t) \in 0..Len(p)
  BY <1>3
<1> DEFINE a == SubSeq(p, 1, Len(t))
<1>5. a \in Seq(Byte) /\ Len(a) = Len(t)
  BY <1>3, <1>4, SplitAt
<1>6. \A i \in 1..Len(t) : a[i] = p[i]
  BY <1>3, <1>4
<1> HIDE DEF a
<1>7. a = t
  BY <1>1, <1>3, <1>5, <1>6, SeqEqual
<1> QED
  BY <1>4, <1>7 DEF a

\* What was taken and what was not yet are the payload, and a loop that is
\* done is one whose stream has ended.
Base ==
    /\ Taken \in Bytes /\ Joins(payload, Taken, pipe[1])
    /\ fin[2] <=> loop[1] = "done"
    /\ fin[3] <=> loop[2] = "done"
    /\ loop[1] = "none" <=> loop[2] = "none"
    /\ loop[1] = "none" => Taken = <<>> /\ pipe[2] = <<>> /\ pipe[3] = <<>>

LEMMA TakenKept ==
    ASSUME payload' = payload, pipe'[1] = pipe[1]
    PROVE  Taken' = Taken
BY DEF Taken

\* A step that only changes what is on the way.
LEMMA BaseKept ==
    ASSUME Base, payload' = payload, pipe'[1] = pipe[1],
           fin'[2] <=> loop'[1] = "done", fin'[3] <=> loop'[2] = "done",
           loop'[1] # "none" /\ loop'[2] # "none"
    PROVE  Base'
<1>1. Taken' = Taken
  BY TakenKept
<1> QED
  BY <1>1 DEF Base

LEMMA InitBase == Init => Base
<1> SUFFICES ASSUME Init PROVE Base
  OBVIOUS
<1>1. payload \in Bytes /\ <<>> \in Bytes /\ pipe[1] = payload /\ pipe[2] = <<>> /\ pipe[3] = <<>>
  BY PayloadsAssumption DEF Init, Bytes
<1>2. ~fin[2] /\ ~fin[3] /\ loop[1] = "none" /\ loop[2] = "none"
  BY DEF Init, Hop
<1>3. Joins(payload, <<>>, payload)
  BY <1>1, ConcatEmpty DEF Joins, Bytes
<1>4. Taken = <<>>
  BY <1>1, <1>3, CutBack DEF Taken
<1> QED
  BY <1>1, <1>2, <1>3, <1>4 DEF Base

\* A read of the first hop takes bytes from the source.
LEMMA ReadTakes ==
    ASSUME Types, Base, NEW input, NEW rest, NEW r, Reads(1, input, rest, r)
    PROVE  Taken' = Taken \o input /\ Taken' \in Bytes /\ Joins(payload', Taken', pipe'[1])
<1> DEFINE t == Taken
           s == pipe[1]
<1>1. /\ t \in Bytes /\ s \in Bytes /\ input \in Bytes /\ rest \in Bytes
      /\ Joins(payload, t, s) /\ Joins(s, input, rest)
      /\ payload' = payload /\ pipe'[1] = rest
  BY DEF Base, Types, Reads
<1> HIDE DEF t, s
<1>2. (t \o input) \o rest = t \o (input \o rest) /\ t \o input \in Bytes
  <2>1. t \in Bytes /\ input \in Bytes /\ rest \in Bytes
    BY <1>1
  <2> QED
    <3>1. (t \o input) \o rest = t \o (input \o rest)
      <4>1. Associates(t, input, rest)
        BY <2>1, BytesAssociate
      <4> QED
        BY <4>1 DEF Associates
    <3>2. t \o input \in Bytes
      BY <2>1, BytesAssoc
    <3> QED
      BY <3>1, <3>2
<1>3. Joins(payload, t \o input, rest)
  BY <1>1, <1>2 DEF Joins
<1>4. SubSeq(payload, 1, Len(payload) - Len(rest)) = t \o input
  BY <1>1, <1>2, <1>3, CutBack
<1>5. Taken' = t \o input
  BY <1>1, <1>4 DEF Taken
<1> QED
  BY <1>1, <1>2, <1>3, <1>5 DEF t

LEMMA StepBase == SafeInv /\ Base /\ [Next]_vars => Base'
<1> SUFFICES ASSUME SafeInv, Base, [Next]_vars PROVE Base'
  OBVIOUS
<1>1. /\ Types /\ fin \in [1..3 -> BOOLEAN] /\ pipe \in [1..3 -> Bytes]
      /\ loop \in [Hop -> {"none", "read", "write", "done", "stuck"}]
  BY DEF SafeInv, Types, TypeOK
<1>2. fin[2] <=> loop[1] = "done"
  BY DEF Base
<1>3. fin[3] <=> loop[2] = "done"
  BY DEF Base
<1>4. (loop[1] = "none" <=> loop[2] = "none") /\ Hop = {1, 2}
  BY DEF Base, Hop
<1>5. ASSUME NEW h \in Hop, Read(h) PROVE Base'
  <2>1. PICK input, rest, r : Reads(h, input, rest, r)
    BY <1>1, <1>5, ReadCases
  <2>2. /\ payload' = payload /\ pipe' = [pipe EXCEPT ![h] = rest] /\ loop[h] = "read"
        /\ \/ loop' = [loop EXCEPT ![h] = IF r.out = <<>> THEN "read" ELSE "write"] /\ fin' = fin
           \/ loop' = [loop EXCEPT ![h] = "done"] /\ fin' = [fin EXCEPT ![h + 1] = TRUE]
           \/ loop' = [loop EXCEPT ![h] = "stuck"] /\ fin' = fin
    BY <2>1 DEF Reads
  <2>3. loop[1] # "none" /\ loop[2] # "none"
    BY <1>4, <2>2
  <2>4. CASE h = 1
    <3>1. /\ fin'[3] = fin[3] /\ loop'[2] = loop[2] /\ loop'[1] # "none"
          /\ fin'[2] <=> loop'[1] = "done"
      BY <1>1, <1>2, <1>4, <2>2, <2>4
    <3>2. Taken' \in Bytes /\ Joins(payload', Taken', pipe'[1])
      BY <1>1, <2>1, <2>4, ReadTakes
    <3> QED
      BY <1>3, <2>3, <3>1, <3>2 DEF Base
  <2>5. CASE h = 2
    <3>1. /\ fin'[2] = fin[2] /\ loop'[1] = loop[1] /\ loop'[2] # "none"
          /\ fin'[3] <=> loop'[2] = "done"
          /\ pipe'[1] = pipe[1]
      BY <1>1, <1>3, <1>4, <2>2, <2>5
    <3> QED
      BY <1>2, <2>2, <2>3, <3>1, BaseKept
  <2> QED
    BY <1>4, <2>4, <2>5
<1>6. ASSUME NEW h \in Hop, Write(h) PROVE Base'
  <2>1. /\ payload' = payload /\ fin' = fin /\ loop[h] = "write"
        /\ loop' = [loop EXCEPT ![h] = IF Len(output[h]) = 1 THEN "read" ELSE "write"]
        /\ pipe'[1] = pipe[1]
    <3>1. /\ payload' = payload /\ fin' = fin /\ loop[h] = "write"
          /\ loop' = [loop EXCEPT ![h] = IF Len(output[h]) = 1 THEN "read" ELSE "write"]
          /\ pipe' = IF h = 1 /\ broken THEN pipe
                     ELSE [pipe EXCEPT ![h + 1] = @ \o Head(output[h])]
      BY <1>6 DEF Write, fixed
    <3>2. h + 1 # 1
      BY <1>4
    <3> QED
      <4> DEFINE b == Head(output[h])
                 more == pipe[h + 1] \o b
      <4>1. pipe' = pipe \/ pipe' = [pipe EXCEPT ![h + 1] = more]
        BY <3>1
      <4> HIDE DEF more
      <4>2. pipe'[1] = pipe[1]
        BY <1>1, <3>2, <4>1
      <4> QED
        BY <3>1, <4>2
  <2>2. /\ loop'[1] = "done" <=> loop[1] = "done"
        /\ loop'[2] = "done" <=> loop[2] = "done"
        /\ loop'[1] # "none" /\ loop'[2] # "none"
    BY <1>1, <1>4, <2>1
  <2> QED
    BY <1>2, <1>3, <2>1, <2>2, BaseKept
<1>7. ASSUME NEW h \in Hop, Eof(h) \/ Fails(h) PROVE Base'
  <2>1. /\ payload' = payload /\ pipe' = pipe /\ loop[h] \in {"read", "write"}
        /\ loop' = [loop EXCEPT ![h] = "done"] /\ fin' = [fin EXCEPT ![h + 1] = TRUE]
    BY <1>7 DEF Eof, Fails, Done, fixed
  <2>2. /\ fin'[2] <=> loop'[1] = "done"
        /\ fin'[3] <=> loop'[2] = "done"
        /\ loop'[1] # "none" /\ loop'[2] # "none"
    BY <1>1, <1>2, <1>3, <1>4, <2>1
  <2> QED
    BY <2>1, <2>2, BaseKept
<1>8. CASE Connect
  <2>1. /\ payload' = payload /\ pipe' = pipe /\ fin' = fin
        /\ loop' = [h \in Hop |-> "read"] /\ loop[1] = "none" /\ loop[2] = "none"
    BY <1>4, <1>8 DEF Connect, fixed
  <2>2. loop'[1] = "read" /\ loop'[2] = "read"
    BY <1>4, <2>1
  <2> QED
    BY <1>2, <1>3, <2>1, <2>2, BaseKept
<1>9. CASE Lose
  <2>1. /\ payload' = payload /\ fin' = fin /\ loop' = loop /\ loop[1] # "none"
        /\ pipe'[1] = pipe[1]
    BY <1>1, <1>9 DEF Lose, fixed
  <2> QED
    BY <1>2, <1>3, <1>4, <2>1, BaseKept
<1>10. CASE (\E n \in NodeName : run_tunnel(n)) \/ UNCHANGED vars
  <2>1. payload' = payload /\ fin' = fin /\ loop' = loop /\ pipe' = pipe
    BY <1>10 DEF run_tunnel, fixed, vars
  <2>2. Taken' = Taken
    BY <2>1, TakenKept
  <2> QED
    BY <2>1, <2>2 DEF Base
<1> QED
  BY <1>5, <1>6, <1>7, <1>8, <1>9, <1>10 DEF Next, LoopNext

\* d can still give back what was packed by c, when w of what is on the way
\* arrives, got is what it gave before and t what the source sent.
Carries(side, c, d, U, w, got, t) ==
    /\ c \in Seq(Procs) /\ d \in Seq(Procs) /\ ChainLink(side, c, d, U)
    /\ Begins(U[Len(c)], w) /\ Begins(t, got \o U[0])

\* Nothing is missing: the rest of it are the buffers that are not written.
Exact(c, U, w, buffers, got, t) ==
    Joins(U[Len(c)], w, Flat(buffers)) /\ Joins(t, got, U[0])

LEMMA LinkTyped ==
    ASSUME NEW side, NEW c \in Seq(Procs), NEW d, NEW U, ChainLink(side, c, d, U)
    PROVE  U[0] \in Bytes /\ U[Len(c)] \in Bytes /\ Len(d) = Len(c) /\ Len(c) \in Nat
<1> DEFINE m == Len(c)
<1>1. m \in Nat
  OBVIOUS
<1>2. U \in [0..m -> Bytes] /\ Len(d) = m
  BY DEF ChainLink
<1> HIDE DEF m
<1>3. 0 \in 0..m /\ m \in 0..m
  BY <1>1
<1> QED
  BY <1>1, <1>2, <1>3 DEF m

LEMMA JoinsBegins ==
    ASSUME NEW t, NEW a \in Bytes, NEW b \in Bytes, Joins(t, a, b)
    PROVE  Begins(t, a) /\ t \in Bytes
<1>1. a \in Seq(Byte) /\ b \in Seq(Byte)
  BY DEF Bytes
<1>2. Begins(a \o b, a)
  BY ONLY <1>1, BeginsConcat
<1>3. a \o b \in Seq(Byte)
  BY ONLY <1>1, ConcatTyped
<1> QED
  BY <1>2, <1>3 DEF Joins, Bytes

LEMMA BeginsJoins ==
    ASSUME NEW t \in Bytes, NEW a \in Bytes, Begins(t, a)
    PROVE  \E b \in Bytes : Joins(t, a, b)
<1>1. t \in Seq(Byte) /\ a \in Seq(Byte)
  BY DEF Bytes
<1>2. After(t, Len(a)) \in Seq(Byte) /\ t = a \o After(t, Len(a))
  BY <1>1, BeginsRest
<1> QED
  BY <1>2 DEF Joins, Bytes

LEMMA BeginsChain ==
    ASSUME NEW a \in Bytes, NEW b \in Bytes, NEW c \in Bytes, Begins(b, a), Begins(c, b)
    PROVE  Begins(c, a)
<1>1. a \in Seq(Byte) /\ b \in Seq(Byte) /\ c \in Seq(Byte)
  BY DEF Bytes
<1> QED
  BY <1>1, BeginsTransitive

\* More behind it.
LEMMA BeginsMore ==
    ASSUME NEW t \in Bytes, NEW a \in Bytes, NEW b \in Bytes, Begins(t, a)
    PROVE  Begins(t \o b, a) /\ t \o b \in Bytes /\ Begins(t \o b, t)
<1>1. Joins(t \o b, t, b)
  BY DEF Joins
<1> DEFINE s == t \o b
<1>2. Begins(s, t) /\ s \in Bytes
  BY <1>1, JoinsBegins
<1> HIDE DEF s
<1>3. Begins(s, a)
  BY <1>2, BeginsChain
<1> QED
  BY <1>2, <1>3 DEF s

\* Two ends of one beginning are the same.
LEMMA JoinsSame ==
    ASSUME NEW t, NEW a \in Bytes, NEW b \in Bytes, NEW c \in Bytes, Joins(t, a, b), Joins(t, a, c)
    PROVE  b = c
BY JoinsAfter

\* The chain of the first hop packs what it read.
LEMMA CarriesPacks ==
    ASSUME DrawsNumbers, NEW side \in Sides, NEW c, NEW d, NEW U, NEW w \in Bytes,
           NEW got \in Bytes, NEW t \in Bytes,
           Carries(side, c, d, U, w, got, t), Exact(c, U, w, <<>>, got, t),
           NEW input \in Bytes, Visit(side, c, <<input>>).status = "ok"
    PROVE  LET r == Visit(side, c, <<input>>)
           IN  \E V : /\ Carries(side, r.p, d, V, w, got, t \o input)
                      /\ Exact(r.p, V, w, r.out, got, t \o input)
<1> DEFINE b == <<input>>
           r == Visit(side, c, b)
           e == r.p
           f == Flat(r.out)
           u == U[0]
           x == U[Len(c)]
<1>1. /\ c \in Seq(Procs) /\ d \in Seq(Procs) /\ ChainLink(side, c, d, U)
      /\ Joins(x, w, Flat(<<>>)) /\ Joins(t, got, u)
      /\ b \in Seq(Bytes)
  BY DEF Carries, Exact
<1>2. u \in Bytes /\ x \in Bytes
  BY <1>1, LinkTyped
<1>3. Flat(b) = input
  BY FlatSingle
<1>4. r.status = "ok"
  OBVIOUS
<1> HIDE DEF b
<1>5. e \in Seq(Procs) /\ Len(e) = Len(c) /\ f \in Bytes
  BY <1>1, VisitKeeps, FlatTyped
<1>6. PICK V : ChainLink(side, e, d, V) /\ V[0] = u \o Flat(b) /\ V[Len(c)] = x \o f
  <2>1. Packed(side, c, d, U, b, r)
    BY ONLY DrawsNumbers, <1>1, <1>4, VisitPacks
  <2> QED
    BY <2>1 DEF Packed
<1> DEFINE y == V[Len(e)]
           v == V[0]
<1>7. y = x \o f /\ v = u \o input
  BY <1>3, <1>5, <1>6
<1> HIDE DEF r, e, u, x
<1>8. Joins(y, w, f)
  <2> DEFINE z == Flat(<<>>)
  <2>1. Joins(x, w, z) /\ z \in Bytes
    <3>1. <<>> \in Seq(Bytes)
      OBVIOUS
    <3> QED
      BY <1>1, <3>1, FlatTyped
  <2> HIDE DEF f
  <2>2. z \o f = f
    BY <1>5, FlatEmpty, ConcatEmpty DEF Bytes
  <2> HIDE DEF z, y
  <2>3. Joins(x \o f, w, z \o f)
    BY <1>5, <2>1, JoinsMore
  <2> QED
    BY <1>7, <2>2, <2>3
<1>9. Joins(t \o input, got, v)
  <2>1. Joins(t \o input, got, u \o input)
    BY <1>1, <1>2, JoinsMore
  <2> QED
    BY <1>7, <2>1
<1>10. v \in Bytes
  BY <1>5, <1>6, LinkTyped
<1>11. Begins(y, w)
  <2> HIDE DEF y, f
  <2> QED
    BY <1>5, <1>8, JoinsBegins
<1>12. Begins(t \o input, got \o v)
  <2> DEFINE s == t \o input
  <2>1. s = got \o v
    BY <1>9 DEF Joins
  <2> HIDE DEF s, v
  <2> QED
    <3> DEFINE z == got \o v
    <3>1. z \in Bytes
      BY <1>10, BytesAssoc
    <3> HIDE DEF z
    <3>2. Begins(z, z)
      BY <3>1 DEF Begins, Bytes
    <3> QED
      BY <2>1, <3>2 DEF z, s
<1>13. Carries(side, e, d, V, w, got, t \o input)
  BY <1>1, <1>5, <1>6, <1>11, <1>12 DEF Carries
<1>14. Exact(e, V, w, r.out, got, t \o input)
  BY <1>8, <1>9 DEF Exact
<1> QED
  BY <1>13, <1>14 DEF r, e, b

\* What is in front of both parts is in front of the first.
LEMMA JoinsAssoc ==
    ASSUME NEW a \in Bytes, NEW u, NEW b \in Bytes, NEW c \in Bytes, Joins(u, b, c)
    PROVE  a \o u = (a \o b) \o c
<1>1. (a \o b) \o c = a \o (b \o c)
  <2>1. Associates(a, b, c)
    BY BytesAssociate
  <2> QED
    BY <2>1 DEF Associates
<1> QED
  BY <1>1 DEF Joins

\* The chain of the second hop unpacks what it read.
LEMMA CarriesUnpacks ==
    ASSUME DrawsNumbers, NEW side \in Sides, NEW c, NEW d, NEW U, NEW w \in Bytes,
           NEW got \in Bytes, NEW t \in Bytes, Carries(side, c, d, U, w, got, t),
           NEW input \in Bytes, NEW rest \in Bytes, Joins(w, input, rest),
           Visit(side, d, <<input>>).status = "ok"
    PROVE  LET r == Visit(side, d, <<input>>)
               more == got \o Flat(r.out)
           IN  \E V : /\ Carries(side, c, r.p, V, rest, more, t)
                      /\ \A a \in Bytes : Joins(U[Len(c)], w, a) /\ Joins(t, got, U[0])
                            => Joins(V[Len(c)], rest, a) /\ Joins(t, more, V[0])
<1> DEFINE b == <<input>>
           r == Visit(side, d, b)
           e == r.p
           f == Flat(r.out)
           u == U[0]
           x == U[Len(c)]
<1>1. /\ c \in Seq(Procs) /\ d \in Seq(Procs) /\ ChainLink(side, c, d, U)
      /\ Begins(x, w) /\ Begins(t, got \o u) /\ b \in Seq(Bytes) /\ r.status = "ok"
  BY DEF Carries
<1>2. u \in Bytes /\ x \in Bytes
  BY <1>1, LinkTyped
<1>3. Flat(b) = input
  BY FlatSingle
<1> HIDE DEF b
<1>4. PICK z \in Bytes : Joins(x, w, z)
  <2> HIDE DEF x
  <2> QED
    BY <1>1, <1>2, BeginsJoins
<1> DEFINE y == rest \o z
<1>5. y \in Bytes /\ Joins(x, input, y) /\ Joins(y, rest, z)
  <2>1. (input \o rest) \o z = input \o (rest \o z)
    <3>1. input \in Bytes /\ rest \in Bytes /\ z \in Bytes
      OBVIOUS
    <3>2. Associates(input, rest, z)
      BY ONLY <3>1, BytesAssociate
    <3> QED
      BY <3>2 DEF Associates
  <2>2. rest \o z \in Bytes
    BY <1>4, BytesAssoc
  <2>3. x = (input \o rest) \o z
    BY <1>4 DEF Joins
  <2> HIDE DEF x
  <2> QED
    BY <2>1, <2>2, <2>3 DEF Joins
<1>6. /\ e \in Seq(Procs) /\ f \in Bytes
  BY <1>1, VisitKeeps, FlatTyped
<1>7. PICK V : ChainLink(side, c, e, V) /\ Joins(u, f, V[0]) /\ V[Len(c)] = y
  <2> HIDE DEF y
  <2>1. Joins(U[Len(c)], Flat(b), y)
    BY <1>3, <1>5
  <2>2. Unpacked(side, c, U, y, r)
    BY ONLY DrawsNumbers, <1>1, <1>5, <2>1, VisitUnpacks
  <2> QED
    BY <2>2 DEF Unpacked
<1> DEFINE v == V[0]
           more == got \o f
<1>8. v \in Bytes
  BY <1>1, <1>7, LinkTyped
<1>9. more \in Bytes
  BY <1>6, BytesAssoc
<1> HIDE DEF r, e, f, u, x, y, v
<1>10. got \o u = more \o v
  <2>1. got \in Bytes /\ f \in Bytes /\ v \in Bytes /\ Joins(u, f, v)
    BY <1>6, <1>7, <1>8 DEF v
  <2> QED
    BY ONLY <2>1, JoinsAssoc
<1> HIDE DEF more
<1>11. Begins(t, more \o v)
  BY <1>1, <1>10
<1>12. Begins(y, rest)
  BY <1>4, <1>5, JoinsBegins
<1>13. Carries(side, c, e, V, rest, more, t)
  BY <1>1, <1>6, <1>7, <1>11, <1>12 DEF Carries, v
<1>14. ASSUME NEW a \in Bytes, Joins(U[Len(c)], w, a), Joins(t, got, U[0])
       PROVE  Joins(V[Len(c)], rest, a) /\ Joins(t, more, V[0])
  <2>1. Joins(x, w, a)
    BY <1>14 DEF x
  <2>2. z = a
    BY <1>4, <2>1, JoinsSame
  <2>3. t = got \o u
    BY <1>14 DEF Joins, u
  <2>4. Joins(t, more, v)
    BY <1>10, <2>3 DEF Joins
  <2> QED
    BY <1>5, <1>7, <2>2, <2>4 DEF v
<1> QED
  BY <1>13, <1>14 DEF r, e, f, b, more

-----------------------------------------------------------------------------
(* The stream between the two ends. *)

\* What the second hop gave out, at the sink or to be written.
Got == pipe[3] \o Flat(output[2])

\* The first hop goes on, and all that it packed arrives.
Steady == ~broken /\ loop[1] # "stuck"

\* c is the chain that packed what is on the way.  The first hop has moved on
\* from it when it lost a call or the connection.
Flow(c, U) ==
    /\ Carries(Side, c, chain[Node(2)], U, pipe[2], Got, Taken)
    /\ Steady => /\ c = chain[Node(1)]
                 /\ Exact(c, U, pipe[2], output[1], Got, Taken)

Flowing == \E c, U : Flow(c, U)

FlowInv ==
    /\ loop[2] \in {"read", "write"} => Flowing
    /\ loop[2] \in {"done", "stuck"} => Begins(Taken, pipe[3])
    /\ loop[2] = "done" /\ ~broken => loop[1] = "done" /\ pipe[3] = Taken

LEMMA GotTyped ==
    ASSUME Types
    PROVE  /\ Got \in Bytes /\ pipe[2] \in Bytes /\ pipe[3] \in Bytes
           /\ output[2] = <<>> => Got = pipe[3]
           /\ Begins(Got, pipe[3])
<1> DEFINE a == pipe[3]
           b == Flat(output[2])
<1>1. a \in Bytes /\ pipe[2] \in Bytes /\ b \in Bytes /\ a \in Seq(Byte)
  BY FlatTyped DEF Types, Hop, Bytes
<1>2. Got = a \o b
  BY DEF Got
<1>3. output[2] = <<>> => b = <<>>
  BY FlatEmpty
<1> HIDE DEF a, b
<1>4. a \o b \in Bytes
  BY <1>1, BytesAssoc
<1>5. Joins(a \o b, a, b)
  BY DEF Joins
<1>6. Begins(a \o b, a)
  BY <1>1, <1>5, JoinsBegins
<1>7. a \o <<>> = a
  BY <1>1, ConcatEmpty
<1> QED
  BY <1>1, <1>2, <1>3, <1>4, <1>6, <1>7 DEF a

LEMMA FlowBeginsGot ==
    ASSUME Types, Base, Flowing
    PROVE  Begins(Taken, Got)
<1>1. PICK c, U : Flow(c, U)
  BY DEF Flowing
<1> DEFINE g == Got
           t == Taken
           u == U[0]
           s == g \o u
<1>2. c \in Seq(Procs) /\ ChainLink(Side, c, chain[Node(2)], U) /\ Begins(t, s)
  BY <1>1 DEF Flow, Carries
<1>3. u \in Bytes /\ g \in Bytes /\ t \in Bytes
  BY <1>2, LinkTyped, GotTyped DEF Base
<1> HIDE DEF g, t, u
<1>4. Joins(s, g, u)
  BY DEF Joins
<1>5. s \in Bytes /\ Begins(s, g)
  BY <1>3, <1>4, JoinsBegins
<1> HIDE DEF s
<1>6. Begins(t, g)
  BY <1>2, <1>3, <1>5, BeginsChain
<1> QED
  BY <1>6 DEF t, g

\* What the sink has is a beginning of what was taken.
LEMMA FlowBegins ==
    ASSUME Types, Base, FlowInv, loop[2] # "none"
    PROVE  Begins(Taken, pipe[3])
<1>1. loop[2] \in {"read", "write", "done", "stuck"}
  BY DEF Types, TypeOK, Hop
<1>2. CASE loop[2] \in {"done", "stuck"}
  BY <1>2 DEF FlowInv
<1>3. CASE loop[2] \in {"read", "write"}
  <2>1. Begins(Taken, Got)
    BY <1>3, FlowBeginsGot DEF FlowInv
  <2>2. Got \in Bytes /\ pipe[3] \in Bytes /\ Taken \in Bytes /\ Begins(Got, pipe[3])
    BY GotTyped DEF Base
  <2> QED
    BY <2>1, <2>2, BeginsChain
<1> QED
  BY <1>1, <1>2, <1>3

\* A step that gives the second hop nothing new.
LEMMA FlowKept ==
    ASSUME Types, Base, FlowInv, Types', dir' = dir,
           chain'[Node(2)] = chain[Node(2)], pipe'[3] = pipe[3], output'[2] = output[2],
           Begins(pipe[2], pipe'[2]), Taken' \in Bytes, Begins(Taken', Taken),
           loop'[2] = loop[2], broken => broken',
           Steady' => /\ Steady /\ chain' = chain /\ pipe' = pipe /\ Taken' = Taken
                      /\ output'[1] = output[1],
           loop[1] = "done" => loop'[1] = "done" /\ Taken' = Taken
    PROVE  FlowInv'
<1>1. Side' = Side /\ Node(1)' = Node(1) /\ Node(2)' = Node(2) /\ Got' = Got
  BY DEF Side, Node, Got
<1>2. Taken \in Bytes
  BY DEF Base
<1>3. ASSUME Begins(Taken, pipe[3]) PROVE Begins(Taken', pipe'[3])
  <2>1. pipe[3] \in Bytes
    BY GotTyped
  <2> QED
    BY <1>2, <1>3, <2>1, BeginsChain
<1>4. ASSUME NEW c, NEW U, Flow(c, U) PROVE Flow(c, U)'
  <2> DEFINE g == Got
             u == U[0]
             s == g \o u
             d == chain[Node(2)]
             x == U[Len(c)]
             w == pipe[2]
  <2>1. c \in Seq(Procs) /\ d \in Seq(Procs) /\ ChainLink(Side, c, d, U) /\ Begins(x, w) /\ Begins(Taken, s)
    BY <1>4 DEF Flow, Carries
  <2>2. u \in Bytes /\ x \in Bytes /\ g \in Bytes /\ w \in Bytes
    BY <2>1, LinkTyped, GotTyped
  <2>3. pipe'[2] \in Bytes
    BY DEF Types
  <2>4. Begins(x, pipe'[2])
    <3> HIDE DEF x, w
    <3>1. Begins(w, pipe'[2])
      BY DEF w
    <3> QED
      BY <2>1, <2>2, <2>3, <3>1, BeginsChain
  <2>5. s \in Bytes
    <3> HIDE DEF g, u
    <3> QED
      BY <2>2, BytesAssoc
  <2> HIDE DEF s
  <2>6. Begins(Taken', s)
    BY <1>2, <2>1, <2>5, BeginsChain
  <2>7. Carries(Side, c, d, U, pipe'[2], Got, Taken')
    BY <2>1, <2>4, <2>6 DEF Carries, s
  <2>8. Steady' => c = chain'[Node(1)] /\ Exact(c, U, pipe'[2], output'[1], Got, Taken')
    BY <1>4 DEF Flow
  <2> QED
    BY <1>1, <2>7, <2>8 DEF Flow
<1>5. Flowing => Flowing'
  <2> SUFFICES ASSUME Flowing PROVE Flowing'
    OBVIOUS
  <2>1. PICK c, U : Flow(c, U)
    BY DEF Flowing
  <2>2. Flow(c, U)'
    BY <1>4, <2>1
  <2> QED
    BY <2>2 DEF Flowing
<1> QED
  BY <1>3, <1>5 DEF FlowInv

LEMMA ConnectFlow ==
    ASSUME SafeInv, Base, Readable, Connect, Types'
    PROVE  FlowInv'
<1> DEFINE c == chain'[Node(1)]
           d == chain'[Node(2)]
           U == Nothing(Len(c))
<1>1. /\ setup \in Setups /\ Types /\ Configured /\ Written /\ dir \in Direction
  BY DEF SafeInv, Types, TypeOK
<1>2. PICK rnd \in Randoms :
        chain' = [n \in NodeName |->
                    build_processor_chain(setup.specs[n], setup.reverse[n], rnd)]
  BY DEF Connect
<1>3. /\ payload' = payload /\ dir' = dir /\ pipe' = pipe /\ output' = output /\ broken' = broken
      /\ loop' = [h \in Hop |-> "read"]
      /\ \A h \in Hop : loop[h] = "none"
      /\ \A n \in NodeName : tunnel[n] = "listening"
  BY DEF Connect, fixed
<1>4. \A n \in NodeName : Built(chain'[n], setup.specs[n], setup.reverse[n])
  <2> SUFFICES ASSUME NEW n \in NodeName PROVE Built(chain'[n], setup.specs[n], setup.reverse[n])
    OBVIOUS
  <2> DEFINE e == build_processor_chain(setup.specs[n], setup.reverse[n], rnd)
  <2>1. Built(e, setup.specs[n], setup.reverse[n])
    BY <1>3, ConnectBuilds
  <2>2. chain'[n] = e
    BY <1>2
  <2> HIDE DEF e
  <2> QED
    BY <2>1, <2>2
<1>5. ChainLink(Side, c, d, U)
  <2> DEFINE near == chain'["near"]
             far == chain'["far"]
  <2>1. /\ Built(near, setup.specs["near"], setup.reverse["near"])
        /\ Built(far, setup.specs["far"], setup.reverse["far"])
    BY <1>4 DEF NodeName
  <2>2. \A n \in NodeName : \A k \in DOMAIN setup.specs[n] : ValidSpec(setup.specs[n][k])
    BY <1>1, <1>3 DEF Configured
  <2> HIDE DEF near, far
  <2>3. /\ ChainLink("local", near, far, Nothing(Len(near)))
        /\ ChainLink("remote", far, near, Nothing(Len(far)))
    BY <1>1, <2>1, <2>2, BuiltLinked
  <2>4. CASE dir = "up"
    <3>1. Side = "local" /\ c = near /\ d = far
      BY <2>4 DEF Side, Node, near, far
    <3> QED
      BY <2>3, <3>1
  <2>5. CASE dir # "up"
    <3>1. Side = "remote" /\ c = far /\ d = near
      BY <2>5 DEF Side, Node, near, far
    <3> QED
      BY <2>3, <3>1
  <2> QED
    BY <2>4, <2>5
<1>6. c \in Seq(Procs) /\ d \in Seq(Procs)
  BY <1>4, NodeTyped DEF Built, Hop
<1>7. U[0] = <<>> /\ U[Len(c)] = <<>>
  <2> DEFINE m == Len(c)
  <2>1. m \in Nat
    BY <1>6
  <2> HIDE DEF m
  <2>2. Nothing(m)[0] = <<>> /\ Nothing(m)[m] = <<>>
    BY <2>1 DEF Nothing
  <2> QED
    BY <2>2 DEF m
<1>8. pipe[2] = <<>> /\ Got = <<>> /\ Taken = <<>> /\ output[1] = <<>>
  <2>1. loop[1] = "none" /\ loop[2] = "none"
    BY <1>3 DEF Hop
  <2>2. output[1] = <<>> /\ output[2] = <<>>
    BY <1>1, <2>1 DEF Written, Hop
  <2> QED
    BY <1>1, <2>1, <2>2, GotTyped DEF Base
<1> DEFINE z == <<>>
<1>9. z \in Bytes /\ z \o z = z /\ Flat(z) = z
  BY FlatEmpty, ConcatEmpty DEF Bytes
<1> HIDE DEF z, U, c, d
<1>10. U[0] = z /\ U[Len(c)] = z /\ pipe[2] = z /\ Got = z /\ Taken = z /\ output[1] = z
  BY <1>7, <1>8 DEF z
<1>11. Joins(z, z, z) /\ Begins(z, z)
  <2>1. Joins(z, z, z)
    BY <1>9 DEF Joins
  <2> QED
    BY <1>9, <2>1, JoinsBegins
<1>12. Carries(Side, c, d, U, z, z, z)
  BY <1>5, <1>6, <1>9, <1>10, <1>11 DEF Carries
<1>13. Exact(c, U, z, z, z, z)
  BY <1>9, <1>10, <1>11 DEF Exact
<1>14. Side' = Side /\ Node(1)' = Node(1) /\ Node(2)' = Node(2) /\ Got' = Got /\ Taken' = Taken
  BY <1>3 DEF Side, Node, Got, Taken
<1>15. Carries(Side', c, chain'[Node(2)'], U, pipe'[2], Got', Taken')
  BY <1>3, <1>10, <1>12, <1>14 DEF d
<1>16. c = chain'[Node(1)'] /\ Exact(c, U, pipe'[2], output'[1], Got', Taken')
  BY <1>3, <1>10, <1>13, <1>14 DEF c
<1>17. PICK e, V : e = c /\ V = U
  OBVIOUS
<1>18. Flow(e, V)'
  BY <1>15, <1>16, <1>17 DEF Flow
<1>19. Flowing'
  BY <1>18 DEF Flowing
<1> QED
  BY <1>3, <1>19 DEF FlowInv, Hop

LEMMA ReadFirstFlow ==
    ASSUME DrawsNumbers, SafeInv, Base, FlowInv, Types', Base',
           NEW input, NEW rest, NEW r, Reads(1, input, rest, r)
    PROVE  FlowInv'
<1>1. Types /\ Written /\ Hop = {1, 2}
  BY DEF SafeInv, Hop
<1>2. /\ input \in Bytes /\ r = Visit(Side, chain[Node(1)], <<input>>)
      /\ loop[1] = "read" /\ pipe' = [pipe EXCEPT ![1] = rest]
      /\ chain' = [chain EXCEPT ![Node(1)] = r.p]
      /\ output' = [output EXCEPT ![1] = r.out]
      /\ dir' = dir
  BY DEF Reads
<1>3. \/ /\ r.status = "ok" /\ loop'[1] # "stuck" /\ broken' = broken
      \/ broken' = TRUE
      \/ loop'[1] = "stuck" /\ broken' = broken
  BY <1>1 DEF Reads, Types, TypeOK
<1>4. /\ loop'[2] = loop[2] /\ pipe'[2] = pipe[2] /\ pipe'[3] = pipe[3]
      /\ output'[2] = output[2] /\ output'[1] = r.out
  BY <1>1, <1>2 DEF Reads, Types, TypeOK
<1>5. chain'[Node(2)] = chain[Node(2)] /\ chain'[Node(1)] = r.p
  BY <1>1, <1>2, NodeTyped DEF Types
<1>6. Taken \in Bytes /\ Taken' = Taken \o input /\ Taken' \in Bytes
  BY <1>1, ReadTakes DEF Base
<1>7. /\ Side' = Side /\ Node(1)' = Node(1) /\ Node(2)' = Node(2) /\ Got' = Got
      /\ Got \in Bytes /\ pipe[2] \in Bytes
  BY <1>1, <1>2, <1>4, GotTyped DEF Side, Node, Got
<1>8. Begins(Taken', Taken) /\ Begins(pipe[2], pipe'[2])
  <2>1. Begins(Taken \o input, Taken)
    <3> DEFINE t == Taken
               s == t \o input
    <3>1. Joins(s, t, input)
      BY DEF Joins
    <3> HIDE DEF s, t
    <3>2. Begins(s, t)
      BY <1>2, <1>6, <3>1, JoinsBegins DEF t
    <3> QED
      BY <3>2 DEF s, t
  <2>2. Begins(pipe[2], pipe[2])
    BY <1>7 DEF Begins, Bytes
  <2> QED
    BY <1>4, <1>6, <2>1, <2>2
<1>9. CASE ~Steady'
  <2>1. broken => broken'
    BY <1>1, <1>3 DEF Types, TypeOK
  <2> QED
    BY <1>1, <1>2, <1>4, <1>5, <1>6, <1>8, <1>9, <2>1, FlowKept
<1>10. CASE Steady'
  <2>1. r.status = "ok" /\ Steady
    BY <1>2, <1>3, <1>10 DEF Steady
  <2>2. output[1] = <<>>
    BY <1>1, <1>2 DEF Written
  <2>3. ASSUME NEW c, NEW U, Flow(c, U) PROVE Flowing'
    <3>1. /\ Carries(Side, c, chain[Node(2)], U, pipe[2], Got, Taken)
          /\ c = chain[Node(1)] /\ Exact(c, U, pipe[2], <<>>, Got, Taken)
      BY <2>1, <2>2, <2>3 DEF Flow
    <3>2. c \in Seq(Procs) /\ chain[Node(2)] \in Seq(Procs)
      BY <3>1 DEF Carries
    <3>3. \E V : /\ Carries(Side, r.p, chain[Node(2)], V, pipe[2], Got, Taken \o input)
                 /\ Exact(r.p, V, pipe[2], r.out, Got, Taken \o input)
      <4>1. r = Visit(Side, c, <<input>>)
        BY <1>2, <3>1
      <4> QED
        BY <1>2, <1>6, <1>7, <2>1, <3>1, <4>1, SideTyped, CarriesPacks
    <3>4. PICK V : /\ Carries(Side, r.p, chain[Node(2)], V, pipe[2], Got, Taken \o input)
                   /\ Exact(r.p, V, pipe[2], r.out, Got, Taken \o input)
      BY <3>3
    <3>5. Carries(Side', r.p, chain'[Node(2)'], V, pipe'[2], Got', Taken')
      BY <1>4, <1>5, <1>6, <1>7, <3>4
    <3>6. r.p = chain'[Node(1)'] /\ Exact(r.p, V, pipe'[2], output'[1], Got', Taken')
      BY <1>4, <1>5, <1>6, <1>7, <3>4
    <3>7. Flow(r.p, V)'
      BY <3>5, <3>6 DEF Flow
    <3> QED
      BY <3>7 DEF Flowing
  <2>4. Flowing => Flowing'
    BY <2>3 DEF Flowing
  <2>5. loop[2] \in {"read", "write"} => Flowing'
    BY <2>4 DEF FlowInv
  <2>6. ASSUME Begins(Taken, pipe[3]) PROVE Begins(Taken', pipe'[3])
    <3>1. pipe[3] \in Bytes
      BY <1>1, GotTyped
    <3> QED
      BY <1>4, <1>6, <1>8, <2>6, <3>1, BeginsChain
  <2>7. ~(loop[2] = "done" /\ ~broken)
    BY <1>2 DEF FlowInv
  <2>8. ~(loop'[2] = "done" /\ ~broken')
    BY <1>3, <1>4, <1>10, <2>7 DEF Steady, FlowInv
  <2>9. loop'[2] \in {"read", "write"} => Flowing'
    BY <1>4, <2>5
  <2>10. loop'[2] \in {"done", "stuck"} => Begins(Taken', pipe'[3])
    BY <1>4, <2>6 DEF FlowInv
  <2> QED
    BY <2>8, <2>9, <2>10 DEF FlowInv
<1> QED
  BY <1>9, <1>10

LEMMA WriteFirstFlow ==
    ASSUME SafeInv, Base, FlowInv, Types', Write(1)
    PROVE  FlowInv'
<1> DEFINE b == Head(output[1])
           rest == Tail(output[1])
           w == pipe[2]
           more == w \o b
<1>1. Types /\ Written /\ Hop = {1, 2}
  BY DEF SafeInv, Hop
<1>2. /\ payload' = payload /\ dir' = dir /\ chain' = chain /\ broken' = broken
      /\ pipe' = IF broken THEN pipe ELSE [pipe EXCEPT ![2] = more]
      /\ output' = [output EXCEPT ![1] = rest]
      /\ loop' = [loop EXCEPT ![1] = IF Len(output[1]) = 1 THEN "read" ELSE "write"]
      /\ loop[1] = "write"
  BY DEF Write, fixed
<1>3. /\ b \in Bytes /\ rest \in Seq(Bytes) /\ Flat(output[1]) = b \o Flat(rest)
  BY <1>1, WriteTyped0
<1>4. w \in Bytes /\ Got \in Bytes /\ Taken \in Bytes /\ Flat(rest) \in Bytes
  BY <1>1, <1>3, GotTyped, FlatTyped DEF Base
<1> HIDE DEF b, rest, w, more
<1>5. pipe'[3] = pipe[3] /\ pipe'[1] = pipe[1] /\ pipe'[2] = IF broken THEN w ELSE more
  BY <1>1, <1>2 DEF Types, w
<1>6. /\ output'[2] = output[2] /\ output'[1] = rest
      /\ loop'[2] = loop[2] /\ loop'[1] # "stuck"
  BY <1>1, <1>2 DEF Types, TypeOK
<1>7. /\ Side' = Side /\ Node(1)' = Node(1) /\ Node(2)' = Node(2) /\ Got' = Got
      /\ Taken' = Taken
  BY <1>2, <1>5, <1>6, TakenKept DEF Side, Node, Got
<1>8. CASE broken
  <2>1. Begins(pipe[2], pipe'[2])
    BY <1>4, <1>5, <1>8 DEF Begins, Bytes, w
  <2>2. Begins(Taken', Taken)
    BY <1>4, <1>7 DEF Begins, Bytes
  <2>3. ~Steady'
    BY <1>2, <1>8 DEF Steady
  <2> QED
    BY <1>1, <1>2, <1>4, <1>5, <1>6, <1>7, <1>8, <2>1, <2>2, <2>3, FlowKept
<1>9. CASE ~broken
  <2>1. Steady
    BY <1>2, <1>9 DEF Steady
  <2>2. ASSUME NEW c, NEW U, Flow(c, U) PROVE Flowing'
    <3> DEFINE x == U[Len(c)]
               f == Flat(rest)
    <3>1. /\ Carries(Side, c, chain[Node(2)], U, w, Got, Taken)
          /\ c = chain[Node(1)] /\ Exact(c, U, w, output[1], Got, Taken)
      BY <2>1, <2>2 DEF Flow, w
    <3>2. c \in Seq(Procs) /\ chain[Node(2)] \in Seq(Procs) /\ ChainLink(Side, c, chain[Node(2)], U)
      BY <3>1 DEF Carries
    <3>3. x \in Bytes /\ f \in Bytes
      BY <1>4, <3>2, LinkTyped
    <3>4. Joins(x, w, b \o f)
      BY <1>3, <3>1 DEF Exact
    <3> HIDE DEF x, f
    <3>5. Joins(x, more, f) /\ more \in Bytes
      <4>1. Joins(x, w \o b, f)
        BY <1>3, <1>4, <3>3, <3>4, JoinsLess
      <4>2. w \o b \in Bytes
        BY <1>3, <1>4, BytesAssoc
      <4> QED
        BY <4>1, <4>2 DEF more
    <3>6. Begins(x, more)
      BY <3>3, <3>5, JoinsBegins
    <3>7. Carries(Side, c, chain[Node(2)], U, more, Got, Taken)
      BY <3>1, <3>6 DEF Carries, x
    <3>8. Exact(c, U, more, rest, Got, Taken)
      BY <3>1, <3>5 DEF Exact, x, f
    <3>9. Carries(Side', c, chain'[Node(2)'], U, pipe'[2], Got', Taken')
      BY <1>2, <1>5, <1>7, <1>9, <3>7
    <3>10. c = chain'[Node(1)'] /\ Exact(c, U, pipe'[2], output'[1], Got', Taken')
      BY <1>2, <1>5, <1>6, <1>7, <1>9, <3>1, <3>8
    <3>11. Flow(c, U)'
      BY <3>9, <3>10 DEF Flow
    <3> QED
      BY <3>11 DEF Flowing
  <2>3. Flowing => Flowing'
    BY <2>2 DEF Flowing
  <2>4. loop[2] # "done"
    BY <1>2, <1>9 DEF FlowInv
  <2>5. loop'[2] \in {"read", "write"} => Flowing'
    BY <1>6, <2>3 DEF FlowInv
  <2>6. loop'[2] \in {"done", "stuck"} => Begins(Taken', pipe'[3])
    BY <1>5, <1>6, <1>7 DEF FlowInv
  <2> QED
    BY <1>6, <2>4, <2>5, <2>6 DEF FlowInv
<1> QED
  BY <1>8, <1>9

LEMMA ReadSecondFlow ==
    ASSUME DrawsNumbers, SafeInv, Base, FlowInv, Types', Base',
           NEW input, NEW rest, NEW r, Reads(2, input, rest, r)
    PROVE  FlowInv'
<1> DEFINE w == pipe[2]
           f == Flat(r.out)
           more == Got \o f
<1>1. Types /\ Written /\ Hop = {1, 2} /\ 2 \in Hop
  BY DEF SafeInv, Hop
<1>2. /\ input \in Bytes /\ rest \in Bytes /\ Joins(w, input, rest)
      /\ r = Visit(Side, chain[Node(2)], <<input>>)
      /\ loop[2] = "read" /\ pipe' = [pipe EXCEPT ![2] = rest]
      /\ chain' = [chain EXCEPT ![Node(2)] = r.p]
      /\ output' = [output EXCEPT ![2] = r.out]
      /\ dir' = dir /\ payload' = payload
  BY DEF Reads
<1>3. \/ /\ r.status = "ok" /\ loop'[2] \in {"read", "write"} /\ broken' = broken
      \/ loop'[2] = "done" /\ broken' = TRUE
      \/ loop'[2] = "stuck"
  BY <1>1 DEF Reads, Types, TypeOK
<1>4. /\ loop'[1] = loop[1] /\ pipe'[1] = pipe[1] /\ pipe'[3] = pipe[3] /\ pipe'[2] = rest
      /\ output'[2] = r.out /\ output'[1] = output[1]
  BY <1>1, <1>2 DEF Reads, Types, TypeOK
<1>5. chain'[Node(1)] = chain[Node(1)] /\ chain'[Node(2)] = r.p
  BY <1>1, <1>2, NodeTyped DEF Types
<1>6. w \in Bytes /\ Got \in Bytes /\ Taken \in Bytes /\ Got = pipe[3]
  BY <1>1, <1>2, GotTyped DEF Base, Written
<1>7. /\ Side' = Side /\ Node(1)' = Node(1) /\ Node(2)' = Node(2) /\ Got' = more
      /\ Taken' = Taken
  BY <1>2, <1>4, <1>6, TakenKept DEF Side, Node, Got
<1>8. Begins(Taken', pipe'[3])
  BY <1>1, <1>2, <1>4, <1>7, FlowBegins
<1>9. r.status = "ok" => r.out \in Seq(Bytes) /\ f \in Bytes
  BY <1>1, ReadsSound, FlatTyped
<1>10. CASE r.status = "ok" /\ loop'[2] \in {"read", "write"} /\ broken' = broken
  <2>1. PICK c, U : Flow(c, U)
    BY <1>2 DEF FlowInv, Flowing
  <2> DEFINE d == chain[Node(2)]
  <2>2. Carries(Side, c, d, U, w, Got, Taken)
    BY <2>1 DEF Flow
  <2>3. \E V : /\ Carries(Side, c, r.p, V, rest, more, Taken)
               /\ \A a \in Bytes : Joins(U[Len(c)], w, a) /\ Joins(Taken, Got, U[0])
                     => Joins(V[Len(c)], rest, a) /\ Joins(Taken, more, V[0])
    <3> HIDE DEF w, d
    <3>1. r = Visit(Side, d, <<input>>)
      BY <1>2 DEF d
    <3> QED
      BY <1>2, <1>6, <1>10, <2>2, <3>1, SideTyped, CarriesUnpacks
  <2>4. PICK V : /\ Carries(Side, c, r.p, V, rest, more, Taken)
                 /\ \A a \in Bytes : Joins(U[Len(c)], w, a) /\ Joins(Taken, Got, U[0])
                       => Joins(V[Len(c)], rest, a) /\ Joins(Taken, more, V[0])
    BY <2>3
  <2> HIDE DEF w, more, f
  <2>5. Carries(Side', c, chain'[Node(2)'], V, pipe'[2], Got', Taken')
    BY <1>4, <1>5, <1>7, <2>4
  <2>6. ASSUME Steady' PROVE c = chain'[Node(1)'] /\ Exact(c, V, pipe'[2], output'[1], Got', Taken')
    <3> DEFINE a == Flat(output[1])
    <3>1. Steady
      BY <1>4, <1>10, <2>6 DEF Steady
    <3>2. c = chain[Node(1)] /\ Joins(U[Len(c)], w, a) /\ Joins(Taken, Got, U[0])
      BY <2>1, <3>1 DEF Flow, Exact, w
    <3>3. a \in Bytes
      BY <1>1, FlatTyped DEF Types
    <3> HIDE DEF a
    <3>4. Joins(V[Len(c)], rest, a) /\ Joins(Taken, more, V[0])
      BY <2>4, <3>2, <3>3
    <3>5. Exact(c, V, rest, output[1], more, Taken)
      BY <3>4 DEF Exact, a
    <3> QED
      BY <1>4, <1>5, <1>7, <3>2, <3>5
  <2>7. Flow(c, V)'
    BY <2>5, <2>6 DEF Flow
  <2>8. Flowing'
    BY <2>7 DEF Flowing
  <2> QED
    BY <1>10, <2>8 DEF FlowInv
<1>11. CASE loop'[2] = "done" /\ broken' = TRUE
  BY <1>8, <1>11 DEF FlowInv
<1>12. CASE loop'[2] = "stuck"
  BY <1>8, <1>12 DEF FlowInv
<1> QED
  BY <1>3, <1>10, <1>11, <1>12

LEMMA WriteSecondFlow ==
    ASSUME SafeInv, Base, FlowInv, Types', Write(2)
    PROVE  FlowInv'
<1> DEFINE b == Head(output[2])
           rest == Tail(output[2])
           w == pipe[3]
           more == w \o b
<1>1. Types /\ Written /\ Hop = {1, 2}
  BY DEF SafeInv, Hop
<1>2. /\ payload' = payload /\ dir' = dir /\ chain' = chain /\ broken' = broken
      /\ pipe' = [pipe EXCEPT ![3] = more]
      /\ output' = [output EXCEPT ![2] = rest]
      /\ loop' = [loop EXCEPT ![2] = IF Len(output[2]) = 1 THEN "read" ELSE "write"]
      /\ loop[2] = "write"
  BY DEF Write, fixed
<1>3. /\ b \in Bytes /\ rest \in Seq(Bytes) /\ Flat(output[2]) = b \o Flat(rest)
  BY <1>1, WriteTyped0
<1> DEFINE f == Flat(rest)
<1>4. w \in Bytes /\ f \in Bytes
  BY <1>1, <1>3, GotTyped, FlatTyped
<1>5. Got = w \o (b \o f)
  BY <1>3 DEF Got
<1> HIDE DEF b, rest, w, more
<1>6. pipe'[3] = more /\ pipe'[1] = pipe[1] /\ pipe'[2] = pipe[2]
  BY <1>1, <1>2 DEF Types
<1>7. /\ output'[1] = output[1] /\ output'[2] = rest
      /\ loop'[1] = loop[1] /\ loop'[2] \in {"read", "write"}
  BY <1>1, <1>2 DEF Types, TypeOK
<1>8. Got' = Got
  <2>1. Got' = more \o f
    BY <1>6, <1>7 DEF Got
  <2> HIDE DEF f
  <2>2. (w \o b) \o f = w \o (b \o f)
    <3>1. Associates(w, b, f)
      BY <1>3, <1>4, BytesAssociate
    <3> QED
      BY <3>1 DEF Associates
  <2> QED
    BY <1>5, <2>1, <2>2 DEF more
<1>9. /\ Side' = Side /\ Node(1)' = Node(1) /\ Node(2)' = Node(2) /\ Taken' = Taken
      /\ Steady' = Steady
  BY <1>2, <1>6, <1>7, TakenKept DEF Side, Node, Steady
<1>10. PICK c, U : Flow(c, U)
  BY <1>2 DEF FlowInv, Flowing
<1>11. Carries(Side', c, chain'[Node(2)'], U, pipe'[2], Got', Taken')
  BY <1>2, <1>6, <1>8, <1>9, <1>10 DEF Flow
<1>12. Steady' => c = chain'[Node(1)'] /\ Exact(c, U, pipe'[2], output'[1], Got', Taken')
  BY <1>2, <1>6, <1>7, <1>8, <1>9, <1>10 DEF Flow
<1>13. Flow(c, U)'
  BY <1>11, <1>12 DEF Flow
<1>14. Flowing'
  BY <1>13 DEF Flowing
<1> QED
  BY <1>7, <1>14 DEF FlowInv

\* Nothing is under way: everything is at the sink.
LEMMA FlowDelivers ==
    ASSUME Types, Written, FlowInv, loop[2] = "read", loop[1] \in {"read", "done"},
           pipe[2] = <<>>, ~broken
    PROVE  pipe[3] = Taken
<1>1. Steady /\ output[1] = <<>> /\ output[2] = <<>>
  BY DEF Steady, Written, Hop
<1>2. PICK c, U : Flow(c, U)
  BY DEF FlowInv, Flowing
<1> DEFINE d == chain[Node(2)]
           x == U[Len(c)]
           g == Got
           u == U[0]
           z == <<>>
<1>3. c \in Seq(Procs) /\ d \in Seq(Procs) /\ ChainLink(Side, c, d, U)
  BY <1>2 DEF Flow, Carries
<1>4. Joins(x, z, Flat(z)) /\ Joins(Taken, g, u)
  BY <1>1, <1>2 DEF Flow, Exact
<1>5. x = <<>>
  <2>1. Flat(z) = z /\ z \o z = z
    BY FlatEmpty, ConcatEmpty DEF Bytes
  <2> HIDE DEF x, z
  <2>2. x = z
    BY <1>4, <2>1 DEF Joins
  <2> QED
    BY <2>2 DEF z
<1>6. u = <<>>
  BY <1>3, <1>5, SideTyped, ChainDelivers
<1>7. g \in Seq(Byte) /\ g = pipe[3]
  BY <1>1, GotTyped DEF Bytes
<1> HIDE DEF g, u
<1>8. g \o u = g
  BY <1>6, <1>7, ConcatEmpty
<1> QED
  BY <1>4, <1>7, <1>8 DEF Joins

\* The second hop sees the end.
LEMMA EofSecondFlow ==
    ASSUME SafeInv, Base, FlowInv, Eof(2)
    PROVE  FlowInv'
<1>1. Types /\ Written /\ Hop = {1, 2}
  BY DEF SafeInv, Hop
<1>2. /\ payload' = payload /\ pipe' = pipe /\ loop[2] = "read" /\ pipe[2] = <<>> /\ fin[2]
      /\ loop' = [loop EXCEPT ![2] = "done"] /\ (broken => broken')
  BY DEF Eof, Done, fixed
<1>3. loop'[2] = "done" /\ loop'[1] = loop[1] /\ loop[1] = "done"
  BY <1>1, <1>2 DEF Types, TypeOK, Base
<1>4. Taken' = Taken /\ pipe'[3] = pipe[3]
  BY <1>2, TakenKept
<1>5. Begins(Taken', pipe'[3])
  BY <1>1, <1>2, <1>4, FlowBegins
<1>6. ASSUME ~broken' PROVE pipe[3] = Taken
  BY <1>1, <1>2, <1>3, <1>6, FlowDelivers
<1> QED
  BY <1>2, <1>3, <1>4, <1>5, <1>6 DEF FlowInv

LEMMA BeginsSelf ==
    ASSUME NEW a \in Bytes
    PROVE  Begins(a, a)
BY DEF Begins, Bytes

\* The steps that give the second hop nothing: an end of the first loop, a
\* failure, a loss.
LEMMA OtherFlow ==
    ASSUME SafeInv, Base, FlowInv, Types',
           Eof(1) \/ Fails(1) \/ Lose \/ (\E n \in NodeName : run_tunnel(n)) \/ UNCHANGED vars
    PROVE  FlowInv'
<1>1. Types /\ Written /\ Hop = {1, 2} /\ Taken \in Bytes
  BY DEF SafeInv, Hop, Base
<1>2. /\ dir' = dir /\ chain' = chain /\ payload' = payload
      /\ broken => broken'
  <2>1. dir' = dir /\ chain' = chain /\ payload' = payload
    BY DEF Eof, Fails, Lose, run_tunnel, fixed, vars
  <2>2. ASSUME broken PROVE broken'
    <3>1. CASE Eof(1)
      BY <2>2, <3>1 DEF Eof
    <3>2. CASE Fails(1) \/ (\E n \in NodeName : run_tunnel(n)) \/ UNCHANGED vars
      <4>1. broken' = broken
        BY <3>2 DEF Fails, run_tunnel, vars
      <4> QED
        BY <2>2, <4>1
    <3>3. CASE Lose
      BY <2>2, <3>3 DEF Lose
    <3> QED
      BY <3>1, <3>2, <3>3
  <2> QED
    BY <2>1, <2>2
<1>3. /\ loop'[2] = loop[2] /\ output'[2] = output[2]
      /\ loop[1] = "done" => loop'[1] = "done"
  <2>1. CASE Eof(1)
    BY <1>1, <2>1 DEF Eof, Done, Types, TypeOK
  <2>2. CASE Fails(1)
    BY <1>1, <2>2 DEF Fails, Done, Types, TypeOK
  <2>3. CASE Lose \/ (\E n \in NodeName : run_tunnel(n)) \/ UNCHANGED vars
    BY <2>3 DEF Lose, run_tunnel, vars
  <2> QED
    BY <2>1, <2>2, <2>3
<1>4. /\ pipe'[3] = pipe[3] /\ pipe'[1] = pipe[1] /\ Begins(pipe[2], pipe'[2])
  <2> DEFINE s == pipe[2]
  <2>1. s \in Bytes /\ s \in Seq(Byte)
    BY <1>1, GotTyped DEF Bytes
  <2> HIDE DEF s
  <2>2. Begins(s, s)
    BY <2>1, BeginsSelf
  <2>3. CASE Lose
    <3>1. PICK k \in 0..Len(pipe[2]) : pipe' = [pipe EXCEPT ![2] = SubSeq(@, 1, k)]
      BY <2>3 DEF Lose
    <3> DEFINE a == SubSeq(s, 1, k)
    <3>2. k \in 0..Len(s) /\ pipe' = [pipe EXCEPT ![2] = a]
      BY <1>1, <3>1 DEF s, Types
    <3>3. Begins(s, a)
      <4>1. a \in Seq(Byte) /\ Len(a) = k
        BY <2>1, <3>2, SplitAt
      <4>2. \A i \in 1..k : s[i] = a[i]
        BY <2>1, <3>2
      <4>3. k <= Len(s)
        BY <2>1, <3>2
      <4> HIDE DEF a
      <4> QED
        BY <4>1, <4>2, <4>3 DEF Begins
    <3> HIDE DEF a
    <3> QED
      BY <1>1, <3>2, <3>3 DEF Types, s
  <2>4. CASE ~Lose
    <3>1. pipe' = pipe
      BY <2>4 DEF Eof, Fails, run_tunnel, vars
    <3> QED
      BY <2>2, <3>1 DEF s
  <2> QED
    BY <2>3, <2>4
<1>5. Taken' = Taken
  BY <1>2, <1>4, TakenKept
<1>6. Begins(Taken', Taken)
  BY <1>1, <1>5, BeginsSelf
<1>7. ASSUME Steady' PROVE Steady /\ pipe' = pipe /\ output'[1] = output[1]
  <2>1. ~broken' /\ loop'[1] # "stuck"
    BY <1>7 DEF Steady
  <2>2. ~Lose /\ ~Fails(1)
    BY <2>1 DEF Lose, Fails
  <2>3. pipe' = pipe /\ output' = output
    BY <2>2 DEF Eof, run_tunnel, vars
  <2>4. loop[1] # "stuck"
    <3>1. CASE Eof(1)
      BY <3>1 DEF Eof
    <3>2. CASE ~Eof(1)
      BY <2>1, <2>2, <3>2 DEF run_tunnel, vars
    <3> QED
      BY <3>1, <3>2
  <2> QED
    BY <1>2, <2>1, <2>3, <2>4 DEF Steady
<1>8. chain'[Node(2)] = chain[Node(2)] /\ Taken' \in Bytes
  BY <1>1, <1>2, <1>5
<1> QED
  BY <1>1, <1>2, <1>3, <1>4, <1>5, <1>6, <1>7, <1>8, FlowKept

LEMMA FailsSecondFlow ==
    ASSUME SafeInv, Base, FlowInv, Fails(2)
    PROVE  FlowInv'
<1>1. Types /\ Hop = {1, 2}
  BY DEF SafeInv, Hop
<1>2. /\ payload' = payload /\ pipe' = pipe /\ broken' /\ loop[2] \in {"read", "write"}
      /\ loop' = [loop EXCEPT ![2] = "done"]
  BY DEF Fails, Done, fixed
<1>3. loop'[2] = "done"
  BY <1>1, <1>2 DEF Types, TypeOK
<1>4. Taken' = Taken
  BY <1>2, TakenKept
<1>5. Begins(Taken', pipe'[3])
  BY <1>1, <1>2, <1>4, FlowBegins
<1> QED
  BY <1>2, <1>3, <1>5 DEF FlowInv

LEMMA StepFlow ==
    ASSUME DrawsNumbers
    PROVE  SafeInv /\ Base /\ Readable /\ FlowInv /\ [Next]_vars => FlowInv'
<1> SUFFICES ASSUME SafeInv, Base, Readable, FlowInv, [Next]_vars PROVE FlowInv'
  OBVIOUS
<1>1. SafeInv' /\ Base'
  BY StepSafe, StepBase
<1>2. Types /\ Types' /\ Hop = {1, 2}
  BY <1>1 DEF SafeInv, Hop
<1>3. CASE Connect
  BY <1>2, <1>3, ConnectFlow
<1>4. ASSUME NEW h \in Hop, Read(h) PROVE FlowInv'
  <2>1. PICK input, rest, r : Reads(h, input, rest, r)
    BY <1>2, <1>4, ReadCases
  <2>2. CASE h = 1
    BY <1>1, <1>2, <2>1, <2>2, ReadFirstFlow
  <2>3. CASE h = 2
    BY <1>1, <1>2, <2>1, <2>3, ReadSecondFlow
  <2> QED
    BY <1>2, <2>2, <2>3
<1>5. ASSUME NEW h \in Hop, Write(h) PROVE FlowInv'
  <2>1. CASE h = 1
    BY <1>2, <1>5, <2>1, WriteFirstFlow
  <2>2. CASE h = 2
    BY <1>2, <1>5, <2>2, WriteSecondFlow
  <2> QED
    BY <1>2, <2>1, <2>2
<1>6. CASE Eof(2)
  BY <1>6, EofSecondFlow
<1>7. CASE Fails(2)
  BY <1>7, FailsSecondFlow
<1>8. CASE Eof(1) \/ Fails(1) \/ Lose \/ (\E n \in NodeName : run_tunnel(n)) \/ UNCHANGED vars
  BY <1>2, <1>8, OtherFlow
<1> QED
  BY <1>2, <1>3, <1>4, <1>5, <1>6, <1>7, <1>8 DEF Next, LoopNext

LEMMA ReadableKept ==
    ASSUME setup' = setup
    PROVE  Readable' = Readable
BY DEF Readable, Mirrored

LEMMA SetupKept == [Next]_vars => setup' = setup
BY DEF Next, LoopNext, run_tunnel, Connect, Lose, Read, Write, Eof, Fails, fixed, vars

\* The invariant of the stream: what chains that mirror each other have under
\* way is what was taken and is not yet at the sink.
StreamInv == SafeInv /\ Base /\ (Readable => FlowInv)

LEMMA InitStream == Init => StreamInv
<1> SUFFICES ASSUME Init PROVE StreamInv
  OBVIOUS
<1>1. loop[2] = "none"
  BY DEF Init, Hop
<1>2. FlowInv
  BY <1>1 DEF FlowInv
<1> QED
  BY <1>2, InitSafe, InitBase DEF StreamInv

LEMMA StepStream ==
    ASSUME DrawsNumbers
    PROVE  StreamInv /\ [Next]_vars => StreamInv'
<1> SUFFICES ASSUME StreamInv, [Next]_vars PROVE StreamInv'
  OBVIOUS
<1>1. SafeInv' /\ Base'
  BY StepSafe, StepBase DEF StreamInv
<1>2. Readable' = Readable
  BY SetupKept, ReadableKept
<1>3. ASSUME Readable PROVE FlowInv'
  BY <1>3, StepFlow DEF StreamInv
<1> QED
  BY <1>1, <1>2, <1>3 DEF StreamInv

LEMMA AlwaysStream ==
    ASSUME DrawsNumbers
    PROVE  Spec => []StreamInv
<1>1. StreamInv /\ [Next]_vars => StreamInv'
  BY StepStream
<1> QED
  BY InitStream, <1>1, PTL DEF Spec

\* No chain keeps bytes back: when nothing is under way, everything that was
\* taken from the source is at the sink, so that flush has nothing to give.
THEOREM NothingKeptBack ==
    ASSUME DrawsNumbers
    PROVE  Spec => []NothingHeldBack
<1>1. StreamInv => NothingHeldBack
  <2> SUFFICES ASSUME StreamInv, Compatible, ~broken, pipe[2] = <<>>,
                      \A h \in Hop : loop[h] \in {"read", "done"}
               PROVE  pipe[3] = Taken
    BY DEF NothingHeldBack
  <2>1. Types /\ Written /\ FlowInv
    BY CompatibleReadable DEF StreamInv, SafeInv
  <2>2. loop[1] \in {"read", "done"} /\ loop[2] \in {"read", "done"}
    BY DEF Hop
  <2>3. CASE loop[2] = "read"
    BY <2>1, <2>2, <2>3, FlowDelivers
  <2>4. CASE loop[2] = "done"
    BY <2>1, <2>4 DEF FlowInv
  <2> QED
    BY <2>2, <2>3, <2>4
<1> QED
  BY AlwaysStream, <1>1, PTL

-----------------------------------------------------------------------------
(* The two ends see a pipe. *)

Sent == IF Readable THEN Taken ELSE <<>>
Arrived == IF Readable THEN pipe[3] ELSE <<>>

LEMMA EndsTyped ==
    ASSUME StreamInv
    PROVE  /\ Sent \in Bytes /\ Arrived \in Bytes /\ fin[3] \in BOOLEAN
           /\ loop[2] # "none" => Begins(Sent, Arrived)
<1>1. Types /\ Base
  BY DEF StreamInv, SafeInv
<1>2. <<>> \in Bytes /\ Begins(<<>>, <<>>)
  BY DEF Begins, Bytes
<1>3. Taken \in Bytes /\ pipe[3] \in Bytes /\ fin[3] \in BOOLEAN
  BY <1>1 DEF Base, Types, TypeOK
<1>4. ASSUME Readable, loop[2] # "none" PROVE Begins(Taken, pipe[3])
  BY <1>1, <1>4, FlowBegins DEF StreamInv
<1> QED
  BY <1>2, <1>3, <1>4 DEF Sent, Arrived

\* What a break may do to the two ends.
LEMMA LinkBreaks ==
    ASSUME StreamInv, StreamInv', Begins(Sent', Sent), Arrived' = Arrived,
           broken' \/ ~Readable',
           loop[1] = "done" => loop'[1] = "done" /\ Sent' = Sent,
           fin[3] => fin'[3]
    PROVE  Link!Break
<1>1. Sent' \in Bytes /\ Sent \in Bytes /\ fin[3] \in BOOLEAN
  <2>1. Taken' \in Bytes /\ <<>> \in Bytes
    BY DEF StreamInv, Base, Bytes
  <2> QED
    BY <2>1, EndsTyped DEF Sent
<1>2. fin'[3] \in BOOLEAN
  BY DEF StreamInv, SafeInv, Types, TypeOK
<1>3. Link!Extends(Sent', Sent)
  BY <1>1 DEF Link!Extends, Begins, Bytes
<1>4. (loop'[1] = "done") \in {loop[1] = "done", TRUE}
  OBVIOUS
<1>5. fin'[3] \in {fin[3], TRUE}
  BY <1>1, <1>2
<1>6. (broken' \/ ~Readable') = TRUE
  OBVIOUS
<1> QED
  BY <1>3, <1>4, <1>5, <1>6 DEF Link!Break, Sent, Arrived

\* What every step leaves alone at the two ends.
LEMMA EndsKept ==
    ASSUME StreamInv, [Next]_vars
    PROVE  /\ \A h \in Hop : loop[h] = "done" => loop'[h] = "done"
           /\ Begins(Taken', Taken)
           /\ ~Read(1) => Taken' = Taken
           /\ ~Write(2) => pipe'[3] = pipe[3]
           /\ ~broken' => ~broken
<1>1. Types /\ Base /\ Hop = {1, 2} /\ 1 \in Hop /\ Taken \in Bytes
      /\ loop \in [Hop -> {"none", "read", "write", "done", "stuck"}]
      /\ broken \in BOOLEAN
  BY DEF StreamInv, SafeInv, Hop, Base, Types, TypeOK
<1> DEFINE Kept == /\ \A h \in Hop : loop[h] = "done" => loop'[h] = "done"
                   /\ ~broken' => ~broken
           Ends == pipe'[1] = pipe[1] /\ payload' = payload
<1>2. ASSUME NEW h \in Hop, Read(h)
      PROVE  /\ Kept /\ pipe'[3] = pipe[3] /\ Begins(Taken', Taken)
             /\ h = 2 => Ends
  <2>1. PICK input, rest, r : Reads(h, input, rest, r)
    BY <1>1, <1>2, ReadCases
  <2>2. Kept
    BY <1>1, <2>1 DEF Reads
  <2>3. pipe'[3] = pipe[3] /\ (h = 2 => Ends)
    BY <1>1, <2>1 DEF Reads, Types
  <2>4. Begins(Taken', Taken)
    <3>1. CASE h = 1
      <4>1. Taken' = Taken \o input /\ Taken' \in Bytes /\ input \in Bytes
        BY <1>1, <2>1, <3>1, ReadTakes DEF Reads
      <4> DEFINE t == Taken
                 s == t \o input
      <4>2. Joins(s, t, input)
        BY DEF Joins
      <4> HIDE DEF s, t
      <4>3. Begins(s, t)
        BY <1>1, <4>1, <4>2, JoinsBegins DEF t
      <4> QED
        BY <4>1, <4>3 DEF s, t
    <3>2. CASE h = 2
      <4>1. Taken' = Taken
        BY <2>3, <3>2, TakenKept
      <4> QED
        BY <1>1, <4>1, BeginsSelf
    <3> QED
      BY <1>1, <3>1, <3>2
  <2> QED
    BY <2>2, <2>3, <2>4
<1>3. ASSUME NEW h \in Hop, Write(h)
      PROVE  Kept /\ Ends /\ (h = 1 => pipe'[3] = pipe[3])
  <2> DEFINE more == pipe[h + 1] \o Head(output[h])
  <2>1. /\ payload' = payload /\ broken' = broken /\ loop[h] = "write"
        /\ pipe' = pipe \/ pipe' = [pipe EXCEPT ![h + 1] = more]
        /\ loop' = [loop EXCEPT ![h] = IF Len(output[h]) = 1 THEN "read" ELSE "write"]
    BY <1>3 DEF Write, fixed
  <2> HIDE DEF more
  <2>2. h + 1 # 1 /\ (h = 1 => h + 1 # 3)
    BY <1>1
  <2> QED
    BY <1>1, <2>1, <2>2 DEF Types
<1>4. ASSUME NEW h \in Hop, Eof(h) \/ Fails(h)
      PROVE  Kept /\ Ends /\ pipe'[3] = pipe[3]
  <2>1. pipe' = pipe /\ payload' = payload /\ loop' = [loop EXCEPT ![h] = "done"]
    BY <1>4 DEF Eof, Fails, Done, fixed
  <2>2. ~broken' => ~broken
    <3>1. CASE Eof(h)
      BY <3>1 DEF Eof
    <3>2. CASE Fails(h)
      <4>1. broken' = broken
        BY <3>2 DEF Fails
      <4> QED
        BY <4>1
    <3> QED
      BY <1>4, <3>1, <3>2
  <2> QED
    BY <1>1, <2>1, <2>2
<1>5. ASSUME Connect \/ Lose \/ (\E n \in NodeName : run_tunnel(n)) \/ UNCHANGED vars
      PROVE  Kept /\ Ends /\ pipe'[3] = pipe[3]
  <2>1. CASE Lose
    <3>1. broken' = TRUE /\ loop' = loop /\ payload' = payload
      BY <2>1 DEF Lose, fixed
    <3>2. PICK k : pipe' = [pipe EXCEPT ![2] = SubSeq(@, 1, k)]
      BY <2>1 DEF Lose
    <3> DEFINE a == SubSeq(pipe[2], 1, k)
    <3>3. pipe' = [pipe EXCEPT ![2] = a]
      BY <1>1, <3>2 DEF Types
    <3> HIDE DEF a
    <3> QED
      BY <1>1, <3>1, <3>3 DEF Types
  <2>2. CASE Connect
    BY <1>1, <2>2 DEF Connect, fixed
  <2>3. CASE (\E n \in NodeName : run_tunnel(n)) \/ UNCHANGED vars
    <3>1. pipe' = pipe /\ loop' = loop /\ payload' = payload /\ broken' = broken
      BY <2>3 DEF run_tunnel, fixed, vars
    <3> QED
      BY <3>1
  <2> QED
    BY <1>5, <2>1, <2>2, <2>3
<1>6. Ends => Taken' = Taken /\ Begins(Taken', Taken)
  BY <1>1, TakenKept, BeginsSelf
<1>7. CASE \E h \in Hop : Read(h)
  BY <1>1, <1>2, <1>6, <1>7
<1>8. CASE \E h \in Hop : Write(h)
  BY <1>1, <1>3, <1>6, <1>8
<1>9. CASE \E h \in Hop : Eof(h) \/ Fails(h)
  BY <1>4, <1>6, <1>9
<1>10. CASE Connect \/ Lose \/ (\E n \in NodeName : run_tunnel(n)) \/ UNCHANGED vars
  BY <1>5, <1>6, <1>10
<1> QED
  BY <1>7, <1>8, <1>9, <1>10 DEF Next, LoopNext

\* While nothing is broken, a step that is not one of the ends' own leaves
\* them alone.
LEMMA LinkIdle ==
    ASSUME Sent' = Sent, Arrived' = Arrived, fin'[3] = fin[3],
           loop'[1] = "done" <=> loop[1] = "done",
           broken' = broken, Readable' = Readable
    PROVE  [Link!Next]_(Link!pipeVars)
<1>1. (loop'[1] = "done") = (loop[1] = "done")
  OBVIOUS
<1>2. (broken' \/ ~Readable') = (broken \/ ~Readable)
  OBVIOUS
<1> QED
  BY <1>1, <1>2 DEF Link!pipeVars, Sent, Arrived

\* The second hop writes a buffer to the sink.
LEMMA LinkReceives ==
    ASSUME StreamInv, Readable, Readable' = Readable, Write(2)
    PROVE  Link!Receive
<1> DEFINE b == Head(output[2])
           f == Flat(Tail(output[2]))
           a == pipe[3]
           s == a \o b
<1>1. /\ Types /\ Base /\ Written /\ FlowInv /\ Hop = {1, 2}
      /\ loop \in [Hop -> {"none", "read", "write", "done", "stuck"}]
  BY DEF StreamInv, SafeInv, Hop, Types, TypeOK
<1>2. /\ loop[2] = "write" /\ fin' = fin /\ broken' = broken /\ payload' = payload
      /\ loop' = [loop EXCEPT ![2] = IF Len(output[2]) = 1 THEN "read" ELSE "write"]
      /\ pipe' = [pipe EXCEPT ![3] = s]
  BY DEF Write, fixed
<1>3. b \in Bytes /\ f \in Bytes /\ Flat(output[2]) = b \o f
  BY <1>1, WriteTyped0, FlatTyped
<1>4. a \in Bytes /\ Taken \in Bytes
  BY <1>1, GotTyped DEF Base
<1>5. Got = a \o (b \o f)
  BY <1>3 DEF Got
<1> HIDE DEF a, b, f, s
<1>6. s \in Bytes /\ Begins(s, a)
  <2>1. Joins(s, a, b)
    BY DEF Joins, s
  <2>2. a \o b \in Bytes
    BY <1>3, <1>4, BytesAssoc
  <2> QED
    BY <1>3, <1>4, <2>1, <2>2, JoinsBegins DEF s
<1>7. Begins(Got, s) /\ Got \in Bytes
  <2>1. Joins(Got, a, b \o f)
    BY <1>5 DEF Joins
  <2>2. Joins(Got, a \o b, f)
    BY <1>3, <1>4, <2>1, JoinsLess
  <2>3. Joins(Got, s, f)
    BY <2>2 DEF s
  <2> QED
    BY <1>3, <1>6, <2>3, JoinsBegins
<1>8. Begins(Taken, s)
  <2>1. Begins(Taken, Got)
    BY <1>1, <1>2, FlowBeginsGot DEF FlowInv
  <2> QED
    BY <1>4, <1>6, <1>7, <2>1, BeginsChain
<1>9. pipe'[3] = s /\ pipe'[1] = pipe[1] /\ loop'[1] = loop[1]
  BY <1>1, <1>2 DEF Types
<1>10. Taken' = Taken
  BY <1>2, <1>9, TakenKept
<1>11. Link!Extends(s, a) /\ Link!Extends(Taken, s)
  BY <1>4, <1>6, <1>8 DEF Link!Extends, Begins, Bytes
<1>12. ~fin[3]
  BY <1>1, <1>2 DEF Base
<1>13. /\ (broken' \/ ~Readable') = (broken \/ ~Readable)
       /\ (loop'[1] = "done") = (loop[1] = "done")
       /\ fin'[3] = fin[3]
  BY <1>2, <1>9
<1> QED
  BY <1>9, <1>10, <1>11, <1>12, <1>13 DEF Link!Receive, a

LEMMA LinkStep ==
    ASSUME StreamInv, StreamInv', [Next]_vars
    PROVE  [Link!Next]_(Link!pipeVars)
<1>1. /\ Types /\ Base /\ Base' /\ Hop = {1, 2} /\ broken \in BOOLEAN /\ broken' \in BOOLEAN
      /\ loop \in [Hop -> {"none", "read", "write", "done", "stuck"}]
      /\ fin \in [1..3 -> BOOLEAN]
  BY DEF StreamInv, SafeInv, Hop, Types, TypeOK
<1>2. /\ \A h \in Hop : loop[h] = "done" => loop'[h] = "done"
      /\ Begins(Taken', Taken)
      /\ ~Read(1) => Taken' = Taken
      /\ ~Write(2) => pipe'[3] = pipe[3]
      /\ ~broken' => ~broken
  BY EndsKept
<1>3. Readable' = Readable
  BY SetupKept, ReadableKept
<1>4. (loop[1] = "done" => loop'[1] = "done") /\ (fin[3] => fin'[3])
  <2>1. fin[3] <=> loop[2] = "done"
    BY <1>1 DEF Base
  <2>2. fin'[3] <=> loop'[2] = "done"
    BY <1>1 DEF Base
  <2> QED
    BY <1>1, <1>2, <2>1, <2>2
<1>5. loop[1] = "done" => Taken' = Taken
  BY <1>2 DEF Read
<1>6. CASE ~Readable
  <2>1. Sent' = <<>> /\ Sent = <<>> /\ Arrived' = Arrived
    BY <1>3, <1>6 DEF Sent, Arrived
  <2>2. Begins(<<>>, <<>>)
    BY DEF Begins
  <2>3. Begins(Sent', Sent)
    BY <2>1, <2>2
  <2>4. Link!Break
    BY <1>3, <1>4, <1>6, <2>1, <2>3, LinkBreaks
  <2> QED
    BY <2>4 DEF Link!Next
<1>7. ASSUME Readable
      PROVE  Sent = Taken /\ Sent' = Taken' /\ Arrived = pipe[3] /\ Arrived' = pipe'[3]
  BY <1>3, <1>7 DEF Sent, Arrived
<1>8. CASE Readable /\ ~Write(2) /\ broken'
  <2>1. Link!Break
    BY <1>2, <1>3, <1>4, <1>5, <1>7, <1>8, LinkBreaks
  <2> QED
    BY <2>1 DEF Link!Next
<1>9. CASE Readable /\ Write(2)
  <2>1. Link!Receive
    BY <1>3, <1>9, LinkReceives
  <2> QED
    BY <2>1 DEF Link!Next
<1>10. CASE Readable /\ ~Write(2) /\ ~broken'
  <2>1. ~broken /\ pipe'[3] = pipe[3] /\ Arrived' = Arrived
    BY <1>2, <1>7, <1>10
  <2>2. broken' = broken /\ (broken' \/ ~Readable') = (broken \/ ~Readable)
    BY <1>1, <1>3, <1>10, <2>1
  <2>3. CASE Read(1)
    <3>1. PICK input, rest, r : Reads(1, input, rest, r)
      BY <1>1, <2>3, ReadCases
    <3>2. loop[1] = "read" /\ loop'[1] # "done" /\ fin' = fin
      BY <1>1, <1>10, <3>1 DEF Reads
    <3>3. Taken' \in Bytes
      BY <1>1 DEF Base
    <3>4. Link!Extends(Taken', Taken)
      BY <1>2, <3>3 DEF Link!Extends, Begins, Bytes
    <3>5. (loop'[1] = "done") = (loop[1] = "done")
      BY <3>2
    <3>6. Link!Send
      BY <1>7, <1>10, <2>1, <2>2, <3>2, <3>4, <3>5 DEF Link!Send, Sent, Arrived
    <3> QED
      BY <3>6 DEF Link!Next
  <2>4. CASE Eof(1)
    <3>1. /\ loop'[1] = "done" /\ fin'[3] = fin[3]
          /\ pipe' = pipe /\ payload' = payload
      BY <1>1, <2>4 DEF Eof, Done, fixed
    <3>2. Taken' = Taken
      BY <3>1, TakenKept
    <3>3. (loop'[1] = "done") = TRUE
      BY <3>1
    <3>4. Link!End
      BY <1>7, <1>10, <2>1, <2>2, <3>1, <3>2, <3>3 DEF Link!End, Sent, Arrived
    <3> QED
      BY <3>4 DEF Link!Next
  <2>5. CASE Eof(2)
    <3>1. /\ loop'[2] = "done" /\ loop'[1] = loop[1] /\ fin' = [fin EXCEPT ![3] = TRUE]
          /\ pipe' = pipe /\ payload' = payload
      BY <1>1, <2>5 DEF Eof, Done, fixed
    <3>2. Taken' = Taken /\ fin'[3] = TRUE
      BY <1>1, <3>1, TakenKept
    <3>3. loop[1] = "done" /\ pipe[3] = Taken
      <4>1. FlowInv'
        BY <1>3, <1>10 DEF StreamInv
      <4> QED
        BY <1>10, <2>1, <3>1, <3>2, <4>1 DEF FlowInv
    <3>4. (loop'[1] = "done") = (loop[1] = "done")
      BY <3>1
    <3>5. Link!Fin
      BY <1>3, <1>7, <1>10, <2>1, <2>2, <3>2, <3>3, <3>4 DEF Link!Fin, Sent, Arrived
    <3> QED
      BY <3>5 DEF Link!Next
  <2>6. CASE Read(2)
    <3>1. PICK input, rest, r : Reads(2, input, rest, r)
      BY <1>1, <2>6, ReadCases
    <3>2. /\ loop'[1] = loop[1] /\ fin' = fin /\ pipe'[1] = pipe[1] /\ payload' = payload
      BY <1>1, <1>10, <3>1 DEF Reads, Types
    <3>3. Taken' = Taken
      BY <3>2, TakenKept
    <3> QED
      BY <1>3, <1>7, <1>10, <2>1, <2>2, <3>2, <3>3, LinkIdle
  <2>7. CASE Write(1)
    <3> DEFINE more == pipe[2] \o Head(output[1])
    <3>1. /\ payload' = payload /\ fin' = fin /\ loop[1] = "write"
          /\ pipe' = pipe \/ pipe' = [pipe EXCEPT ![2] = more]
          /\ loop' = [loop EXCEPT ![1] = IF Len(output[1]) = 1 THEN "read" ELSE "write"]
      BY <2>7 DEF Write, fixed
    <3> HIDE DEF more
    <3>2. pipe'[1] = pipe[1] /\ loop'[1] # "done"
      BY <1>1, <3>1 DEF Types
    <3>3. Taken' = Taken
      BY <3>1, <3>2, TakenKept
    <3> QED
      BY <1>3, <1>7, <1>10, <2>1, <2>2, <3>1, <3>2, <3>3, LinkIdle
  <2>8. CASE Connect \/ (\E n \in NodeName : run_tunnel(n)) \/ UNCHANGED vars
    <3>1. fin' = fin /\ pipe' = pipe /\ payload' = payload
      BY <2>8 DEF Connect, run_tunnel, fixed, vars
    <3>2. loop'[1] = "done" <=> loop[1] = "done"
      <4>1. CASE Connect
        BY <1>1, <4>1 DEF Connect
      <4>2. CASE (\E n \in NodeName : run_tunnel(n)) \/ UNCHANGED vars
        BY <4>2 DEF run_tunnel, vars
      <4> QED
        BY <2>8, <4>1, <4>2
    <3>3. Taken' = Taken
      BY <3>1, TakenKept
    <3> QED
      BY <1>3, <1>7, <1>10, <2>1, <2>2, <3>1, <3>2, <3>3, LinkIdle
  <2>9. ~Lose /\ \A h \in Hop : ~Fails(h)
    BY <1>10, <2>1 DEF Lose, Fails
  <2> QED
    BY <1>1, <1>10, <2>3, <2>4, <2>5, <2>6, <2>7, <2>8, <2>9 DEF Next, LoopNext
<1> QED
  BY <1>6, <1>8, <1>9, <1>10

\* Between two nodes whose chains mirror each other, whatever they process, a
\* stream stays a stream: the sink gets a beginning of what was taken, and
\* its end only with all of it, unless something broke.
THEOREM StreamIsPipe ==
    ASSUME DrawsNumbers
    PROVE  Spec => ImplementsPipe
<1>1. Init => Link!Init
  <2> SUFFICES ASSUME Init PROVE Link!Init
    OBVIOUS
  <2>1. loop[1] = "none" /\ pipe[3] = <<>> /\ fin[3] = FALSE /\ broken \in BOOLEAN
    BY DEF Init, Hop
  <2>2. Taken = <<>>
    BY <2>1, InitBase DEF Base
  <2>3. (loop[1] = "done") = FALSE /\ (broken \/ ~Readable) \in BOOLEAN
    BY <2>1
  <2> QED
    BY <2>1, <2>2, <2>3 DEF Link!Init
<1>2. StreamInv /\ StreamInv' /\ [Next]_vars => [Link!Next]_(Link!pipeVars)
  BY LinkStep
<1> QED
  BY AlwaysStream, <1>1, <1>2, PTL DEF Spec, ImplementsPipe, Link!Spec
=============================================================================
