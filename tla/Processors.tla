------------------------------ MODULE Processors ------------------------------
(***************************************************************************)
(* The stream processors of the tunnel and the chain they form, as         *)
(* functions from a processor's state and an input buffer to its next      *)
(* state, its output buffers and how the call ended.  Buffers are          *)
(* sequences of bytes.  The sizes the code fixes are parameters, so that   *)
(* small instances have every case; HMAC, SHA-512, the generators of       *)
(* random numbers and exclusive or are parameters, too.                    *)
(***************************************************************************)
EXTENDS Integers, SequencesExt

CONSTANTS
    ByteSize,       \* number of byte values (256)
    MinIv,          \* shortest IV of cfb (8)
    TagSize,        \* TAG_SIZE (32)
    NonceSize,      \* NONCE_SIZE (512)
    U32Size,        \* bytes of a uint32_t (4)
    Xor(_, _),      \* exclusive or of two bytes
    Hmac(_, _),     \* HMAC-SHA256 of a key and a nonce, TagSize bytes
    Sha512(_),      \* digest of a sequence of bytes
    Draw(_, _)      \* the n-th number of the generator with a seed

Byte == 0..(ByteSize - 1)
HandshakeSize == TagSize + NonceSize
HeaderLen == 2 * U32Size

ASSUME SizeAssumption ==
    /\ ByteSize \in Nat \ {0}
    /\ MinIv \in Nat \ {0}
    /\ {TagSize, NonceSize, U32Size} \subseteq Nat \ {0}
ASSUME XorAssumption ==
    \A a, b \in Byte : Xor(a, b) \in Byte /\ Xor(Xor(a, b), b) = a

\* How a call ends: with buffers, with an exception, or never.
Returns(p, out) == [p |-> p, out |-> out, status |-> "ok"]
Throws(p) == [p |-> p, out |-> <<>>, status |-> "throw"]
Hangs(p) == [p |-> p, out |-> <<>>, status |-> "hang"]

-----------------------------------------------------------------------------
(* The cipher that CfbProcessor and CfbNonceProcessor share.  A key is an  *)
(* IV and the number of bytes processed with it; data collects the buffer. *)

Key(iv) == [iv |-> iv, offset |-> 0, data |-> <<>>]
Idle(key) == [key EXCEPT !.data = <<>>]

mix(cipher, iv, pos) ==
    LET added == [iv EXCEPT ![pos + 1] = (@ + cipher) % ByteSize]
    IN  [added EXCEPT ![((pos + 1) % Len(iv)) + 1] = Xor(@, cipher)]

EncryptByte(key, b) ==
    LET pos == key.offset % Len(key.iv)
        cipher == Xor(b, key.iv[pos + 1])
    IN  [iv |-> mix(cipher, key.iv, pos), offset |-> key.offset + 1,
         data |-> Append(key.data, cipher)]

\* Mutant: the offset is the position in this buffer.
DecryptByte_local(key, cipher) ==
    LET pos == Len(key.data) % Len(key.iv)
    IN  [iv |-> mix(cipher, key.iv, pos), offset |-> key.offset + 1,
         data |-> Append(key.data, Xor(cipher, key.iv[pos + 1]))]

DecryptByte(key, cipher) ==
    LET pos == key.offset % Len(key.iv)
    IN  [iv |-> mix(cipher, key.iv, pos), offset |-> key.offset + 1,
         data |-> Append(key.data, Xor(cipher, key.iv[pos + 1]))]

\* The loops over a buffer.
Encrypted(key, input) ==
    LET after[i \in 0..Len(input)] ==
            IF i = 0 THEN key ELSE EncryptByte(after[i - 1], input[i])
    IN  after[Len(input)]

Decrypted(key, input) ==
    LET after[i \in 0..Len(input)] ==
            IF i = 0 THEN key ELSE DecryptByte(after[i - 1], input[i])
    IN  after[Len(input)]

encrypt(p, input) ==
    LET key == Encrypted(p.pack, input)
    IN  Returns([p EXCEPT !.pack = Idle(key)], <<key.data>>)

decrypt(p, input) ==
    LET key == Decrypted(p.unpack, input)
    IN  Returns([p EXCEPT !.unpack = Idle(key)], <<key.data>>)

-----------------------------------------------------------------------------
(* Processor state: kind and reverse_, what the constructor was given      *)
(* (arg), the states of pack and of unpack, and the bytes unpack keeps     *)
(* until it has enough of them (buffer).                                   *)

Processor(kind, reverse, arg, key) ==
    [kind |-> kind, reverse |-> reverse, arg |-> arg,
     pack |-> key, unpack |-> key, buffer |-> <<>>]

IdentityProcessor == Processor("identity", FALSE, <<>>, <<>>)

CfbProcessor(key, reverse) ==
    LET padding == [i \in 1..(MinIv - Len(key)) |-> (Len(key) + i - 1) % ByteSize]
    IN  Processor("cfb", reverse, <<>>, Key(key \o padding))

\* An empty IV stands for pack_ready_ and unpack_ready_ not yet set.  nonce
\* is what RAND_bytes is going to give, empty when it fails.
CfbNonceProcessor(iv, hmac_key, nonce, reverse) ==
    Processor("cfb_nonce", reverse,
              [iv |-> iv, hmac_key |-> hmac_key, nonce |-> nonce], Key(<<>>))

\* pack counts the frames made so far, for the state of pack_rng_; reverse
\* changes its seed.
PaddingProcessor(chunk, max, seed, reverse) ==
    Processor("padding", reverse,
              [chunk |-> chunk, max |-> max, seed |-> <<seed, reverse>>], 0)

derive_iv(p, nonce) == Sha512(nonce \o p.arg.iv)

\* The first pack sends tag and nonce in a buffer of their own.
init_pack(p) ==
    IF p.arg.nonce = <<>> THEN Throws(p)
    ELSE Returns([p EXCEPT !.pack = Key(derive_iv(p, p.arg.nonce))],
                 <<Hmac(p.arg.hmac_key, p.arg.nonce) \o p.arg.nonce>>)

CfbNoncePack(p, input) ==
    LET ready == IF p.pack.iv = <<>> THEN init_pack(p) ELSE Returns(p, <<>>)
        r == encrypt(ready.p, input)
    IN  IF ready.status # "ok" THEN ready ELSE [r EXCEPT !.out = ready.out \o @]

\* Mutant: the tag is not compared.
init_unpack_untested(p, packet) ==
    LET nonce == SubSeq(packet, TagSize + 1, HandshakeSize)
    IN  Returns([p EXCEPT !.unpack = Key(derive_iv(p, nonce))], <<>>)

init_unpack(p, packet) ==
    LET nonce == SubSeq(packet, TagSize + 1, HandshakeSize)
    IN  IF SubSeq(packet, 1, TagSize) # Hmac(p.arg.hmac_key, nonce) THEN Throws(p)
        ELSE Returns([p EXCEPT !.unpack = Key(derive_iv(p, nonce))], <<>>)

\* Mutant: the handshake is not removed from the buffer.
CfbNonceUnpack_keepsBuffer(p, input) ==
    LET acc == p.buffer \o input
        ready == init_unpack(p, SubSeq(acc, 1, HandshakeSize))
    IN  IF p.unpack.iv # <<>> THEN decrypt(p, input)
        ELSE IF Len(acc) < HandshakeSize THEN Returns([p EXCEPT !.buffer = acc], <<>>)
        ELSE IF ready.status # "ok" THEN ready
        ELSE decrypt([ready.p EXCEPT !.buffer = acc],
                     SubSeq(acc, HandshakeSize + 1, Len(acc)))

\* Mutant: what came behind the handshake in the same read is dropped.
CfbNonceUnpack_dropsRemain(p, input) ==
    LET acc == p.buffer \o input
        ready == init_unpack(p, SubSeq(acc, 1, HandshakeSize))
    IN  IF p.unpack.iv # <<>> THEN decrypt(p, input)
        ELSE IF Len(acc) < HandshakeSize THEN Returns([p EXCEPT !.buffer = acc], <<>>)
        ELSE IF ready.status # "ok" THEN ready
        ELSE Returns([ready.p EXCEPT !.buffer = <<>>], <<>>)

CfbNonceUnpack(p, input) ==
    LET acc == p.buffer \o input
        ready == init_unpack(p, SubSeq(acc, 1, HandshakeSize))
    IN  IF p.unpack.iv # <<>> THEN decrypt(p, input)
        ELSE IF Len(acc) < HandshakeSize THEN Returns([p EXCEPT !.buffer = acc], <<>>)
        ELSE IF ready.status # "ok" THEN ready
        ELSE decrypt([ready.p EXCEPT !.buffer = <<>>],
                     SubSeq(acc, HandshakeSize + 1, Len(acc)))

write_u32(v) ==
    LET shifted[k \in 0..U32Size] ==
            IF k = 0 THEN v ELSE shifted[k - 1] \div ByteSize
    IN  [i \in 1..U32Size |-> shifted[U32Size - i] % ByteSize]

read_u32(s) ==
    LET value[i \in 0..Len(s)] ==
            IF i = 0 THEN 0 ELSE value[i - 1] * ByteSize + s[i]
    IN  value[Len(s)]

U32Max == read_u32([i \in 1..U32Size |-> ByteSize - 1])

\* Mutant: a random number is not cut to a byte.
PadFrame_wide(p, n, payload) ==
    LET pad_len == Draw(p.arg.seed, n) % (p.arg.max + 1)
    IN  write_u32(Len(payload)) \o write_u32(pad_len) \o payload
          \o [i \in 1..pad_len |-> Draw(p.arg.seed, n + i)]

\* Frame n of a padding processor: lengths, payload, random bytes.
PadFrame(p, n, payload) ==
    LET pad_len == Draw(p.arg.seed, n) % (p.arg.max + 1)
    IN  write_u32(Len(payload)) \o write_u32(pad_len) \o payload
          \o [i \in 1..pad_len |-> Draw(p.arg.seed, n + i) % ByteSize]

\* Mutant: pos is not advanced.
CutFrame_stays(at, input) ==
    LET payload_len == Min({at.p.arg.chunk, Len(input) - at.pos})
        payload == SubSeq(input, at.pos + 1, at.pos + payload_len)
    IN  IF at.pos >= Len(input) THEN at
        ELSE [pos |-> at.pos,
              p |-> [at.p EXCEPT !.pack = @ + 1],
              out |-> Append(at.out, PadFrame(at.p, at.p.pack + 1, payload))]

\* One round of the loop: the next chunk of the input becomes a frame.
CutFrame(at, input) ==
    LET payload_len == Min({at.p.arg.chunk, Len(input) - at.pos})
        payload == SubSeq(input, at.pos + 1, at.pos + payload_len)
    IN  IF at.pos >= Len(input) THEN at
        ELSE [pos |-> at.pos + payload_len,
              p |-> [at.p EXCEPT !.pack = @ + 1],
              out |-> Append(at.out, PadFrame(at.p, at.p.pack + 1, payload))]

\* A round that leaves pos where it is, is repeated for ever.  As many rounds as
\* there are bytes tell whether there was one: without, they use up the input.
apply_pack(p, input) ==
    LET after[i \in 0..Len(input)] ==
            IF i = 0 THEN [pos |-> 0, p |-> p, out |-> <<>>]
            ELSE CutFrame(after[i - 1], input)
        end == after[Len(input)]
    IN  IF end.pos < Len(input) THEN Hangs(p) ELSE Returns(end.p, end.out)

\* Mutant: one frame for each call.
apply_unpack_one(p, input) ==
    LET acc == p.buffer \o input
        payload_len == read_u32(SubSeq(acc, 1, U32Size))
        pad_len == read_u32(SubSeq(acc, U32Size + 1, HeaderLen))
        frame_len == HeaderLen + payload_len + pad_len
    IN  IF Len(acc) < HeaderLen \/ Len(acc) < frame_len
        THEN Returns([p EXCEPT !.buffer = acc], <<>>)
        ELSE Returns([p EXCEPT !.buffer = SubSeq(acc, frame_len + 1, Len(acc))],
                     <<SubSeq(acc, HeaderLen + 1, HeaderLen + payload_len)>>)

\* One round of the loop: a complete frame is taken off the front of the
\* accumulator.  After an exception the session, and with it the accumulator,
\* is not used again.
TakeFrame(r) ==
    LET acc == r.p.buffer
        payload_len == read_u32(SubSeq(acc, 1, U32Size))
        pad_len == read_u32(SubSeq(acc, U32Size + 1, HeaderLen))
        frame_len == HeaderLen + payload_len + pad_len
    IN  IF r.status # "ok" \/ Len(acc) < HeaderLen THEN r
        ELSE IF payload_len > r.p.arg.chunk \/ pad_len > r.p.arg.max THEN Throws(r.p)
        ELSE IF Len(acc) < frame_len THEN r
        ELSE Returns([r.p EXCEPT !.buffer = SubSeq(acc, frame_len + 1, Len(acc))],
                     Append(r.out, SubSeq(acc, HeaderLen + 1, HeaderLen + payload_len)))

\* The loop ends with a round that takes nothing, and a frame has bytes: as
\* many rounds as there are bytes are enough.
apply_unpack(p, input) ==
    LET acc == p.buffer \o input
        after[i \in 0..Len(acc)] ==
            IF i = 0 THEN Returns([p EXCEPT !.buffer = acc], <<>>)
            ELSE TakeFrame(after[i - 1])
    IN  after[Len(acc)]

pack(p, input) ==
    CASE p.kind = "identity" -> Returns(p, <<input>>)
      [] p.kind = "cfb" -> encrypt(p, input)
      [] p.kind = "cfb_nonce" -> CfbNoncePack(p, input)
      [] p.kind = "padding" -> apply_pack(p, input)

unpack(p, input) ==
    CASE p.kind = "identity" -> Returns(p, <<input>>)
      [] p.kind = "cfb" -> decrypt(p, input)
      [] p.kind = "cfb_nonce" -> CfbNonceUnpack(p, input)
      [] p.kind = "padding" -> apply_unpack(p, input)

on_local_data(p, input) == IF p.reverse THEN unpack(p, input) ELSE pack(p, input)
on_remote_data(p, input) == IF p.reverse THEN pack(p, input) ELSE unpack(p, input)

-----------------------------------------------------------------------------
(* ProcessorChain: a sequence of processors.  on_local_data visits them    *)
(* first to last, on_remote_data last to first, each with all buffers of   *)
(* the one before.                                                         *)

\* One processor takes the buffers of the one before, in their order.
FeedOne(side, acc, buf) ==
    LET r == IF side = "local" THEN on_local_data(acc.p, buf)
                               ELSE on_remote_data(acc.p, buf)
    IN  IF acc.status # "ok" THEN acc ELSE [r EXCEPT !.out = acc.out \o @]

Feed(side, p, buffers) ==
    LET after[i \in 0..Len(buffers)] ==
            IF i = 0 THEN Returns(p, <<>>)
            ELSE FeedOne(side, after[i - 1], buffers[i])
    IN  after[Len(buffers)]

VisitOne(side, acc, k) ==
    LET r == Feed(side, acc.p[k], acc.out)
    IN  IF acc.status # "ok" THEN acc
        ELSE [r EXCEPT !.p = [acc.p EXCEPT ![k] = r.p]]

Visit(side, chain, buffers) ==
    LET after[i \in 0..Len(chain)] ==
            IF i = 0 THEN Returns(chain, buffers)
            ELSE VisitOne(side, after[i - 1],
                          IF side = "local" THEN i ELSE Len(chain) + 1 - i)
    IN  after[Len(chain)]

chain_on_local_data(chain, input) == Visit("local", chain, <<input>>)
chain_on_remote_data(chain, input) == Visit("remote", chain, <<input>>)

\* A flush starts with no buffer, and no processor adds one of its own.
chain_flush_local(chain) == Visit("local", chain, <<>>)
chain_flush_remote(chain) == Visit("remote", chain, <<>>)

-----------------------------------------------------------------------------
(* Configuration: a --processor option is a name and the arguments that    *)
(* parse_kv found, rnd what the random devices are going to give.          *)

resolve_processor_reverse(kv, global_reverse) ==
    IF "reverse" \in DOMAIN kv /\ ~global_reverse THEN kv.reverse ELSE global_reverse

ValidSpec(spec) ==
    LET given == DOMAIN spec.kv
    IN  \/ spec.name = "identity"
        \/ spec.name = "cfb" /\ "key" \in given
        \/ /\ spec.name = "cfb_nonce"
           /\ {"iv", "hmac_key"} \subseteq given
           /\ spec.kv.iv # <<>> /\ spec.kv.hmac_key # <<>>
        \/ /\ spec.name = "padding"
           /\ {"chunk", "max"} \subseteq given
           /\ spec.kv.chunk <= U32Max /\ spec.kv.max <= U32Max

MakeProcessor(spec, reverse, rnd) ==
    LET kv == spec.kv
        r == resolve_processor_reverse(kv, reverse)
        seed == IF "seed" \in DOMAIN kv THEN kv.seed ELSE rnd.seed
    IN  CASE spec.name = "identity" -> IdentityProcessor
          [] spec.name = "cfb" -> CfbProcessor(kv.key, r)
          [] spec.name = "cfb_nonce" -> CfbNonceProcessor(kv.iv, kv.hmac_key, rnd.nonce, r)
          [] spec.name = "padding" -> PaddingProcessor(kv.chunk, kv.max, seed, r)

\* Only called with specs that are all valid: see run_tunnel.
build_processor_chain(specs, reverse, rnd) ==
    LET ordered == IF reverse THEN Reverse(specs) ELSE specs
    IN  IF specs = <<>> THEN <<IdentityProcessor>>
        ELSE [k \in DOMAIN ordered |-> MakeProcessor(ordered[k], reverse, rnd)]
==============================================================================
