------------------------------- MODULE MCStream -------------------------------
(***************************************************************************)
(* Model-checking instance of Stream: bytes of two bits, IVs of two or     *)
(* three bytes, a handshake of two and two, lengths of two digits.         *)
(***************************************************************************)
EXTENDS Stream

\* Exclusive or of two-bit numbers.
XorByte(a, b) == 2 * (((a \div 2) + (b \div 2)) % 2) + ((a + b) % 2)

Sum(s) == FoldLeft(LAMBDA x, y : x + y, 0, s)
Weigh(s) == FoldLeft(LAMBDA x, y : 3 * x + y + 1, 0, s)

\* Stand-ins for the external functions.
HmacOf(key, nonce) == <<(Sum(key) + Sum(nonce)) % 4, (Sum(key) + Weigh(nonce)) % 4>>
Sha512Of(s) == <<Weigh(s) % 4, Sum(s) % 4, (Weigh(s) \div 4) % 4>>
DrawOf(seed, n) == seed[1] + n + (IF seed[2] THEN 1 ELSE 0)

Cfb == [name |-> "cfb", kv |-> [key |-> <<1>>]]
LongKey == [name |-> "cfb", kv |-> [key |-> <<3, 2, 3>>]]
Nonce(k) == [name |-> "cfb_nonce", kv |-> [iv |-> <<2>>, hmac_key |-> <<k>>]]
Pad(c, m) == [name |-> "padding", kv |-> [chunk |-> c, max |-> m]]
SeededPad(c, m, s) == [name |-> "padding", kv |-> [chunk |-> c, max |-> m, seed |-> s]]
Identity == [name |-> "identity", kv |-> <<>>]
OldCfb == [name |-> "cfb", kv |-> [key |-> <<1>>, reverse |-> TRUE]]
OldPad == [name |-> "padding", kv |-> [chunk |-> 2, max |-> 1, reverse |-> TRUE]]

Pair(near, far, reverse) ==
    [specs |-> [near |-> near, far |-> far],
     reverse |-> [near |-> FALSE, far |-> reverse]]
Twin(specs) == Pair(specs, specs, TRUE)

MCSetups ==
    {Twin(<<>>), Twin(<<Identity, Cfb>>), Twin(<<LongKey>>),
     Twin(<<Pad(5, 0)>>), Twin(<<Nonce(1)>>),
     Twin(<<Pad(2, 1), Cfb>>), Twin(<<Cfb, Pad(2, 2)>>),
     Twin(<<Pad(3, 1), Nonce(1)>>), Twin(<<Nonce(1), Pad(3, 1)>>),
     Pair(<<SeededPad(2, 1, 0)>>, <<SeededPad(2, 1, 1)>>, TRUE),
     Pair(<<Pad(3, 2)>>, <<Pad(2, 1)>>, TRUE),
     Pair(<<Cfb, Pad(2, 1)>>, <<OldPad, OldCfb>>, FALSE),
     Pair(<<Nonce(1)>>, <<Nonce(2)>>, TRUE),
     Twin(<<Pad(0, 1)>>), Twin(<<Pad(16, 1)>>)}

MCPayloads == {<<3, 0, 2>>}
MCRandoms == {[nonce |-> <<1, 3>>, seed |-> 0], [nonce |-> <<>>, seed |-> 1]}
==============================================================================
