\* Fifteen pairs of command lines, three bytes, every way to cut the stream.
CONSTANTS
    ByteSize = 4
    MinIv = 2
    TagSize = 2
    NonceSize = 2
    U32Size = 2
    Xor <- XorByte
    Hmac <- HmacOf
    Sha512 <- Sha512Of
    Draw <- DrawOf
    Setups <- MCSetups
    Payloads <- MCPayloads
    Randoms <- MCRandoms
    MaxRead = 16
SPECIFICATION FairSpec
INVARIANTS
    TypeOK
    NothingHeldBack
    BuffersBounded
    WrongKeyDeliversNothing
    HangsOnlyOnZeroChunk
PROPERTIES
    ImplementsPipe
    DeliveredInTheEnd
CHECK_DEADLOCK FALSE
