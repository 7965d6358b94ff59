SPECIFICATION Spec
CONSTANTS
    MaxId = 5
    WordBits = 2
    Limits = {0, 1, 2, 9}
    ByteBits = 3
    BlockSizes <- MCBlockSizes
    DefaultBlockSizeOffset = 1
    BlockDescBitWidth = 2
    Lines <- MCLines



CHECK_DEADLOCK FALSE
INVARIANT LowRoundTrip
