\* Every document of up to four of the eight blocks.
SPECIFICATION PackSpec
CONSTANTS
    Blocks <- MCBlocks
    MaxBlocks = 4
INVARIANTS NothingLostOrMoved OverlapIsWholeSentences SizesAreBounded
CHECK_DEADLOCK FALSE
