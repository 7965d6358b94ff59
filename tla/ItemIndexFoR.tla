---------------------------- MODULE ItemIndexFoR ----------------------------
(***************************************************************************)
(* ItemIndexPrivateFoR and ItemIndexPrivatePFoR: the differences of the    *)
(* ids in blocks of equal size, every block with its own number of bits.   *)
(* A difference that does not fit into the bits of a PFoR block, and 0, is *)
(* stored as 0 and follows the block as an outlier.  The data is a         *)
(* sequence of bytes of which the first of an array or an integer carries  *)
(* all of it, so that a reader at a wrong place finds nothing.             *)
(***************************************************************************)
EXTENDS ItemIndexSets, Packing, FiniteSetsExt, Folds

CONSTANTS
    BlockSizes,             \* the sizes a block may have, as a sequence
    DefaultBlockSizeOffset, \* counted from 0, as in the index
    BlockDescBitWidth       \* bits of a block's description; an id has 2^BlockDescBitWidth

ASSUME BlockSizesAssumption ==
    /\ BlockSizes \in Seq(Nat \ {0}) /\ BlockSizes[1] = 1
    /\ DefaultBlockSizeOffset \in 0 .. Len(BlockSizes) - 1
    /\ BlockDescBitWidth \in Nat /\ MaxId < 2^(2^BlockDescBitWidth - 1)

IdBits == 2^BlockDescBitWidth
Levels == {"CL_NONE", "CL_LOW", "CL_MID", "CL_HIGH"}
Kinds == {"FoR", "PFoR"}

NoByte == [what |-> "rest"]
Bytes(first0, size) == [i \in 1 .. size |-> IF i = 1 THEN first0 ELSE NoByte]
ByteAt(data, pos) == IF pos \in DOMAIN data THEN data[pos] ELSE NoByte
Lowest(a, b) == IF a < b THEN a ELSE b

Deltas(ids) == [i \in DOMAIN ids |-> IF i = 1 THEN ids[1] ELSE ids[i] - ids[i - 1]]
BlockCount(size, blockSize) == CeilDiv(size, blockSize)
Block(s, num, blockSize) == SubSeq(s, num * blockSize + 1, Lowest((num + 1) * blockSize, Len(s)))
SumOver(s, f(_)) == FoldLeft(LAMBDA sum, x : sum + f(x), 0, s)
\* Bits of the bitwise or of all values of a block.
OrBits(vs) == Max({MinStorageBits(vs[i]) : i \in DOMAIN vs})

-----------------------------------------------------------------------------
(* The bits of a PFoR block                                                *)

EntryBits(v) == IF v = 0 THEN 0 ELSE MinStorageBits(v)
EntrySize(v) == IF v = 0 THEN 1 ELSE VlSize(v)
IsOutlierBits(v, bits) == EntryBits(v) > bits                \* mutant: 0 is no outlier
IsOutlier(v, bits) == EntryBits(v) > bits \/ v = 0
BlockStorage(vs, bits) ==
    MinStorageBytes(bits, Len(vs)) + SumOver(SelectSeq(vs, LAMBDA v : IsOutlier(v, bits)), EntrySize)
OptBits(vs) ==
    CHOOSE bits \in 1 .. IdBits - 1 :
        \A other \in 1 .. IdBits - 1 :
            BlockStorage(vs, bits) < BlockStorage(vs, other) + (IF bits <= other THEN 1 ELSE 0)

FixedBlock(vs, bits) ==
    Bytes([what |-> "array", bits |-> bits, values |-> [i \in DOMAIN vs |-> Masked(vs[i], bits)]],
          MinStorageBytes(bits, Len(vs)))
PatchedBlock(vs, bits) ==
    LET outliers == SelectSeq(vs, LAMBDA v : IsOutlier(v, bits))
        fixed == [i \in DOMAIN vs |-> IF IsOutlier(vs[i], bits) THEN 0 ELSE vs[i]]
    IN FixedBlock(fixed, bits)
         \o FlattenSeq([i \in DOMAIN outliers |-> Bytes([what |-> "vl", value |-> outliers[i]], VlSize(outliers[i]))])

-----------------------------------------------------------------------------
(* create                                                                  *)

BlockBits(kind, level, vs) ==
    CASE level = "CL_NONE" -> IdBits
      [] kind = "FoR" \/ level = "CL_LOW" -> OrBits(vs)
      [] OTHER -> OptBits(vs)
BlockData(kind, level, vs) ==
    IF kind = "PFoR" /\ level \in {"CL_MID", "CL_HIGH"} THEN PatchedBlock(vs, BlockBits(kind, level, vs))
    ELSE FixedBlock(vs, BlockBits(kind, level, vs))
BlocksOf(dv, blockSize) == [b \in 1 .. BlockCount(Len(dv), blockSize) |-> Block(dv, b - 1, blockSize)]

\* What the search for a block size compares, and the data size it stores.
DataStorage(kind, dv, blockSize) ==
    SumOver(BlocksOf(dv, blockSize), LAMBDA vs : IF kind = "FoR" THEN MinStorageBytes(OrBits(vs), Len(vs))
                                                 ELSE BlockStorage(vs, OptBits(vs)))
MetaStorage(dv, blockSize) == MinStorageBytes(BlockDescBitWidth, 1 + BlockCount(Len(dv), blockSize))
ConfigStorage(kind, dv, blockSize) ==
    DataStorage(kind, dv, blockSize) + (IF kind = "PFoR" THEN MetaStorage(dv, blockSize) ELSE 0)
OptBlockSizeOffset(kind, dv) ==
    LET tested == {o \in 1 .. Len(BlockSizes) : kind = "FoR" \/ BlockSizes[o] < 2 * Len(dv)}
        cost(o) == ConfigStorage(kind, dv, BlockSizes[o])
        best == Min({cost(o) : o \in tested})
    IN Min({o \in tested : cost(o) = best}) - 1

\* The index as it is stored; a description keeps BlockDescBitWidth bits.
Layout(size, dataSize, data, descs) ==
    [size |-> size, dataSize |-> dataSize,
     data |-> Append(data, [what |-> "descs", descs |-> [i \in DOMAIN descs |-> Masked(descs[i], BlockDescBitWidth)]])]
CreateBlocks(kind, level, ids) ==
    LET dv == Deltas(ids)
        search == level = "CL_HIGH" \/ (kind = "FoR" /\ level = "CL_MID")
        offset == IF ids = <<>> THEN 0
                  ELSE IF search THEN OptBlockSizeOffset(kind, dv) ELSE DefaultBlockSizeOffset
        blockSize == BlockSizes[offset + 1]
        blocks == BlocksOf(dv, blockSize)
        data == FlattenSeq([b \in DOMAIN blocks |-> BlockData(kind, level, blocks[b])])
    IN Layout(Len(ids), IF search THEN DataStorage(kind, dv, blockSize) ELSE Len(data), data,
              <<offset>> \o [b \in DOMAIN blocks |-> BlockBits(kind, level, blocks[b])])

\* FoRCreator and PFoRCreator, which the set operations fill
NewCreator(kind) == [kind |-> kind, size |-> 0, values |-> <<>>, prev |-> 0, data |-> <<>>, descs |-> <<DefaultBlockSizeOffset>>]
FlushBlock(c) ==
    IF c.values = <<>> THEN c
    ELSE [c EXCEPT !.size = @ + Len(c.values), !.values = <<>>,
                   !.data = @ \o BlockData(c.kind, "CL_MID", c.values),
                   !.descs = Append(@, BlockBits(c.kind, "CL_MID", c.values))]
PushBackBlock(c, id) ==
    LET d == [c EXCEPT !.values = Append(@, id - c.prev), !.prev = id]
    IN IF Len(d.values) = BlockSizes[DefaultBlockSizeOffset + 1] THEN FlushBlock(d) ELSE d
FlushCreator(c) == LET d == FlushBlock(c) IN Layout(d.size, Len(d.data), d.data, d.descs)
CreatedBlocks(kind, ids) == FlushCreator(FoldLeft(PushBackBlock, NewCreator(kind), ids))

-----------------------------------------------------------------------------
(* Reading                                                                 *)

Broken == <<-1>>        \* what comes of data that is not there
Descs(idx) == LET d == ByteAt(idx.data, idx.dataSize + 1) IN IF d.what = "descs" THEN d.descs ELSE <<0>>
\* decodeBlock: the ids of a block at pos, and the position behind it
RECURSIVE DecodeValues(_, _, _, _, _)
DecodeValues(kind, data, values, prev, pos) ==
    IF values = <<>> THEN [ids |-> <<>>, pos |-> pos]
    ELSE LET patched == kind = "PFoR" /\ Head(values) = 0
             byte == ByteAt(data, pos)
             v == IF ~patched THEN Head(values) ELSE IF byte.what = "vl" THEN byte.value ELSE -1
             rest == DecodeValues(kind, data, Tail(values), prev + v, IF patched THEN pos + VlSize(v) ELSE pos)
         IN IF v < 0 THEN [ids |-> Broken, pos |-> pos]
            ELSE [rest EXCEPT !.ids = <<prev + v>> \o @]
DecodeBlock(kind, idx, pos, prev, size, bits) ==
    LET byte == ByteAt(idx.data, pos)
    IN IF pos > idx.dataSize \/ byte.what # "array" THEN [ids |-> Broken, pos |-> pos]
       ELSE IF byte.bits # bits \/ Len(byte.values) # size THEN [ids |-> Broken, pos |-> pos]
       ELSE DecodeValues(kind, SubSeq(idx.data, 1, idx.dataSize), byte.values, prev, pos + MinStorageBytes(bits, size))
FetchBlock(it, prev) ==
    LET descs == Descs(it.idx)
        blockSize == BlockSizes[descs[1] + 1]
        num == it.indexPos \div blockSize
        size == Lowest(blockSize, it.idx.size - num * blockSize)
        d == IF num + 2 \in DOMAIN descs
             THEN DecodeBlock(it.kind, it.idx, it.pos, prev, size, descs[num + 2])
             ELSE [ids |-> Broken, pos |-> it.pos]
    IN IF it.indexPos >= it.idx.size THEN it ELSE [it EXCEPT !.block = d.ids, !.pos = d.pos]
BlockIter(kind, idx) ==
    FetchBlock([kind |-> kind, idx |-> idx, indexPos |-> 0, blockPos |-> 1, block |-> <<>>, pos |-> 1], 0)
NextInBlocks(it) ==
    LET n == [it EXCEPT !.indexPos = @ + 1, !.blockPos = @ + 1]
    IN IF it.indexPos >= it.idx.size THEN it
       ELSE IF n.blockPos > Len(n.block) THEN [FetchBlock(n, Last(n.block)) EXCEPT !.blockPos = 1]
       ELSE n
\* at() and putInto() read through one iterator and cache what it gave.
RECURSIVE WalkBlocks(_)
WalkBlocks(it) ==
    IF it.indexPos >= it.idx.size THEN <<>> ELSE <<it.block[it.blockPos]>> \o WalkBlocks(NextInBlocks(it))
ReadBlocks(kind, idx) == WalkBlocks(BlockIter(kind, idx))

-----------------------------------------------------------------------------

\* Whatever block size and bits the optimizers choose, the index gives back the ids it was
\* created from: the blocks begin where the reader looks for them and the stored
\* data size is the one that was written.
BlocksRoundTrip ==
    \A kind \in Kinds :
        /\ \A level \in {"CL_MID", "CL_HIGH"} : ReadBlocks(kind, CreateBlocks(kind, level, first)) = first
        /\ ReadBlocks(kind, CreatedBlocks(kind, first)) = first
        /\ kind = "FoR" => ReadBlocks(kind, CreateBlocks(kind, "CL_LOW", first)) = first

\* ItemIndexPrivatePFoR.h:103, "OO_FOR, //use for encoding": PFoR at CL_LOW, which
\* CellQueryResult::flaten asks for, is a FoR encoding of the ids.
LowRoundTrip == ReadBlocks("PFoR", CreateBlocks("PFoR", "CL_LOW", first)) = first
=============================================================================
