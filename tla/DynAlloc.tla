------------------------------ MODULE DynAlloc ------------------------------
(***************************************************************************)
(* ggml_dyn_tallocr: the free part of a buffer as blocks sorted by offset, *)
(* the last of which runs to the end of the address space.  Sizes are      *)
(* those of aligned tensors.                                               *)
(***************************************************************************)
EXTENDS Integers, SequencesExt

CONSTANT Huge  \* SIZE_MAX/2

ASSUME HugeAssumption == Huge \in Nat \ {0}

Block(offset, size) == [offset |-> offset, size |-> size]
EndOf(b) == b.offset + b.size

\* ggml_dyn_tallocr_reset
Fresh == <<Block(0, Huge)>>

-----------------------------------------------------------------------------
(* ggml_dyn_tallocr_alloc                                                  *)

First(S) == CHOOSE k \in S : \A j \in S : k <= j

\* Of the blocks before the last, the latest of the smallest that fit; the
\* last block when none does.
BestFit(blocks, size) ==
    LET fits == {i \in 1..Len(blocks) - 1 : blocks[i].size >= size}
        best == {i \in fits : \A j \in fits : \/ blocks[i].size < blocks[j].size
                                              \/ blocks[i].size = blocks[j].size /\ j <= i}
    IN  IF fits = {} THEN Len(blocks) ELSE CHOOSE i \in best : TRUE

\* The program aborts without it.
HasRoom(blocks, size) ==
    LET i == BestFit(blocks, size)
    IN  i \in 1..Len(blocks) /\ blocks[i].size >= size

Taken(blocks, i, size) ==
    IF blocks[i].size = size
    THEN RemoveAt(blocks, i)
    ELSE ReplaceAt(blocks, i, Block(blocks[i].offset + size, blocks[i].size - size))

-----------------------------------------------------------------------------
(* ggml_dyn_tallocr_free_tensor                                            *)

\* Block i grown to size; the block it now touches is merged into it.
MergedWithNextNever(blocks, i) == blocks  \* mutant: blocks stay apart
MergedWithNext(blocks, i) ==
    IF i < Len(blocks) /\ EndOf(blocks[i]) = blocks[i + 1].offset
    THEN RemoveAt(ReplaceAt(blocks, i, Block(blocks[i].offset,
                                             blocks[i].size + blocks[i + 1].size)),
                  i + 1)
    ELSE blocks

Touches(b, offset, size) == EndOf(b) = offset \/ offset + size = b.offset

\* The block takes the memory at its end or at its start.
Extended(blocks, i, offset, size) ==
    LET b == blocks[i]
        above == ReplaceAt(blocks, i, Block(b.offset, b.size + size))
        below == ReplaceAt(blocks, i, Block(offset, b.size + size))
    IN  IF EndOf(b) = offset THEN MergedWithNext(above, i)
        ELSE IF i > 1 THEN MergedWithNext(below, i - 1) ELSE below

\* Memory that touches no block becomes one, in the order of addresses.
Inserted(blocks, offset, size) ==
    LET places == {k \in 1..Len(blocks) + 1 : k <= Len(blocks) => blocks[k].offset >= offset}
    IN  InsertAt(blocks, First(places), Block(offset, size))

\* The first block the memory touches takes it.
Returned(blocks, offset, size) ==
    LET touched == {i \in 1..Len(blocks) : Touches(blocks[i], offset, size)}
    IN  IF touched = {} THEN Inserted(blocks, offset, size)
        ELSE Extended(blocks, First(touched), offset, size)

-----------------------------------------------------------------------------
(* What the allocator keeps                                                *)

\* Blocks in order, none empty, with memory in use between any two of them.
Coalesced(blocks) ==
    /\ \A i \in 1..Len(blocks) : blocks[i].offset >= 0 /\ blocks[i].size > 0
    /\ \A i, j \in 1..Len(blocks) : i < j => EndOf(blocks[i]) < blocks[j].offset

\* Offset x is in a free block.
IsFree(blocks, x) ==
    \E i \in 1..Len(blocks) : blocks[i].offset <= x /\ x < EndOf(blocks[i])
=============================================================================
