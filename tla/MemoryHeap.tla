------------------------------ MODULE MemoryHeap ------------------------------
(***************************************************************************)
(* The heap of one block of memory (single_block_memory_heap) that all the *)
(* containers of the kernel live in.  Memory is a row of blocks, each a    *)
(* header and what it holds; the headers lie in the memory and only the    *)
(* sizes in them tell where the next one is.  New blocks are taken from    *)
(* the end until the memory is used up, then from those returned, split    *)
(* where they are too large.  Blocks are never joined.                     *)
(*                                                                         *)
(* The program writes only to blocks it holds and returns each one once,   *)
(* or twice: that is noticed until the block is in use again.              *)
(***************************************************************************)
EXTENDS Integers, FiniteSets, FiniteSetsExt, Functions

CONSTANTS
  MaxSize,        \* bytes
  BlockAlignment,
  HeaderBytes,    \* sizeof(block_header)
  CounterBytes,   \* sizeof(uint32_t), for the smallest block worth splitting off
  RequestSizes,   \* the sizes asked for
  MaxSurplus      \* bound: unused bytes counted that no block has

ASSUME HeapAssumption ==
  /\ MaxSize \in Nat /\ BlockAlignment \in Nat \ {0}
  /\ HeaderBytes \in Nat \ {0} /\ CounterBytes \in Nat \ {0} /\ RequestSizes \subseteq Nat \ {0}
  /\ MaxSurplus \in Nat

VARIABLES
  headers,      \* by offset: the headers written so far
  bytes_allocated, blocks_allocated, \* all the memory up to current_end
  bytes_allocated_but_unused, blocks_allocated_but_unused,
  handed_out    \* history: by offset of its header, the bytes asked for in a block in use

heapVars == <<headers, bytes_allocated, blocks_allocated, bytes_allocated_but_unused,
              blocks_allocated_but_unused, handed_out>>

Header(in_use, block_size) == [in_use |-> in_use, block_size |-> block_size]

AlignedSize(bytes) ==
  (bytes \div BlockAlignment + (IF bytes % BlockAlignment = 0 THEN 0 ELSE 1)) * BlockAlignment

HeaderSize == AlignedSize(HeaderBytes)
BlockSize(bytes) == AlignedSize(bytes) + HeaderSize
MinimumSizeForSplit == HeaderSize + AlignedSize(CounterBytes)

EmptyFunction == [x \in {} |-> 0]

HeapInit ==
  /\ headers = EmptyFunction
  /\ bytes_allocated = 0 /\ blocks_allocated = 0
  /\ bytes_allocated_but_unused = 0 /\ blocks_allocated_but_unused = 0
  /\ handed_out = EmptyFunction

\* The offsets of the blocks, as the search for one walks over them.
Walk ==
  LET blocks[at \in Nat] ==
        IF at >= bytes_allocated \/ at \notin DOMAIN headers THEN {}
        ELSE {at} \cup blocks[at + headers[at].block_size]
  IN blocks[0]

\* A header is written over what lies there; the program writes over all of its block.
WriteHeader(at, in_use, size, h) ==
  LET end == at + IF in_use THEN size ELSE HeaderSize
      kept == {o \in DOMAIN h : o <= at - HeaderSize \/ o >= end}
  IN [o \in kept \cup {at} |-> IF o = at THEN Header(in_use, size) ELSE h[o]]

-----------------------------------------------------------------------------
(* Allocation.                                                             *)

Exhausted(size) == bytes_allocated + size > MaxSize

HandOut(at, bytes) ==
  handed_out' =
    [o \in DOMAIN handed_out \cup {at} |-> IF o = at THEN bytes ELSE handed_out[o]]

TakeFromEnd(bytes) ==
  LET size == BlockSize(bytes)
  IN /\ ~Exhausted(size)
     /\ headers' = WriteHeader(bytes_allocated, TRUE, size, headers)
     /\ bytes_allocated' = bytes_allocated + size
     /\ blocks_allocated' = blocks_allocated + 1
     /\ HandOut(bytes_allocated, bytes)
     /\ UNCHANGED <<bytes_allocated_but_unused, blocks_allocated_but_unused>>

\* Mutant: blocks without room for a header are split.
WorthSplittingTight(block_size, size) == block_size > size

WorthSplitting(block_size, size) == block_size > size + MinimumSizeForSplit

Fits(at, size) == ~headers[at].in_use /\ headers[at].block_size >= size

\* The first block of the size, or else the first of the largest.
BestFit(size) ==
  LET fitting == {at \in Walk : Fits(at, size)}
      exact == {at \in fitting : headers[at].block_size = size}
      largest == {at \in fitting : \A o \in fitting : headers[o].block_size <= headers[at].block_size}
  IN IF exact # {} THEN Min(exact) ELSE Min(largest)

SearchForUnusedBlock(bytes) ==
  LET size == BlockSize(bytes)
      at == BestFit(size)
      block_size == headers[at].block_size
      split == WriteHeader(at + size, FALSE, block_size - size, headers)
  IN /\ Exhausted(size)
     /\ blocks_allocated_but_unused # 0
     /\ \E a \in Walk : Fits(a, size)
     /\ IF WorthSplitting(block_size, size)
        THEN /\ headers' = WriteHeader(at, TRUE, size, split)
             /\ blocks_allocated' = blocks_allocated + 1
             /\ UNCHANGED blocks_allocated_but_unused
        ELSE /\ headers' = WriteHeader(at, TRUE, block_size, headers)
             /\ blocks_allocated_but_unused' = blocks_allocated_but_unused - 1
             /\ UNCHANGED blocks_allocated
     /\ bytes_allocated_but_unused' = bytes_allocated_but_unused - size
     /\ HandOut(at, bytes)
     /\ UNCHANGED bytes_allocated

\* nullptr is returned.
Refuse(bytes) ==
  /\ Exhausted(BlockSize(bytes))
  /\ blocks_allocated_but_unused = 0 \/ \A at \in Walk : ~Fits(at, BlockSize(bytes))
  /\ UNCHANGED heapVars

-----------------------------------------------------------------------------
(* Deallocation.                                                           *)

MayDeallocate(at) == headers[at].in_use

\* Of a block of the program, or once more of one that has not been used since.
Deallocate(at) ==
  /\ IF MayDeallocate(at)
     THEN /\ headers' = [headers EXCEPT ![at] = Header(FALSE, headers[at].block_size)]
          /\ bytes_allocated_but_unused' = bytes_allocated_but_unused + headers[at].block_size
          /\ blocks_allocated_but_unused' = blocks_allocated_but_unused + 1
     ELSE UNCHANGED <<headers, bytes_allocated_but_unused, blocks_allocated_but_unused>>
  /\ handed_out' = Restrict(handed_out, DOMAIN handed_out \ {at})
  /\ UNCHANGED <<bytes_allocated, blocks_allocated>>

Unused == {at \in Walk : ~headers[at].in_use}
SizeOf(blocks) == MapThenSumSet(LAMBDA at : headers[at].block_size, blocks)
Surplus == bytes_allocated_but_unused - SizeOf(Unused)

HeapNext ==
  \/ \E bytes \in RequestSizes :
       \/ TakeFromEnd(bytes)
       \/ SearchForUnusedBlock(bytes) /\ Surplus' <= MaxSurplus
       \/ Refuse(bytes)
  \/ \E at \in Walk : Deallocate(at)

HeapSpec == HeapInit /\ [][HeapNext]_heapVars

-----------------------------------------------------------------------------
(* Properties.                                                             *)

\* The blocks fill the memory up to the end without a gap, and the memory is enough; those
\* in use are those the program holds, each with room for what was asked for.
BlocksTile ==
  /\ SizeOf(Walk) = bytes_allocated /\ bytes_allocated <= MaxSize
  /\ Walk \ Unused = DOMAIN handed_out
  /\ \A at \in DOMAIN handed_out : headers[at].block_size >= BlockSize(handed_out[at])

\* The numbers of blocks are right, so that a search that would find a block is made, and
\* no unused byte goes uncounted.
BlocksAreCounted ==
  /\ blocks_allocated = Cardinality(Walk)
  /\ blocks_allocated_but_unused = Cardinality(Unused)
  /\ Surplus >= 0

\* The heap is what its headers and its counters say, whatever is allocated, split, returned
\* and returned twice: no two blocks share a byte, and none is lost.
HeapIsSound == BlocksTile /\ BlocksAreCounted

\* bytes_in_use and bytes_reserved: what is not in use is what the unused blocks take.  It is
\* not so: a block taken whole, larger than asked for, leaves a surplus.
BytesAreCounted == Surplus = 0

=============================================================================
