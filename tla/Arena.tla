------------------------------- MODULE Arena --------------------------------
(***************************************************************************)
(* The bump allocator of src/arena.h and src/arena.cpp.  Small requests    *)
(* are cut from the current block; a request that does not fit gets a      *)
(* block of its own when it is large, and otherwise a new current block,   *)
(* what was left of the old one being lost.                                *)
(*                                                                         *)
(* A pointer is a block (an index of blocks_) and an offset in it: the     *)
(* arrays that new char[] returns do not overlap and start at an aligned   *)
(* address.  One thread allocates at a time, so each call is a step.       *)
(***************************************************************************)
EXTENDS Integers, Sequences

CONSTANTS
  BlockSize,  \* kMaxBlockSize
  Align,      \* sizeof(void*)
  Sizes,      \* the sizes that callers ask for
  MaxMemory   \* bound on the bytes requested from new, for model checking

ASSUME ArenaAssumption ==
  /\ BlockSize \in Nat
  /\ Align \in {4, 8}
  /\ Sizes \subseteq Nat \ {0}
  /\ MaxMemory \in Nat

VARIABLES
  blocks,         \* blocks_: the size of every block
  blocks_memory,  \* blocks_memory_
  current,        \* the block alloc_ptr_ points into, 0 when it is NULL
  offset,         \* the offset of alloc_ptr_ in that block
  remaining,      \* alloc_bytes_remaining_
  given,          \* the regions callers were given
  handed,         \* how many bytes they have in total
  padding,        \* how many bytes allocateAligned() skipped
  leaked          \* how many bytes no longer belong to anyone

arenaVars == <<blocks, blocks_memory, current, offset, remaining, given, handed,
               padding, leaked>>

Region(block, first, bytes, aligned) ==
  [block |-> block, first |-> first, bytes |-> bytes, aligned |-> aligned]

ArenaInit ==
  /\ blocks = <<>>
  /\ blocks_memory = 0
  /\ current = 0
  /\ offset = 0
  /\ remaining = 0
  /\ given = {}
  /\ handed = 0
  /\ padding = 0
  /\ leaked = 0

-----------------------------------------------------------------------------

\* What allocateFallback() counts as large
Large(bytes) == bytes > BlockSize \div 4

\* The size of the block allocateFallback() asks for
Fresh(bytes) == IF Large(bytes) THEN bytes ELSE BlockSize

\* The bytes allocateAligned() skips, as they must not be: current_mod itself.
SlopIsMod == offset % Align

\* The bytes allocateAligned() skips
Slop ==
  IF offset % Align = 0 THEN 0 ELSE Align - (offset % Align)

Skip(aligned) == IF aligned THEN Slop ELSE 0

\* allocate() and allocateAligned() when the request fits the current block
Cut(bytes, aligned) ==
  /\ Skip(aligned) + bytes <= remaining
  /\ given' = given \cup
                {Region(current, offset + Skip(aligned), bytes, aligned)}
  /\ handed' = handed + bytes
  /\ padding' = padding + Skip(aligned)
  /\ offset' = offset + Skip(aligned) + bytes
  /\ remaining' = remaining - (Skip(aligned) + bytes)
  /\ UNCHANGED <<blocks, blocks_memory, current, leaked>>

\* Grow as it must not be: the new block is not counted.
GrowUncounted(bytes, aligned) ==
  /\ Skip(aligned) + bytes > remaining
  /\ blocks_memory + Fresh(bytes) <= MaxMemory
  /\ UNCHANGED blocks_memory

\* allocateNewBlock() as far as blocks_memory_ += block_bytes
Grow(bytes, aligned) ==
  /\ Skip(aligned) + bytes > remaining
  /\ blocks_memory + Fresh(bytes) <= MaxMemory
  /\ blocks_memory' = blocks_memory + Fresh(bytes)

\* allocateFallback(), a large request: the current block stays
OwnBlock(bytes, aligned) ==
  /\ Large(bytes)
  /\ Grow(bytes, aligned)
  /\ blocks' = Append(blocks, bytes)
  /\ given' = given \cup {Region(Len(blocks) + 1, 0, bytes, aligned)}
  /\ handed' = handed + bytes
  /\ UNCHANGED <<current, offset, remaining, padding, leaked>>

\* NextBlock as it must not be: alloc_ptr_ stays at the start of the block.
NextBlockStart(bytes, aligned) ==
  /\ ~Large(bytes)
  /\ Grow(bytes, aligned)
  /\ blocks' = Append(blocks, BlockSize)
  /\ given' = given \cup {Region(Len(blocks) + 1, 0, bytes, aligned)}
  /\ handed' = handed + bytes
  /\ current' = Len(blocks) + 1
  /\ offset' = 0
  /\ remaining' = BlockSize - bytes
  /\ UNCHANGED <<padding, leaked>>

\* allocateFallback(), a small request: a new current block
NextBlock(bytes, aligned) ==
  /\ ~Large(bytes)
  /\ Grow(bytes, aligned)
  /\ blocks' = Append(blocks, BlockSize)
  /\ given' = given \cup {Region(Len(blocks) + 1, 0, bytes, aligned)}
  /\ handed' = handed + bytes
  /\ current' = Len(blocks) + 1
  /\ offset' = bytes
  /\ remaining' = BlockSize - bytes
  /\ UNCHANGED <<padding, leaked>>

\* new char[] throws: nothing has changed yet
NewFails(bytes, aligned) ==
  /\ Skip(aligned) + bytes > remaining
  /\ UNCHANGED arenaVars

\* blocks_.push_back() throws: the new block is counted and is lost
PushFails(bytes, aligned) ==
  /\ Grow(bytes, aligned)
  /\ leaked' = leaked + Fresh(bytes)
  /\ UNCHANGED <<blocks, current, offset, remaining, given, handed, padding>>

ArenaNext ==
  \E bytes \in Sizes, aligned \in BOOLEAN :
    \/ Cut(bytes, aligned)
    \/ OwnBlock(bytes, aligned)
    \/ NextBlock(bytes, aligned)
    \/ NewFails(bytes, aligned)
    \/ PushFails(bytes, aligned)

ArenaSpec == ArenaInit /\ [][ArenaNext]_arenaVars

-----------------------------------------------------------------------------
(* Properties *)

Regions ==
  [block : Nat \ {0}, first : Nat, bytes : Nat \ {0}, aligned : BOOLEAN]

ArenaTypeOK ==
  /\ blocks \in Seq(Nat)
  /\ current \in 0 .. Len(blocks)
  /\ {blocks_memory, offset, remaining, handed, padding, leaked} \subseteq Nat
  /\ given \subseteq Regions

\* Every region is inside one of the arrays the arena owns, and no two callers
\* were given the same byte.
Apart ==
  /\ \A r \in given :
       /\ r.block \in DOMAIN blocks
       /\ r.first + r.bytes <= blocks[r.block]
  /\ \A r, s \in given :
       r.block = s.block /\ r # s =>
         r.first + r.bytes <= s.first \/ s.first + s.bytes <= r.first

\* The assertion at the end of allocateAligned(), of every address it returned.
PointersAligned == \A r \in given : r.aligned => r.first % Align = 0

\* What abandoning blocks may have lost: each of them had too little left for a
\* request of BlockSize \div 4 and its padding.
Abandoned == Len(blocks) * (BlockSize \div 4 + Align)

\* memoryUsage() covers what callers hold and what is left to cut
\* (arena_test.cpp asserts the first), and no byte is lost but in the ways the
\* code knows of.
UsageBounds ==
  /\ handed + remaining <= blocks_memory
  /\ blocks_memory <= handed + remaining + padding + leaked + Abandoned
=============================================================================
