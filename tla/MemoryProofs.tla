---------------------------- MODULE MemoryProofs ----------------------------
(***************************************************************************)
(* Proofs about the components that look after memory: Arena, for any      *)
(* block size, any sizes asked for, and pointers of 4 or 8 bytes;          *)
(* Statuses, for any objects and arrays; Iterators, for any iterators and  *)
(* functions; and Logger, for any threads, messages and buffers.           *)
(***************************************************************************)
EXTENDS Arena, Statuses, Iterators, Logger, Integers, FiniteSetTheorems, TLAPS

-----------------------------------------------------------------------------
(* Arena: arithmetic *)

\* What is skipped brings alloc_ptr_ to the next multiple of Align.
LEMMA SlopAligns ==
  ASSUME offset \in Nat
  PROVE  /\ Slop \in 0 .. Align - 1
         /\ (offset + Slop) % Align = 0
<1>1. CASE Align = 4
  BY <1>1 DEF Slop
<1>2. CASE Align = 8
  BY <1>2 DEF Slop
<1> QED
  BY <1>1, <1>2, ArenaAssumption

LEMMA Quarter == BlockSize \div 4 \in Nat /\ BlockSize \div 4 <= BlockSize
  BY ArenaAssumption

LEMMA SkipBounds ==
  ASSUME offset \in Nat, NEW aligned \in BOOLEAN
  PROVE  /\ Skip(aligned) \in Nat
         /\ Skip(aligned) < Align
         /\ aligned => (offset + Skip(aligned)) % Align = 0
<1>1. Align \in Nat /\ Align > 0
  BY ArenaAssumption
<1> QED
  BY <1>1, SlopAligns DEF Skip

LEMMA ZeroAligned == 0 % Align = 0
<1>1. CASE Align = 4
  BY <1>1
<1>2. CASE Align = 8
  BY <1>2
<1> QED
  BY <1>1, <1>2, ArenaAssumption

-----------------------------------------------------------------------------
(* Arena: the invariant *)

\* alloc_ptr_ and alloc_bytes_remaining_ delimit the end of the current block,
\* and nothing there was given to anyone.
CurrentOK ==
  /\ current = 0 => remaining = 0
  /\ current # 0 => offset + remaining = blocks[current]
  /\ \A r \in given : r.block = current => r.first + r.bytes <= offset

IInv == ArenaTypeOK /\ Apart /\ PointersAligned /\ UsageBounds /\ CurrentOK

LEMMA AbandonedNat ==
  ASSUME ArenaTypeOK
  PROVE  Abandoned \in Nat
<1>1. Len(blocks) \in Nat /\ BlockSize \div 4 + Align \in Nat
  BY Quarter, ArenaAssumption DEF ArenaTypeOK
<1> QED
  BY <1>1 DEF Abandoned

\* One block more
LEMMA AbandonedGrows ==
  ASSUME ArenaTypeOK, NEW size, blocks' = Append(blocks, size)
  PROVE  Abandoned' = Abandoned + BlockSize \div 4 + Align
<1>1. /\ Len(blocks) \in Nat /\ Len(blocks') = Len(blocks) + 1
      /\ BlockSize \div 4 \in Nat /\ Align \in Nat
  BY Quarter, ArenaAssumption DEF ArenaTypeOK
<1> DEFINE n == Len(blocks)
           w == BlockSize \div 4 + Align
<1>2. (n + 1) * w = n * w + w
  BY <1>1
<1>3. n * w \in Nat
  BY <1>1
<1> QED
  BY <1>1, <1>2, <1>3 DEF Abandoned

LEMMA InitIInv == ArenaInit => IInv
<1> SUFFICES ASSUME ArenaInit
             PROVE  IInv
  OBVIOUS
<1> USE DEF ArenaInit
<1>1. Len(blocks) = 0 /\ blocks \in Seq(Nat)
  OBVIOUS
<1>2. Abandoned = 0
  BY <1>1, Quarter, ArenaAssumption DEF Abandoned
<1> QED
  BY <1>1, <1>2
  DEF IInv, ArenaTypeOK, Apart, PointersAligned, UsageBounds, CurrentOK

\* A request that fits: the region starts at the free end of the current block.
LEMMA StepCut ==
  ASSUME IInv, NEW bytes \in Sizes, NEW aligned \in BOOLEAN, Cut(bytes, aligned)
  PROVE  IInv'
<1> DEFINE new == Region(current, offset + Skip(aligned), bytes, aligned)
<1>1. bytes \in Nat \ {0}
  BY ArenaAssumption
<1>2. {blocks_memory, offset, remaining, handed, padding, leaked} \subseteq Nat
  BY DEF IInv, ArenaTypeOK
<1>3. /\ Skip(aligned) \in Nat
      /\ aligned => (offset + Skip(aligned)) % Align = 0
  BY <1>2, SkipBounds
<1>4. /\ given' = given \cup {new}
      /\ offset' = offset + Skip(aligned) + bytes
      /\ remaining' = remaining - (Skip(aligned) + bytes)
      /\ Skip(aligned) + bytes <= remaining
      /\ handed' = handed + bytes
      /\ padding' = padding + Skip(aligned)
      /\ UNCHANGED <<blocks, blocks_memory, current, leaked>>
  BY DEF Cut
<1>5. current \in 1 .. Len(blocks) /\ offset + remaining = blocks[current]
  <2>1. \A skip \in Nat : skip + bytes <= remaining => remaining # 0
    BY <1>1, <1>2
  <2>2. remaining # 0
    BY <1>3, <1>4, <2>1
  <2> QED
    BY <2>2 DEF IInv, CurrentOK, ArenaTypeOK
<1>6. /\ new.block = current
      /\ new.first = offset + Skip(aligned)
      /\ new.bytes = bytes
      /\ new.aligned = aligned
      /\ new \in Regions
  BY <1>1, <1>2, <1>3, <1>5 DEF Region, Regions
<1>7. ArenaTypeOK'
  <2>1. blocks' \in Seq(Nat) /\ current' \in 0 .. Len(blocks')
    BY <1>4 DEF IInv, ArenaTypeOK
  <2>2. offset' \in Nat /\ remaining' \in Nat /\ handed' \in Nat /\ padding' \in Nat
    BY <1>1, <1>2, <1>3, <1>4
  <2>3. blocks_memory' \in Nat /\ leaked' \in Nat
    BY <1>2, <1>4
  <2>4. given' \subseteq Regions
    BY <1>4, <1>6 DEF IInv, ArenaTypeOK
  <2> QED
    BY <2>1, <2>2, <2>3, <2>4 DEF ArenaTypeOK
<1>8. \A r \in given : r \in Regions
  BY DEF IInv, ArenaTypeOK
<1>9. \A r \in given : r.block = current => r.first + r.bytes <= new.first
  BY <1>2, <1>3, <1>6, <1>8 DEF IInv, CurrentOK, Regions
<1>10. new.first + new.bytes = offset' /\ offset' + remaining' = offset + remaining
  BY <1>1, <1>2, <1>3, <1>4, <1>6
<1>11. Apart'
  <2>1. new.block \in DOMAIN blocks /\ new.first + new.bytes <= blocks[new.block]
    <3>1. current \in DOMAIN blocks
      BY <1>5 DEF IInv, ArenaTypeOK
    <3>2. offset + Skip(aligned) + bytes <= offset + remaining
      BY <1>1, <1>2, <1>3, <1>4
    <3> QED
      BY <1>5, <1>6, <3>1, <3>2
  <2>2. \A r \in given' : r \in given \/ r = new
    BY <1>4
  <2> HIDE DEF new
  <2> QED
    BY <1>4, <1>6, <1>9, <2>1, <2>2 DEF IInv, Apart
<1>12. PointersAligned'
  BY <1>3, <1>4, <1>6 DEF IInv, PointersAligned
<1>13. UsageBounds'
  <2>1. Abandoned' = Abandoned /\ Abandoned \in Nat
    BY <1>4, AbandonedNat DEF Abandoned, IInv
  <2>2. handed' + remaining' + padding' = handed + remaining + padding
    BY <1>1, <1>2, <1>3, <1>4
  <2>3. handed' + remaining' <= handed + remaining
    BY <1>1, <1>2, <1>3, <1>4
  <2>4. handed' + remaining' <= blocks_memory
    BY <1>1, <1>2, <1>3, <1>4, <2>3 DEF IInv, UsageBounds
  <2>5. blocks_memory <= handed' + remaining' + padding' + leaked + Abandoned
    BY <1>1, <1>2, <1>3, <1>4, <2>1, <2>2 DEF IInv, UsageBounds
  <2> QED
    BY <1>4, <2>1, <2>4, <2>5 DEF UsageBounds
<1>14. CurrentOK'
  <2>1. \A r \in given : r.block = current => r.first + r.bytes <= offset'
    BY <1>1, <1>2, <1>3, <1>4, <1>6, <1>8, <1>9 DEF Regions
  <2> QED
    BY <1>4, <1>5, <1>6, <1>10, <1>7, <2>1 DEF CurrentOK, ArenaTypeOK
<1> QED
  BY <1>7, <1>11, <1>12, <1>13, <1>14 DEF IInv

\* A region at the start of a block that is new touches no other region.
LEMMA NewBlockApart ==
  ASSUME IInv, NEW bytes \in Sizes, NEW aligned \in BOOLEAN, NEW size \in Nat,
         bytes <= size,
         blocks' = Append(blocks, size),
         given' = given \cup {Region(Len(blocks) + 1, 0, bytes, aligned)}
  PROVE  /\ blocks' \in Seq(Nat)
         /\ given' \subseteq Regions
         /\ Apart'
         /\ PointersAligned'
         /\ \A r \in given : r.block \in 1 .. Len(blocks)
         /\ Len(blocks') = Len(blocks) + 1
         /\ \A b \in 1 .. Len(blocks) : blocks'[b] = blocks[b]
         /\ blocks'[Len(blocks) + 1] = size
<1> DEFINE new == Region(Len(blocks) + 1, 0, bytes, aligned)
<1>1. bytes \in Nat \ {0} /\ blocks \in Seq(Nat) /\ Len(blocks) \in Nat
  BY ArenaAssumption DEF IInv, ArenaTypeOK
<1>2. blocks' \in Seq(Nat) /\ Len(blocks') = Len(blocks) + 1
  BY <1>1
<1>3. /\ \A b \in 1 .. Len(blocks) : blocks'[b] = blocks[b]
      /\ blocks'[Len(blocks) + 1] = size
  BY <1>1
<1>4. /\ new.block = Len(blocks) + 1
      /\ new.first = 0
      /\ new.bytes = bytes
      /\ new.aligned = aligned
      /\ new \in Regions
  BY <1>1 DEF Region, Regions
<1>5. given' \subseteq Regions
  BY <1>4 DEF IInv, ArenaTypeOK
<1>6. DOMAIN blocks = 1 .. Len(blocks) /\ DOMAIN blocks' = 1 .. Len(blocks) + 1
  BY <1>1, <1>2
<1>7. \A r \in given : r.block \in 1 .. Len(blocks)
  BY <1>6 DEF IInv, Apart
<1>8. \A r \in given : r.block # new.block
  BY <1>1, <1>4, <1>7
<1>9. \A r \in given' : r \in given \/ r = new
  OBVIOUS
<1>10. new.block \in DOMAIN blocks' /\ new.first + new.bytes <= blocks'[new.block]
  BY <1>1, <1>3, <1>4, <1>6
<1>11. \A r \in given : /\ r.block \in DOMAIN blocks'
                        /\ r.first + r.bytes <= blocks'[r.block]
  BY <1>3, <1>6, <1>7 DEF IInv, Apart
<1>12. PointersAligned'
  BY <1>4, <1>9, ZeroAligned DEF IInv, PointersAligned
<1> HIDE DEF new
<1>13. Apart'
  BY <1>8, <1>9, <1>10, <1>11 DEF IInv, Apart
<1> QED
  BY <1>2, <1>3, <1>5, <1>7, <1>12, <1>13

\* A large request
LEMMA StepOwnBlock ==
  ASSUME IInv, NEW bytes \in Sizes, NEW aligned \in BOOLEAN,
         OwnBlock(bytes, aligned)
  PROVE  IInv'
<1>1. bytes \in Nat \ {0}
  BY ArenaAssumption
<1>2. /\ blocks_memory \in Nat /\ offset \in Nat /\ remaining \in Nat
      /\ handed \in Nat /\ padding \in Nat /\ leaked \in Nat
  BY DEF IInv, ArenaTypeOK
<1>3. /\ blocks' = Append(blocks, bytes)
      /\ given' = given \cup {Region(Len(blocks) + 1, 0, bytes, aligned)}
      /\ blocks_memory' = blocks_memory + bytes
      /\ handed' = handed + bytes
      /\ UNCHANGED <<current, offset, remaining, padding, leaked>>
  BY DEF OwnBlock, Grow, Fresh
<1>4. /\ blocks' \in Seq(Nat)
      /\ given' \subseteq Regions
      /\ Apart'
      /\ PointersAligned'
      /\ \A r \in given : r.block \in 1 .. Len(blocks)
      /\ Len(blocks') = Len(blocks) + 1
      /\ \A b \in 1 .. Len(blocks) : blocks'[b] = blocks[b]
  BY <1>1, <1>3, NewBlockApart
<1>5. current \in 0 .. Len(blocks) /\ Len(blocks) \in Nat
  BY DEF IInv, ArenaTypeOK
<1>6. ArenaTypeOK'
  BY <1>1, <1>2, <1>3, <1>4, <1>5 DEF ArenaTypeOK
<1>7. UsageBounds'
  <2>1. /\ Abandoned' = Abandoned + BlockSize \div 4 + Align
        /\ Abandoned \in Nat /\ BlockSize \div 4 \in Nat /\ Align \in Nat
    BY <1>3, AbandonedNat, AbandonedGrows, Quarter, ArenaAssumption DEF IInv
  <2>2. Abandoned' \in Nat /\ Abandoned <= Abandoned'
    BY <2>1
  <2>3. /\ handed + remaining <= blocks_memory
        /\ blocks_memory <= handed + remaining + padding + leaked + Abandoned
    BY DEF IInv, UsageBounds
  <2>4. handed' + remaining' <= blocks_memory'
    BY <1>1, <1>2, <1>3, <2>3
  <2>5. blocks_memory' <= handed' + remaining' + padding' + leaked' + Abandoned'
    BY <1>1, <1>2, <1>3, <2>1, <2>2, <2>3
  <2> QED
    BY <2>4, <2>5 DEF UsageBounds
<1>8. CurrentOK'
  <2>1. current # Len(blocks) + 1
    BY <1>5
  <2>2. \A r \in given' :
          r \in given \/ r = Region(Len(blocks) + 1, 0, bytes, aligned)
    BY <1>3
  <2>3. \A r \in given' : r.block = current => r \in given
    BY <2>1, <2>2 DEF Region
  <2>4. current # 0 => blocks'[current] = blocks[current]
    BY <1>4, <1>5
  <2> QED
    BY <1>3, <2>3, <2>4 DEF IInv, CurrentOK
<1> QED
  BY <1>4, <1>6, <1>7, <1>8 DEF IInv

\* A small request that does not fit: what the old block loses is less than a
\* quarter of a block and some padding.
LEMMA StepNextBlock ==
  ASSUME IInv, NEW bytes \in Sizes, NEW aligned \in BOOLEAN,
         NextBlock(bytes, aligned)
  PROVE  IInv'
<1>1. bytes \in Nat \ {0}
  BY ArenaAssumption
<1>2. /\ blocks_memory \in Nat /\ offset \in Nat /\ remaining \in Nat
      /\ handed \in Nat /\ padding \in Nat /\ leaked \in Nat
  BY DEF IInv, ArenaTypeOK
<1>3. BlockSize \div 4 \in Nat /\ Align \in Nat /\ BlockSize \in Nat
  BY Quarter, ArenaAssumption
<1>4. bytes <= BlockSize \div 4 /\ bytes <= BlockSize
  BY <1>1, <1>3, Quarter DEF NextBlock, Large
<1>5. /\ blocks' = Append(blocks, BlockSize)
      /\ given' = given \cup {Region(Len(blocks) + 1, 0, bytes, aligned)}
      /\ blocks_memory' = blocks_memory + BlockSize
      /\ handed' = handed + bytes
      /\ current' = Len(blocks) + 1
      /\ offset' = bytes
      /\ remaining' = BlockSize - bytes
      /\ UNCHANGED <<padding, leaked>>
  BY DEF NextBlock, Grow, Fresh
<1>6. remaining < BlockSize \div 4 + Align
  <2>1. Skip(aligned) + bytes > remaining
    BY DEF NextBlock, Grow
  <2>2. Skip(aligned) \in Nat /\ Skip(aligned) < Align
    BY <1>2, SkipBounds
  <2> QED
    BY <1>1, <1>2, <1>3, <1>4, <2>1, <2>2
<1>7. /\ blocks' \in Seq(Nat)
      /\ given' \subseteq Regions
      /\ Apart'
      /\ PointersAligned'
      /\ \A r \in given : r.block \in 1 .. Len(blocks)
      /\ Len(blocks') = Len(blocks) + 1
      /\ blocks'[Len(blocks) + 1] = BlockSize
  BY <1>3, <1>4, <1>5, NewBlockApart
<1>8. Len(blocks) \in Nat
  BY DEF IInv, ArenaTypeOK
<1>9. ArenaTypeOK'
  <2>1. remaining' \in Nat /\ offset' \in Nat
    BY <1>1, <1>3, <1>4, <1>5
  <2>2. current' \in 0 .. Len(blocks')
    BY <1>5, <1>7, <1>8
  <2>3. blocks_memory' \in Nat /\ handed' \in Nat
    BY <1>1, <1>2, <1>3, <1>5
  <2> QED
    BY <1>2, <1>5, <1>7, <2>1, <2>2, <2>3 DEF ArenaTypeOK
<1>10. UsageBounds'
  <2>1. /\ Abandoned' = Abandoned + BlockSize \div 4 + Align
        /\ Abandoned \in Nat
    BY <1>5, AbandonedNat, AbandonedGrows DEF IInv
  <2>2. /\ handed + remaining <= blocks_memory
        /\ blocks_memory <= handed + remaining + padding + leaked + Abandoned
    BY DEF IInv, UsageBounds
  <2>3. handed' + remaining' = handed + BlockSize
    BY <1>1, <1>2, <1>3, <1>5
  <2>4. handed' + remaining' <= blocks_memory'
    BY <1>2, <1>3, <1>5, <2>2, <2>3
  <2>5. remaining + Abandoned <= Abandoned'
    BY <1>2, <1>3, <1>6, <2>1
  <2>6. Abandoned' \in Nat /\ handed' \in Nat /\ remaining' \in Nat
    BY <1>1, <1>2, <1>3, <1>4, <1>5, <2>1
  <2>7. blocks_memory' <= handed' + remaining' + padding' + leaked' + Abandoned'
    <3>1. padding' = padding /\ leaked' = leaked /\ blocks_memory' = blocks_memory + BlockSize
      BY <1>5
    <3>2. handed' + remaining' + padding' + leaked' + Abandoned'
            = handed + BlockSize + padding + leaked + Abandoned'
      BY <2>3, <3>1
    <3> DEFINE rest == padding + leaked
    <3>3. rest \in Nat
      BY <1>2
    <3>4. blocks_memory <= handed + rest + (remaining + Abandoned)
      BY <1>2, <2>1, <2>2, <3>3
    <3>5. blocks_memory <= handed + rest + Abandoned'
      BY <1>2, <2>1, <2>5, <2>6, <3>3, <3>4
    <3>6. blocks_memory \in Nat /\ handed \in Nat /\ BlockSize \in Nat
      BY <1>2, <1>3
    <3>7. \A m, h, r, a, b \in Nat : m <= h + r + a => m + b <= h + b + r + a
      OBVIOUS
    <3> HIDE DEF rest
    <3>8. blocks_memory + BlockSize <= handed + BlockSize + rest + Abandoned'
      BY <2>6, <3>3, <3>5, <3>6, <3>7
    <3>9. handed + BlockSize + padding + leaked + Abandoned'
            = handed + BlockSize + rest + Abandoned'
      BY <1>2, <2>6, <3>6 DEF rest
    <3> QED
      BY <3>1, <3>2, <3>8, <3>9
  <2> QED
    BY <2>4, <2>7 DEF UsageBounds
<1>11. CurrentOK'
  <2>1. \A r \in given' :
          r \in given \/ r = Region(Len(blocks) + 1, 0, bytes, aligned)
    BY <1>5
  <2>2. \A r \in given : r.block # current'
    BY <1>5, <1>7, <1>8
  <2>3. \A r \in given' : r.block = current' => r.first + r.bytes <= offset'
    BY <1>1, <1>5, <2>1, <2>2 DEF Region
  <2>4. offset' + remaining' = blocks'[current'] /\ current' # 0
    BY <1>1, <1>3, <1>5, <1>7, <1>8
  <2> QED
    BY <2>3, <2>4 DEF CurrentOK
<1> QED
  BY <1>7, <1>9, <1>10, <1>11 DEF IInv

\* A block that is counted and lost
LEMMA StepPushFails ==
  ASSUME IInv, NEW bytes \in Sizes, NEW aligned \in BOOLEAN,
         PushFails(bytes, aligned)
  PROVE  IInv'
<1>1. Fresh(bytes) \in Nat
  BY ArenaAssumption DEF Fresh
<1>2. /\ blocks_memory' = blocks_memory + Fresh(bytes)
      /\ leaked' = leaked + Fresh(bytes)
      /\ UNCHANGED <<blocks, current, offset, remaining, given, handed, padding>>
  BY DEF PushFails, Grow
<1>3. /\ blocks_memory \in Nat /\ remaining \in Nat
      /\ handed \in Nat /\ padding \in Nat /\ leaked \in Nat
  BY DEF IInv, ArenaTypeOK
<1>4. ArenaTypeOK'
  BY <1>1, <1>2, <1>3 DEF IInv, ArenaTypeOK
<1>5. UsageBounds'
  <2>1. Abandoned' = Abandoned /\ Abandoned \in Nat
    BY <1>2, AbandonedNat DEF Abandoned, IInv
  <2> QED
    BY <1>1, <1>2, <1>3, <2>1 DEF IInv, UsageBounds
<1> QED
  BY <1>2, <1>4, <1>5 DEF IInv, Apart, PointersAligned, CurrentOK

LEMMA StepIInv == IInv /\ [ArenaNext]_arenaVars => IInv'
<1> SUFFICES ASSUME IInv, [ArenaNext]_arenaVars
             PROVE  IInv'
  OBVIOUS
<1>1. ASSUME UNCHANGED arenaVars
      PROVE  IInv'
  <2>1. Abandoned' = Abandoned
    BY <1>1 DEF arenaVars, Abandoned
  <2> QED
    BY <1>1, <2>1
    DEF arenaVars, IInv, ArenaTypeOK, Apart, PointersAligned, UsageBounds, CurrentOK
<1>2. ASSUME NEW bytes \in Sizes, NEW aligned \in BOOLEAN, NewFails(bytes, aligned)
      PROVE  IInv'
  BY <1>1, <1>2 DEF NewFails
<1> QED
  BY <1>1, <1>2, StepCut, StepOwnBlock, StepNextBlock, StepPushFails DEF ArenaNext

\* No byte is handed out twice, none outside the arrays of the arena, and the
\* addresses of allocateAligned() are aligned, whatever sizes are asked for and
\* whichever allocations fail.
THEOREM RegionsApart == ArenaSpec => [](ArenaTypeOK /\ Apart /\ PointersAligned)
<1>1. IInv => ArenaTypeOK /\ Apart /\ PointersAligned
  BY DEF IInv
<1> QED
  BY InitIInv, StepIInv, <1>1, PTL DEF ArenaSpec

\* The assertion of allocateAligned() holds of every address it returned.
THEOREM AlignedPointers == ArenaSpec => []PointersAligned
<1>1. IInv => PointersAligned
  BY DEF IInv
<1> QED
  BY InitIInv, StepIInv, <1>1, PTL DEF ArenaSpec

\* memoryUsage() is never below what callers hold, and bounded above by it: less
\* than a quarter of a block and one pointer lost per block, besides padding.
THEOREM UsageIsHonest == ArenaSpec => []UsageBounds
<1>1. IInv => UsageBounds
  BY DEF IInv
<1> QED
  BY InitIInv, StepIInv, <1>1, PTL DEF ArenaSpec

-----------------------------------------------------------------------------
(* Statuses *)

USE StatusesAssumption

\* Every object is a Status or not there, and one that is there means a text.
ObjectsOK ==
  /\ state \in [Objects -> Arrays \cup {NoText, NoObject}]
  /\ heap \in [Arrays -> Texts \cup {FREE}]
  /\ meaning \in [Objects -> Texts \cup {NoText, NoObject}]
  /\ thrown \subseteq Objects
  /\ \A o \in thrown : state[o] \in Arrays

\* No two objects own one array,
Unshared ==
  \A o, s \in Objects :
    Exists(o) /\ Exists(s) /\ o # s /\ state[o] \in Arrays => state[o] # state[s]

\* what is owned is not free, and says what its owner means,
OwnedOK ==
  \A o \in Objects :
    Exists(o) =>
      /\ state[o] \in Arrays => heap[state[o]] # FREE
      /\ Text(o) = meaning[o]

\* and what is not free is owned.
AllOwned ==
  \A a \in Arrays : heap[a] # FREE => \E o \in Objects : Exists(o) /\ state[o] = a

\* The inductive invariant of Statuses
StatusesInv == ObjectsOK /\ Unshared /\ OwnedOK /\ AllOwned

\* The invariant gives the property that the run checks.
LEMMA InvOwned == StatusesInv => TextsOwned
<1> SUFFICES ASSUME StatusesInv PROVE TextsOwned
  OBVIOUS
<1>1. {a \in Arrays : heap[a] # FREE} = {state[o] : o \in {s \in Objects : Exists(s)}} \cap Arrays
  BY DEF StatusesInv, ObjectsOK, OwnedOK, AllOwned
<1> QED
  BY <1>1 DEF StatusesInv, Unshared, OwnedOK, TextsOwned

\* The heap that an object which is filled or destroyed leaves to the others
Rest(o) == IF state[o] = NoObject THEN heap ELSE Deleted(o)

\* delete[] of an object's array leaves the arrays of all others as they are.
LEMMA RestOwned ==
  ASSUME StatusesInv, NEW o \in Objects, o \notin thrown
  PROVE  /\ Rest(o) \in [Arrays -> Texts \cup {FREE}]
         /\ \A s \in Objects \ {o} :
              Exists(s) /\ state[s] \in Arrays => Rest(o)[state[s]] = heap[state[s]]
         /\ \A a \in Arrays : Rest(o)[a] # FREE =>
              \E s \in Objects \ {o} : Exists(s) /\ state[s] = a
<1>1. CASE state[o] \in Arrays
  <2>1. Exists(o) /\ Rest(o) = [heap EXCEPT ![state[o]] = FREE]
    BY <1>1 DEF Rest, Deleted, Exists
  <2> QED
    BY <1>1, <2>1 DEF StatusesInv, ObjectsOK, Unshared, AllOwned
<1>2. CASE state[o] \notin Arrays
  <2>1. Rest(o) = heap
    BY <1>2 DEF Rest, Deleted, StatusesInv, ObjectsOK
  <2> QED
    BY <1>2, <2>1 DEF StatusesInv, ObjectsOK, AllOwned
<1> QED
  BY <1>1, <1>2

\* The constructors and operator=
LEMMA FillOwned ==
  ASSUME StatusesInv, NEW o \in Objects, o \notin thrown,
         NEW text \in Texts \cup {NoText},
         Fill(o, text, Rest(o)),
         meaning' = [meaning EXCEPT ![o] = text], thrown' = thrown
  PROVE  StatusesInv'
<1>1. /\ state' = [state EXCEPT ![o] = state'[o]]
      /\ state'[o] \in Arrays \cup {NoText}
      /\ heap' \in [Arrays -> Texts \cup {FREE}]
      /\ \A a \in Arrays : a # state'[o] => heap'[a] = Rest(o)[a]
      /\ IF text = NoText THEN state'[o] = NoText
         ELSE state'[o] \in Arrays /\ Rest(o)[state'[o]] = FREE /\ heap'[state'[o]] = text
  BY RestOwned DEF Fill, StatusesInv, ObjectsOK
<1>2. ObjectsOK'
  BY <1>1 DEF StatusesInv, ObjectsOK
<1>3. \A s \in Objects \ {o} :
        /\ state'[s] = state[s] /\ meaning'[s] = meaning[s]
        /\ Exists(s)' <=> Exists(s)
  BY <1>1 DEF Exists, StatusesInv, ObjectsOK
\* The array of another object is neither the new one nor changed.
<1>4. \A s \in Objects \ {o} :
        Exists(s) /\ state[s] \in Arrays =>
          state'[o] # state[s] /\ heap'[state[s]] = heap[state[s]] /\ heap[state[s]] # FREE
  BY <1>1, RestOwned DEF StatusesInv, OwnedOK
<1>5. Unshared'
  BY <1>1, <1>3, <1>4 DEF StatusesInv, Unshared, Exists
<1>6. OwnedOK'
  <2>1. ASSUME NEW s \in Objects \ {o}, Exists(s)'
        PROVE  /\ state'[s] \in Arrays => heap'[state'[s]] # FREE
               /\ Text(s)' = meaning'[s]
    BY <1>3, <1>4, <2>1 DEF StatusesInv, ObjectsOK, OwnedOK, Text, Exists
  <2>2. /\ state'[o] \in Arrays => heap'[state'[o]] # FREE
        /\ Text(o)' = meaning'[o]
    BY <1>1 DEF StatusesInv, ObjectsOK, Text
  <2> QED
    BY <2>1, <2>2 DEF OwnedOK
<1>7. AllOwned'
  <2> SUFFICES ASSUME NEW a \in Arrays, heap'[a] # FREE
               PROVE  \E s \in Objects : Exists(s)' /\ state'[s] = a
    BY DEF AllOwned
  <2>1. CASE a = state'[o]
    BY <1>1, <2>1 DEF Exists
  <2>2. CASE a # state'[o]
    BY <1>1, <1>3, <2>2, RestOwned
  <2> QED
    BY <2>1, <2>2
<1> QED
  BY <1>2, <1>5, <1>6, <1>7 DEF StatusesInv

\* ~Status(), and an operator= whose copy throws: the object is gone, and what it
\* owned is free.
LEMMA GoneOwned ==
  ASSUME StatusesInv, NEW o \in Objects, o \notin thrown,
         heap' = Rest(o), ObjectsOK', ~Exists(o)',
         \A s \in Objects \ {o} : /\ state'[s] = state[s] /\ meaning'[s] = meaning[s]
                                  /\ Exists(s)' <=> Exists(s)
  PROVE  StatusesInv'
<1>1. Unshared'
  BY DEF StatusesInv, Unshared
<1>2. OwnedOK'
  BY RestOwned DEF StatusesInv, ObjectsOK, OwnedOK, Text, Exists
<1>3. AllOwned'
  BY RestOwned DEF AllOwned
<1> QED
  BY <1>1, <1>2, <1>3 DEF StatusesInv

\* Every constructor, assignment and destructor preserves the invariant.
LEMMA StatusesStep == StatusesInv /\ [StatusesNext]_statusVars => StatusesInv'
<1> SUFFICES ASSUME StatusesInv, [StatusesNext]_statusVars PROVE StatusesInv'
  OBVIOUS
<1>1. ASSUME NEW o \in Objects, NEW text \in Texts \cup {NoText}, Construct(o, text)
      PROVE  StatusesInv'
  <2>1. o \notin thrown /\ Rest(o) = heap
    BY <1>1 DEF Construct, Rest, StatusesInv, ObjectsOK
  <2> QED
    BY <1>1, <2>1, FillOwned DEF Construct
<1>2. ASSUME NEW o \in Objects, NEW s \in Objects, CopyConstruct(o, s)
      PROVE  StatusesInv'
  <2>1. o \notin thrown /\ Rest(o) = heap
    BY <1>2 DEF CopyConstruct, Rest, StatusesInv, ObjectsOK
  <2>2. Text(s) = meaning[s] /\ Text(s) \in Texts \cup {NoText}
    BY <1>2 DEF CopyConstruct, StatusesInv, ObjectsOK, OwnedOK, Text, Exists
  <2> QED
    BY <1>2, <2>1, <2>2, FillOwned DEF CopyConstruct
<1>3. ASSUME NEW o \in Objects, NEW s \in Objects, Assign(o, s)
      PROVE  StatusesInv'
  <2>1. o \notin thrown /\ Rest(o) = Deleted(o)
    BY <1>3 DEF Assign, Rest, Exists
  <2>2. Text(s) = meaning[s] /\ Text(s) \in Texts \cup {NoText}
    BY <1>3 DEF Assign, StatusesInv, ObjectsOK, OwnedOK, Text, Exists
  <2> QED
    BY <1>3, <2>1, <2>2, FillOwned DEF Assign
<1>4. ASSUME NEW o \in Objects, NEW s \in Objects, AssignThrows(o, s)
      PROVE  StatusesInv'
  <2>1. Exists(o) /\ o \notin thrown /\ heap' = Rest(o) /\ UNCHANGED <<state, meaning>>
    BY <1>4 DEF AssignThrows, Rest, Exists
  <2>2. CASE state[o] = NoText
    <3>1. UNCHANGED statusVars
      BY <1>4, <2>1, <2>2 DEF AssignThrows, Deleted, statusVars
    <3> QED
      BY <3>1 DEF statusVars, StatusesInv, ObjectsOK, Unshared, OwnedOK, AllOwned, Exists, Text
  <2>3. CASE state[o] # NoText
    <3>1. thrown' = thrown \cup {o} /\ state[o] \in Arrays
      BY <1>4, <2>1, <2>3 DEF AssignThrows, Exists, StatusesInv, ObjectsOK
    <3>2. ObjectsOK'
      BY <2>1, <3>1, RestOwned DEF StatusesInv, ObjectsOK
    <3>3. ~Exists(o)' /\ \A s1 \in Objects \ {o} : Exists(s1)' <=> Exists(s1)
      BY <2>1, <3>1 DEF Exists
    <3> QED
      BY <2>1, <3>2, <3>3, GoneOwned
  <2> QED
    BY <2>2, <2>3
<1>5. ASSUME NEW o \in Objects, Destroy(o) PROVE StatusesInv'
  <2>1. o \notin thrown /\ heap' = Rest(o)
    BY <1>5 DEF Destroy, Rest, Exists
  <2>2. ObjectsOK'
    BY <1>5, <2>1, RestOwned DEF Destroy, StatusesInv, ObjectsOK
  <2>3. /\ ~Exists(o)'
        /\ \A s \in Objects \ {o} : /\ state'[s] = state[s] /\ meaning'[s] = meaning[s]
                                    /\ Exists(s)' <=> Exists(s)
    BY <1>5 DEF Destroy, Exists, StatusesInv, ObjectsOK
  <2> QED
    BY <2>1, <2>2, <2>3, GoneOwned
<1>6. ASSUME UNCHANGED statusVars PROVE StatusesInv'
  BY <1>6 DEF statusVars, StatusesInv, ObjectsOK, Unshared, OwnedOK, AllOwned, Exists, Text
<1> QED
  BY <1>1, <1>2, <1>3, <1>4, <1>5, <1>6 DEF StatusesNext, AssignSelf

\* A Status owns its text, whatever is copied, assigned, destroyed or thrown, for any
\* number of objects and arrays (status.h, Status::copyState and operator=).
THEOREM StatusesOwnTexts == StatusesSpec => []TextsOwned
<1>1. StatusesInit => StatusesInv
  BY DEF StatusesInit, StatusesInv, ObjectsOK, Unshared, OwnedOK, AllOwned, Exists
<1> QED
  BY <1>1, StatusesStep, InvOwned, PTL DEF StatusesSpec

-----------------------------------------------------------------------------
(* Logger *)

\* A thread in Logv() has one of the messages, and has left the small buffer only
\* with a message that does not fit into it.
CallsOK ==
  /\ try \in [Loggers -> 0 .. 2]
  /\ DOMAIN message = Loggers
  /\ \A t \in Loggers :
       /\ try[t] # 2 => message[t] \in Messages
       /\ try[t] = 1 => Wanted(message[t]) >= Small

\* What is kept of a message, with its newline, is a whole line.
Whole(line) ==
  /\ IF Header + line.message.length < Big THEN line.kept = line.message.length
                                          ELSE Header + line.kept + 1 = Big
  /\ line.added <=> line.kept \notin line.message.newlines
  /\ Header + line.kept + (IF line.added THEN 1 ELSE 0) <= Big

Lines == [message : Messages, kept : Nat, added : BOOLEAN, complete : BOOLEAN]

\* The lines are whole, and there is one for each call that returned.
LoggerInv ==
  /\ CallsOK
  /\ log \in Seq(Lines) /\ returned \in Nat
  /\ LinesWhole

\* A line that fits into the buffer it is printed to is whole.
LEMMA LineIsWhole ==
  ASSUME NEW m \in Messages, NEW complete \in BOOLEAN,
         NEW bufsize \in {Small, Big},
         bufsize = Small => Wanted(m) < Small
  PROVE  Line(m, bufsize, complete) \in Lines /\ Whole(Line(m, bufsize, complete))
<1>1. /\ m.length \in Nat /\ m.newlines \subseteq 1 .. m.length
      /\ Header \in Nat \ {0} /\ Header < Small /\ Small < Big /\ Small \in Nat /\ Big \in Nat
  BY LoggerAssumption
<1>2. KeptLength(m, bufsize) \in Nat
  BY <1>1 DEF KeptLength, Wanted
<1>3. IF Header + m.length < Big THEN KeptLength(m, bufsize) = m.length
                                ELSE Header + KeptLength(m, bufsize) + 1 = Big
  BY <1>1 DEF KeptLength, Wanted
<1>4. Header + KeptLength(m, bufsize) + 1 <= Big
  BY <1>1, <1>3
<1>5. PICK kept \in Nat : kept = KeptLength(m, bufsize)
  BY <1>2
<1>6. PICK added \in BOOLEAN : added <=> kept \notin m.newlines
  <2>1. (kept \notin m.newlines) \in BOOLEAN
    OBVIOUS
  <2> QED
    BY <2>1
<1>7. Line(m, bufsize, complete) =
        [message |-> m, kept |-> kept, added |-> added, complete |-> complete]
  BY <1>5, <1>6 DEF Line
<1>8. Line(m, bufsize, complete) \in Lines
  BY <1>7 DEF Lines
<1>9. Header + kept + (IF added THEN 1 ELSE 0) <= Big
  BY <1>1, <1>4, <1>5
<1> QED
  BY <1>3, <1>5, <1>6, <1>7, <1>8, <1>9 DEF Whole

\* fwrite() of a line, from either buffer and whatever becomes of it, preserves the
\* invariant.
LEMMA WriteWhole ==
  ASSUME LoggerInv, NEW t \in Loggers, NEW bufsize \in {Small, Big},
         message[t] \in Messages, bufsize = Small => Wanted(message[t]) < Small,
         Write(t, bufsize)
  PROVE  LoggerInv'
<1>1. PICK complete \in BOOLEAN : log' = Append(log, Line(message[t], bufsize, complete))
  BY DEF Write
<1> DEFINE line == Line(message[t], bufsize, complete)
<1>2. line \in Lines /\ Whole(line) /\ log' = Append(log, line) /\ returned' = returned + 1
  BY <1>1, LineIsWhole DEF Write
<1> HIDE DEF line
<1>3. log' \in Seq(Lines) /\ Len(log') = returned'
  BY <1>2 DEF LoggerInv, LinesWhole
<1>4. ASSUME NEW i \in DOMAIN log' PROVE Whole(log'[i])
  <2>1. CASE i = Len(log) + 1
    BY <1>2, <2>1 DEF LoggerInv
  <2>2. CASE i # Len(log) + 1
    <3>1. i \in DOMAIN log /\ log'[i] = log[i]
      BY <1>2, <2>2 DEF LoggerInv
    <3> QED
      BY <3>1 DEF LoggerInv, LinesWhole, Whole
  <2> QED
    BY <2>1, <2>2
<1>5. CallsOK'
  BY DEF Write, LoggerInv, CallsOK
<1> QED
  BY <1>2, <1>3, <1>4, <1>5 DEF LoggerInv, LinesWhole, Whole

\* Logv() gives fwrite() whole lines, one for every call that returns, for any number
\* of threads, messages of any length with newlines anywhere, and any two buffers,
\* whatever fwrite() makes of them (win_logger.cc, Logv).
THEOREM LogIsWhole == LoggerSpec => []LinesWhole
<1>1. LoggerInit => LoggerInv
  BY DEF LoggerInit, LoggerInv, CallsOK, LinesWhole
<1>2. LoggerInv /\ [LoggerNext]_loggerVars => LoggerInv'
  <2> SUFFICES ASSUME LoggerInv, [LoggerNext]_loggerVars PROVE LoggerInv'
    OBVIOUS
  <2>1. ASSUME NEW t \in Loggers, NEW m \in Messages, Logv(t, m) PROVE LoggerInv'
    BY <2>1 DEF Logv, LoggerInv, CallsOK, LinesWhole
  <2>2. ASSUME NEW t \in Loggers, WriteSmall(t) PROVE LoggerInv'
    <3>1. message[t] \in Messages /\ Wanted(message[t]) < Small /\ Write(t, Small)
      BY <2>2 DEF WriteSmall, LoggerInv, CallsOK
    <3> QED
      BY <3>1, WriteWhole
  <2>3. ASSUME NEW t \in Loggers, Continue(t) PROVE LoggerInv'
    BY <2>3 DEF Continue, LoggerInv, CallsOK, LinesWhole
  <2>4. ASSUME NEW t \in Loggers, WriteBig(t) PROVE LoggerInv'
    <3>1. message[t] \in Messages /\ Write(t, Big)
      BY <2>4 DEF WriteBig, LoggerInv, CallsOK
    <3>2. Big # Small
      BY LoggerAssumption
    <3> QED
      BY <3>1, <3>2, WriteWhole
  <2>5. ASSUME NEW t \in Loggers, NewThrows(t) PROVE LoggerInv'
    BY <2>5 DEF NewThrows, LoggerInv, CallsOK, LinesWhole
  <2>6. CASE UNCHANGED loggerVars
    BY <2>6 DEF loggerVars, LoggerInv, CallsOK, LinesWhole
  <2> QED
    BY <2>1, <2>2, <2>3, <2>4, <2>5, <2>6 DEF LoggerNext
<1>3. LoggerInv => LinesWhole
  BY DEF LoggerInv
<1> QED
  BY <1>1, <1>2, <1>3, PTL DEF LoggerSpec

-----------------------------------------------------------------------------
(* Iterators *)

USE IteratorsAssumption

\* The number of the function that is called k-th when n were registered
Order(n, k) == IF k = 1 THEN 1 ELSE n + 2 - k

\* The type of the state, with natural numbers of references
IteratorTypes ==
  /\ table \in {"none", "new", "there", "deleted"} /\ refs \in Nat /\ held \in Nat
  /\ iter \in [Iters -> {"none", "there", "calling", "called", "deleted"}]
  /\ at \in [Iters -> Cells \cup {NULL}]
  /\ allocated \in SUBSET Nodes
  /\ function \in [Cells -> Nat] /\ next \in [Cells -> Cells \cup {NULL}]
  /\ registered \in [Iters -> 0 .. MaxFunctions]
  /\ called \in [Iters -> Seq(Nat)]

\* What was called so far is the beginning of the order.
CallsInOrder ==
  \A i \in Iters :
    /\ \A k \in 1 .. Len(called[i]) : called[i][k] = Order(registered[i], k)
    /\ iter[i] = "none" => registered[i] = 0
    /\ iter[i] \in {"none", "there"} => called[i] = <<>>
    /\ iter[i] = "calling" => Len(called[i]) < registered[i]
    /\ iter[i] = "called" => Len(called[i]) \in 1 .. registered[i]
    /\ iter[i] = "deleted" => Len(called[i]) = registered[i]

\* How many cells the destructor has done with, and the last function that still has
\* one on the heap
Done(i) == IF iter[i] = "called" THEN Len(called[i]) - 1 ELSE Len(called[i])
Top(i) == IF Done(i) = 0 THEN registered[i] ELSE registered[i] + 1 - Done(i)

\* The functions that have a cell on the heap
OnHeap(i) == 2 .. Top(i)

\* Every function but the first has a cell, cell[i][f], until its turn is over; the
\* cells are linked from the last function down to the second, and there are no others.
Linked(cell) ==
  /\ \A i \in Iters : \A f \in OnHeap(i) :
       /\ cell[i][f] \in allocated /\ function[cell[i][f]] = f
       /\ next[cell[i][f]] = IF f = 2 THEN NULL ELSE cell[i][f - 1]
  /\ \A i, j \in Iters : \A f \in OnHeap(i), g \in OnHeap(j) :
       cell[i][f] = cell[j][g] => i = j /\ f = g
  /\ \A c \in allocated : \E i \in Iters : \E f \in OnHeap(i) : c = cell[i][f]

\* The cell inside an iterator comes first, and the destructor is at the cell of the
\* last function it has not done with.
Heads(cell) ==
  \A i \in Iters :
    /\ iter[i] \in {"there", "calling", "called"} =>
         /\ function[i] = IF registered[i] = 0 THEN 0 ELSE 1
         /\ Done(i) = 0 =>
              next[i] = IF registered[i] <= 1 THEN NULL ELSE cell[i][registered[i]]
    /\ iter[i] \in {"calling", "called"} =>
         at[i] = IF Done(i) = 0 THEN i ELSE cell[i][Top(i)]

\* Which cell of the heap every function is in
Places == [Iters -> [Nat -> Nodes \cup {NULL}]]

\* The lists of all iterators are lists, and own what is allocated.
ListsOK == \E cell \in Places : Linked(cell) /\ Heads(cell)

\* The table is there as long as a client or a pending function needs it.
ReferencesOK ==
  /\ IsFiniteSet(Pending)
  /\ refs = held + Cardinality(Pending)
  /\ refs > 0 <=> table = "there"

\* The inductive invariant of Iterators
IteratorsInv == IteratorTypes /\ CallsInOrder /\ ListsOK /\ ReferencesOK

-----------------------------------------------------------------------------

\* Membership in Pending, the functions that were registered and not called yet
LEMMA PendingIs ==
  \A i, n : <<i, n>> \in Pending <=>
    /\ i \in Iters /\ n \in 1 .. MaxFunctions
    /\ n <= registered[i] /\ \A k \in DOMAIN called[i] : called[i][k] # n
BY DEF Pending

\* The invariant gives the two properties that the run checks.
LEMMA IteratorsInvImplies == IteratorsInv => TableOutlivesUsers /\ CleanupsRunOnce
<1> SUFFICES ASSUME IteratorsInv PROVE TableOutlivesUsers /\ CleanupsRunOnce
  OBVIOUS
<1>1. TableOutlivesUsers
  BY DEF IteratorsInv, ReferencesOK, TableOutlivesUsers
<1>2. ASSUME NEW i \in Iters, iter[i] = "deleted"
      PROVE  called[i] = [k \in 1 .. registered[i] |->
                            IF k = 1 THEN 1 ELSE registered[i] + 2 - k]
  BY <1>2 DEF IteratorsInv, IteratorTypes, CallsInOrder, Order
<1>3. ASSUME \A i \in Iters : iter[i] \in {"none", "deleted"}
      PROVE  allocated = {}
  <2>1. \A i \in Iters : Top(i) \in Int /\ Top(i) <= 1
    BY <1>3 DEF IteratorsInv, IteratorTypes, CallsInOrder, Top, Done
  <2>2. \A i \in Iters : 2 .. Top(i) = {}
    BY <2>1
  <2> QED
    BY <2>2 DEF IteratorsInv, ListsOK, Linked, OnHeap
<1> QED
  BY <1>1, <1>2, <1>3 DEF CleanupsRunOnce

-----------------------------------------------------------------------------
(* The references *)

\* registerCleanup(): one more reference, one more function that will drop it
LEMMA PendingRegister ==
  ASSUME IteratorsInv, NEW i \in Iters, Register(i)
  PROVE  ReferencesOK'
<1> DEFINE n == registered[i] + 1
<1>1. n \in 1 .. MaxFunctions /\ registered' = [registered EXCEPT ![i] = n]
      /\ called' = called
  BY DEF Register, IteratorsInv, IteratorTypes
<1>2. \A k \in DOMAIN called[i] : called[i][k] # n
  BY DEF Register, IteratorsInv, IteratorTypes, CallsInOrder
<1>3. Pending' = Pending \cup {<<i, n>>}
  <2>1. ASSUME NEW j \in Iters, NEW k \in 1 .. MaxFunctions
        PROVE  <<j, k>> \in Pending' <=> <<j, k>> \in Pending \/ <<j, k>> = <<i, n>>
    BY <1>1, <1>2 DEF Pending, IteratorsInv, IteratorTypes
  <2> QED
    BY <1>1, <2>1 DEF Pending
<1>4. <<i, n>> \notin Pending
  BY DEF Pending, IteratorsInv, IteratorTypes
<1>5. IsFiniteSet(Pending') /\ Cardinality(Pending') = Cardinality(Pending) + 1
  BY <1>3, <1>4, FS_AddElement DEF IteratorsInv, ReferencesOK
<1>6. Cardinality(Pending) \in Nat
  BY FS_CardinalityType DEF IteratorsInv, ReferencesOK
<1> QED
  BY <1>5, <1>6 DEF Register, IteratorsInv, IteratorTypes, ReferencesOK

\* The function that the destructor comes to is the next of the order.
LEMMA AtIsNext ==
  ASSUME IteratorsInv, NEW i \in Iters, iter[i] = "calling"
  PROVE  /\ function[at[i]] = Order(registered[i], Len(called[i]) + 1)
         /\ function[at[i]] \in 1 .. registered[i]
<1>1. PICK cell \in Places : Linked(cell) /\ Heads(cell)
  BY DEF IteratorsInv, ListsOK
<1>2. /\ Done(i) = Len(called[i]) /\ Done(i) \in Nat /\ Done(i) < registered[i]
      /\ registered[i] \in Nat
  BY DEF IteratorsInv, IteratorTypes, CallsInOrder, Done
<1>3. CASE Done(i) = 0
  BY <1>1, <1>2, <1>3 DEF Heads, Order
<1>4. CASE Done(i) # 0
  <2>1. Top(i) = registered[i] + 1 - Done(i) /\ Top(i) \in 2 .. Top(i)
    BY <1>2, <1>4 DEF Top
  <2>2. at[i] = cell[i][Top(i)]
    BY <1>1, <1>4 DEF Heads
  <2>3. function[cell[i][Top(i)]] = Top(i)
    BY <1>1, <2>1 DEF Linked, OnHeap
  <2> QED
    BY <1>2, <1>4, <2>1, <2>2, <2>3 DEF Order
<1> QED
  BY <1>3, <1>4

\* A call of a function drops its reference, and the function is not called again.
LEMMA PendingCall ==
  ASSUME IteratorsInv, NEW i \in Iters, Call(i)
  PROVE  ReferencesOK' /\ refs' \in Nat
<1> DEFINE n == function[at[i]]
<1>1. /\ n = Order(registered[i], Len(called[i]) + 1) /\ n \in 1 .. registered[i]
  BY AtIsNext DEF Call
<1>2. registered[i] \in 0 .. MaxFunctions /\ Len(called[i]) \in Nat
      /\ Len(called[i]) < registered[i]
  BY DEF Call, IteratorsInv, IteratorTypes, CallsInOrder
<1>3. called' = [called EXCEPT ![i] = Append(@, n)] /\ UNCHANGED registered
  BY DEF Call, listVars
<1>4. \A k \in DOMAIN called[i] : called[i][k] # n
  <2>1. \A k \in DOMAIN called[i] :
          k \in 1 .. Len(called[i]) /\ called[i][k] = Order(registered[i], k)
    BY DEF IteratorsInv, IteratorTypes, CallsInOrder
  <2> QED
    BY <1>1, <1>2, <2>1 DEF Order
<1>5. <<i, n>> \in Pending
  BY <1>1, <1>2, <1>4 DEF Pending
<1> HIDE DEF n
<1>6. called'[i] = Append(called[i], n) /\ \A j \in Iters \ {i} : called'[j] = called[j]
  BY <1>3 DEF IteratorsInv, IteratorTypes
<1>7. \A m : (\A k \in DOMAIN called'[i] : called'[i][k] # m)
               <=> (\A k \in DOMAIN called[i] : called[i][k] # m) /\ m # n
  <2>1. called[i] \in Seq(Nat) /\ n \in Nat
    BY <1>1, <1>2 DEF IteratorsInv, IteratorTypes
  <2>2. /\ DOMAIN called[i] = 1 .. Len(called[i])
        /\ DOMAIN called'[i] = 1 .. Len(called[i]) + 1
        /\ called'[i][Len(called[i]) + 1] = n
        /\ \A k \in 1 .. Len(called[i]) : called'[i][k] = called[i][k]
    BY <1>6, <2>1
  <2>3. 1 .. Len(called[i]) + 1 = (1 .. Len(called[i])) \cup {Len(called[i]) + 1}
    BY <2>1
  <2> QED
    BY <2>2, <2>3
<1>8. Pending' = Pending \ {<<i, n>>}
  <2>1. ASSUME NEW j \in Iters, NEW k \in 1 .. MaxFunctions
        PROVE  <<j, k>> \in Pending' <=> <<j, k>> \in Pending /\ <<j, k>> # <<i, n>>
    BY <1>3, <1>6, <1>7 DEF Pending
  <2> QED
    BY <2>1 DEF Pending
<1>9. /\ IsFiniteSet(Pending') /\ Cardinality(Pending') = Cardinality(Pending) - 1
  BY <1>5, <1>8, FS_RemoveElement DEF IteratorsInv, ReferencesOK
<1>10. Cardinality(Pending) \in Nat /\ Cardinality(Pending') \in Nat
  BY <1>9, FS_CardinalityType DEF IteratorsInv, ReferencesOK
<1> QED
  BY <1>9, <1>10 DEF Call, Unref, IteratorsInv, IteratorTypes, ReferencesOK

-----------------------------------------------------------------------------
(* The lists *)

\* What the steps of one iterator leave of the others
Others(i) ==
  \A j \in Iters \ {i} :
    /\ iter'[j] = iter[j] /\ at'[j] = at[j]
    /\ function'[j] = function[j] /\ next'[j] = next[j]
    /\ registered'[j] = registered[j] /\ called'[j] = called[j]
    /\ Done(j)' = Done(j) /\ Top(j)' = Top(j)

\* The counts of an iterator's functions are numbers, and within each other.
LEMMA Numbers ==
  ASSUME IteratorsInv
  PROVE  \A i \in Iters :
           /\ registered[i] \in Nat /\ Len(called[i]) \in Nat
           /\ Done(i) \in Nat /\ Top(i) \in Nat /\ Top(i) <= registered[i]
<1> SUFFICES ASSUME NEW i \in Iters
             PROVE  /\ registered[i] \in Nat /\ Len(called[i]) \in Nat
                    /\ Done(i) \in Nat /\ Top(i) \in Nat /\ Top(i) <= registered[i]
  OBVIOUS
<1>1. registered[i] \in Nat /\ Len(called[i]) \in Nat
  BY DEF IteratorsInv, IteratorTypes
<1>2. Len(called[i]) <= registered[i] /\ (iter[i] = "called" => Len(called[i]) > 0)
  <2>1. Len(<<>>) = 0
    OBVIOUS
  <2> QED
    BY <1>1, <2>1 DEF IteratorsInv, IteratorTypes, CallsInOrder
<1>3. Done(i) \in Nat /\ Done(i) <= registered[i]
  BY <1>1, <1>2 DEF Done
<1> QED
  BY <1>1, <1>3 DEF Top

\* Nothing changes in the cells of the heap, nor in the order of the iterator's.
LEMMA KeepsLists ==
  ASSUME IteratorsInv, NEW i \in Iters, Others(i),
         NEW cell \in Places, Linked(cell), Heads(cell),
         UNCHANGED allocated, \A c \in Nodes : function'[c] = function[c] /\ next'[c] = next[c],
         Top(i)' = Top(i) \/ (Top(i)' = 1 /\ Top(i) = 0),
         iter'[i] \in {"there", "calling", "called"} =>
           /\ function'[i] = IF registered'[i] = 0 THEN 0 ELSE 1
           /\ Done(i)' = 0 =>
                next'[i] = IF registered'[i] <= 1 THEN NULL ELSE cell[i][registered'[i]],
         iter'[i] \in {"calling", "called"} =>
           at'[i] = IF Done(i)' = 0 THEN i ELSE cell[i][Top(i)']
  PROVE  ListsOK'
<1>1. \A j \in Iters : OnHeap(j)' = OnHeap(j)
  <2>1. ASSUME NEW j \in Iters PROVE OnHeap(j)' = OnHeap(j)
    <3>1. CASE j # i
      BY <3>1 DEF Others, OnHeap
    <3>2. CASE j = i /\ Top(i)' = Top(i)
      BY <3>2 DEF OnHeap
    <3>3. CASE j = i /\ Top(i)' = 1 /\ Top(i) = 0
      BY <3>3 DEF OnHeap
    <3> QED
      BY <3>1, <3>2, <3>3
  <2> QED
    BY <2>1
<1>2. \A j \in Iters : \A f \in OnHeap(j) : cell[j][f] \in Nodes
  BY DEF Linked, IteratorsInv, IteratorTypes
<1>3. Linked(cell)'
  <2>1. ASSUME NEW j \in Iters, NEW f \in OnHeap(j)
        PROVE  /\ cell[j][f] \in allocated' /\ function'[cell[j][f]] = f
               /\ next'[cell[j][f]] = IF f = 2 THEN NULL ELSE cell[j][f - 1]
    BY <1>2 DEF Linked
  <2> QED
    BY <1>1, <2>1 DEF Linked
<1>4. Heads(cell)'
  <2>1. ASSUME NEW j \in Iters \ {i}
        PROVE  /\ iter'[j] = iter[j] /\ at'[j] = at[j]
               /\ function'[j] = function[j] /\ next'[j] = next[j]
               /\ registered'[j] = registered[j]
               /\ Done(j)' = Done(j) /\ Top(j)' = Top(j)
    BY DEF Others
  <2> QED
    BY <2>1 DEF Heads
<1> QED
  BY <1>3, <1>4 DEF ListsOK, Places

\* The steps that leave the iterators alone
LEMMA TableSteps ==
  ASSUME IteratorsInv, NewTable \/ ref \/ unref
  PROVE  IteratorsInv'
<1>1. UNCHANGED <<iter, at, listVars, called>>
  BY DEF NewTable, ref, unref
<1>2. CallsInOrder' /\ ListsOK' /\ Pending' = Pending
  BY <1>1 DEF IteratorsInv, CallsInOrder, Order, ListsOK, Linked, Heads, Places, OnHeap,
              Top, Done, Pending, listVars
<1>3. Cardinality(Pending) \in Nat
  BY FS_CardinalityType DEF IteratorsInv, ReferencesOK
<1>4. IteratorTypes' /\ ReferencesOK'
  <2>1. CASE NewTable
    BY <1>1, <1>2, <1>3, <2>1 DEF NewTable, IteratorsInv, IteratorTypes, ReferencesOK, listVars
  <2>2. CASE ref
    BY <1>1, <1>2, <1>3, <2>2 DEF ref, IteratorsInv, IteratorTypes, ReferencesOK, listVars
  <2>3. CASE unref
    <3>1. /\ held > 0 /\ held' = held - 1 /\ refs' = refs - 1
          /\ table' = IF refs' <= 0 THEN "deleted" ELSE table
      BY <2>3 DEF unref, Unref
    <3>2. held \in Nat /\ refs \in Nat /\ refs = held + Cardinality(Pending)
          /\ refs > 0 /\ table = "there"
      BY <1>3, <3>1 DEF IteratorsInv, IteratorTypes, ReferencesOK
    <3>3. held' \in Nat /\ refs' \in Nat /\ (refs' <= 0 <=> refs' = 0)
      BY <3>1, <3>2
    <3>4. ReferencesOK'
      BY <1>2, <1>3, <3>1, <3>2, <3>3 DEF IteratorsInv, ReferencesOK
    <3> QED
      BY <1>1, <3>1, <3>2, <3>3, <3>4 DEF IteratorsInv, IteratorTypes, listVars
  <2> QED
    BY <2>1, <2>2, <2>3
<1> QED
  BY <1>2, <1>4 DEF IteratorsInv

\* newIterator(): the cell inside the new iterator is empty.
LEMMA NewIteratorStep ==
  ASSUME IteratorsInv, NEW i \in Iters, newIterator(i)
  PROVE  IteratorsInv'
<1>1. PICK cell \in Places : Linked(cell) /\ Heads(cell)
  BY DEF IteratorsInv, ListsOK
<1>2. /\ iter[i] = "none" /\ iter' = [iter EXCEPT ![i] = "there"]
      /\ function' = [function EXCEPT ![i] = 0] /\ next' = [next EXCEPT ![i] = NULL]
      /\ UNCHANGED <<table, refs, held, at, allocated, registered, called>>
  BY DEF newIterator, tableVars
<1>3. registered[i] = 0 /\ called[i] = <<>>
  BY <1>2 DEF IteratorsInv, CallsInOrder
<1>4. IteratorTypes'
  BY <1>2 DEF IteratorsInv, IteratorTypes, Cells
<1>5. CallsInOrder'
  BY <1>2, <1>3 DEF IteratorsInv, IteratorTypes, CallsInOrder, Order
<1>6. Pending' = Pending /\ ReferencesOK'
  BY <1>2 DEF Pending, IteratorsInv, ReferencesOK
<1>7. Others(i)
  BY <1>2 DEF Others, Done, Top, IteratorsInv, IteratorTypes, Cells
<1>8. iter'[i] = "there" /\ function'[i] = 0 /\ next'[i] = NULL /\ registered'[i] = 0
  BY <1>2, <1>3 DEF IteratorsInv, IteratorTypes, Cells
<1>9. Top(i)' = Top(i)
  BY <1>2, <1>3, <1>8 DEF Top, Done
<1>10. \A c \in Nodes : function'[c] = function[c] /\ next'[c] = next[c]
  BY <1>2 DEF IteratorsInv, IteratorTypes, Cells
<1>11. ListsOK'
  BY <1>1, <1>2, <1>7, <1>8, <1>9, <1>10, KeepsLists
<1> QED
  BY <1>4, <1>5, <1>6, <1>11 DEF IteratorsInv

\* registerCleanup() comes before any call of the iterator's functions.
LEMMA RegisterCalls ==
  ASSUME IteratorsInv, NEW i \in Iters, Register(i)
  PROVE  /\ CallsInOrder'
         /\ iter' = iter /\ iter[i] = "there" /\ called' = called /\ called[i] = <<>>
         /\ registered' = [registered EXCEPT ![i] = registered[i] + 1]
         /\ at' = at /\ registered[i] \in Nat
         /\ registered' \in [Iters -> 0 .. MaxFunctions] /\ held' \in Nat
         /\ UNCHANGED <<table, refs>>
<1>1. /\ iter[i] = "there" /\ iter' = iter /\ called' = called /\ at' = at
      /\ registered' = [registered EXCEPT ![i] = registered[i] + 1]
      /\ UNCHANGED <<table, refs>>
  BY DEF Register
<1>2. called[i] = <<>> /\ registered[i] \in Nat
  BY <1>1 DEF IteratorsInv, IteratorTypes, CallsInOrder
<1>3. CallsInOrder'
  BY <1>1, <1>2 DEF IteratorsInv, IteratorTypes, CallsInOrder, Order
<1> QED
  BY <1>1, <1>2, <1>3 DEF Register, IteratorsInv, IteratorTypes

\* The first registerCleanup() fills the cell inside the iterator (iterator.cpp).
LEMMA RegisterFirstStep ==
  ASSUME IteratorsInv, NEW i \in Iters, RegisterFirst(i)
  PROVE  IteratorsInv'
<1>1. PICK cell \in Places : Linked(cell) /\ Heads(cell)
  BY DEF IteratorsInv, ListsOK
<1>2. Register(i) /\ function[i] = 0 /\ UNCHANGED <<allocated, next>>
      /\ function' = [function EXCEPT ![i] = registered'[i]]
  BY DEF RegisterFirst
<1>3. /\ CallsInOrder'
      /\ iter' = iter /\ iter[i] = "there" /\ called' = called /\ called[i] = <<>>
      /\ registered' = [registered EXCEPT ![i] = registered[i] + 1]
      /\ at' = at /\ registered[i] \in Nat
      /\ registered' \in [Iters -> 0 .. MaxFunctions] /\ held' \in Nat
      /\ UNCHANGED <<table, refs>>
  BY <1>2, RegisterCalls
<1>4. registered[i] = 0 /\ registered'[i] = 1
  BY <1>1, <1>2, <1>3 DEF Heads, IteratorsInv, IteratorTypes
<1>5. Done(i) = 0 /\ Done(i)' = 0 /\ Top(i) = 0 /\ Top(i)' = 1
  BY <1>3, <1>4 DEF Done, Top
<1>6. IteratorTypes'
  BY <1>2, <1>3, <1>4 DEF IteratorsInv, IteratorTypes, Cells
<1>7. Others(i)
  BY <1>2, <1>3 DEF Others, Done, Top, IteratorsInv, IteratorTypes, Cells
<1>8. function'[i] = 1 /\ next'[i] = NULL
  BY <1>1, <1>2, <1>3, <1>4, <1>5 DEF Heads, IteratorsInv, IteratorTypes, Cells
<1>9. \A c \in Nodes : function'[c] = function[c] /\ next'[c] = next[c]
  BY <1>2 DEF IteratorsInv, IteratorTypes, Cells
<1>10. ListsOK'
  BY <1>1, <1>2, <1>3, <1>4, <1>5, <1>7, <1>8, <1>9, KeepsLists
<1> QED
  BY <1>2, <1>3, <1>6, <1>10, PendingRegister DEF IteratorsInv

\* ~Iterator() begins, at the cell inside the iterator or with nothing to do.
LEMMA DeleteStep ==
  ASSUME IteratorsInv, NEW i \in Iters, Delete(i)
  PROVE  IteratorsInv'
<1>1. PICK cell \in Places : Linked(cell) /\ Heads(cell)
  BY DEF IteratorsInv, ListsOK
<1>2. /\ iter[i] = "there"
      /\ UNCHANGED <<table, refs, held, allocated, function, next, registered, called>>
      /\ \/ /\ function[i] = 0 /\ iter' = [iter EXCEPT ![i] = "deleted"] /\ at' = at
         \/ /\ function[i] # 0 /\ iter' = [iter EXCEPT ![i] = "calling"]
            /\ at' = [at EXCEPT ![i] = i]
  BY DEF Delete, tableVars, listVars
<1>3. called[i] = <<>> /\ Len(called[i]) = 0 /\ registered[i] \in Nat
      /\ (function[i] = 0 <=> registered[i] = 0)
  BY <1>1, <1>2 DEF IteratorsInv, IteratorTypes, CallsInOrder, Heads
<1>4. IteratorTypes'
  BY <1>2 DEF IteratorsInv, IteratorTypes, Cells
<1>5. CallsInOrder'
  BY <1>2, <1>3 DEF IteratorsInv, IteratorTypes, CallsInOrder, Order
<1>6. Pending' = Pending /\ ReferencesOK'
  BY <1>2 DEF Pending, IteratorsInv, ReferencesOK
<1>7. Others(i)
  BY <1>2 DEF Others, Done, Top, IteratorsInv, IteratorTypes, Cells
<1>8. iter'[i] # "called" /\ iter'[i] # "there" /\ (iter'[i] = "calling" => at'[i] = i)
      /\ (iter'[i] = "calling" => registered[i] # 0)
  BY <1>2, <1>3 DEF IteratorsInv, IteratorTypes
<1>9. Done(i) = 0 /\ Done(i)' = 0 /\ Top(i)' = Top(i)
  BY <1>2, <1>3, <1>8 DEF Done, Top
<1>10. ListsOK'
  <2>1. /\ function[i] = IF registered[i] = 0 THEN 0 ELSE 1
        /\ next[i] = IF registered[i] <= 1 THEN NULL ELSE cell[i][registered[i]]
    BY <1>1, <1>2, <1>9 DEF Heads
  <2> QED
    BY <1>1, <1>2, <1>7, <1>8, <1>9, <2>1, KeepsLists
<1> QED
  BY <1>4, <1>5, <1>6, <1>10 DEF IteratorsInv

\* ~Iterator() calls the function of the cell it is at.
LEMMA CallStep ==
  ASSUME IteratorsInv, NEW i \in Iters, Call(i)
  PROVE  IteratorsInv'
<1>1. PICK cell \in Places : Linked(cell) /\ Heads(cell)
  BY DEF IteratorsInv, ListsOK
<1> DEFINE n == function[at[i]]
<1>2. /\ iter[i] = "calling" /\ iter' = [iter EXCEPT ![i] = "called"]
      /\ called' = [called EXCEPT ![i] = Append(@, n)]
      /\ UNCHANGED <<held, at, allocated, function, next, registered>>
      /\ table' \in {"deleted", table}
  BY DEF Call, Unref, listVars
<1>3. /\ n = Order(registered[i], Len(called[i]) + 1) /\ n \in 1 .. registered[i]
  BY <1>2, AtIsNext
<1> HIDE DEF n
<1>4. /\ Len(called[i]) \in Nat /\ Len(called[i]) < registered[i] /\ registered[i] \in Nat
      /\ called[i] \in Seq(Nat) /\ n \in Nat
  BY <1>2, <1>3 DEF IteratorsInv, IteratorTypes, CallsInOrder
<1>5. called'[i] = Append(called[i], n) /\ called'[i] \in Seq(Nat)
      /\ Len(called'[i]) = Len(called[i]) + 1 /\ iter'[i] = "called"
  BY <1>2, <1>4 DEF IteratorsInv, IteratorTypes
<1>6. IteratorTypes'
  BY <1>2, <1>5, PendingCall DEF IteratorsInv, IteratorTypes
<1>7. CallsInOrder'
  <2>1. ASSUME NEW k \in 1 .. Len(called'[i])
        PROVE  called'[i][k] = Order(registered[i], k)
    <3>1. CASE k = Len(called[i]) + 1
      BY <1>3, <1>4, <1>5, <3>1
    <3>2. CASE k \in 1 .. Len(called[i])
      <4>1. called'[i][k] = called[i][k]
        BY <1>4, <1>5, <3>2
      <4> QED
        BY <3>2, <4>1 DEF IteratorsInv, CallsInOrder
    <3> QED
      BY <1>4, <1>5, <3>1, <3>2
  <2>2. Len(called'[i]) \in 1 .. registered[i]
    BY <1>4, <1>5
  <2>3. \A j \in Iters \ {i} : called'[j] = called[j] /\ iter'[j] = iter[j]
    BY <1>2 DEF IteratorsInv, IteratorTypes
  <2> QED
    BY <1>2, <1>5, <2>1, <2>2, <2>3 DEF IteratorsInv, CallsInOrder, Order
<1>8. Others(i)
  BY <1>2 DEF Others, Done, Top, IteratorsInv, IteratorTypes, Cells
<1>9. Done(i)' = Done(i) /\ Top(i)' = Top(i)
  BY <1>2, <1>4, <1>5 DEF Done, Top
<1>10. ListsOK'
  <2>1. /\ function[i] = IF registered[i] = 0 THEN 0 ELSE 1
        /\ Done(i) = 0 =>
             next[i] = IF registered[i] <= 1 THEN NULL ELSE cell[i][registered[i]]
        /\ at[i] = IF Done(i) = 0 THEN i ELSE cell[i][Top(i)]
    BY <1>1, <1>2 DEF Heads
  <2> QED
    BY <1>1, <1>2, <1>8, <1>9, <2>1, KeepsLists
<1> QED
  BY <1>6, <1>7, <1>10, PendingCall DEF IteratorsInv

\* ~Iterator() goes on to the first cell of the heap, which is the last function's.
LEMMA AfterFirstStep ==
  ASSUME IteratorsInv, NEW i \in Iters, AfterFirst(i)
  PROVE  IteratorsInv'
<1>1. PICK cell \in Places : Linked(cell) /\ Heads(cell)
  BY DEF IteratorsInv, ListsOK
<1> DEFINE to == next[i]
<1>2. /\ iter[i] = "called" /\ at[i] = i
      /\ iter' = [iter EXCEPT ![i] = IF to = NULL THEN "deleted" ELSE "calling"]
      /\ at' = [at EXCEPT ![i] = to]
      /\ UNCHANGED <<table, refs, held, allocated, function, next, registered, called>>
  BY DEF AfterFirst, GoTo, tableVars, listVars
<1>3. /\ Len(called[i]) \in 1 .. registered[i] /\ registered[i] \in Nat
      /\ Len(called[i]) \in Nat
  BY <1>2 DEF IteratorsInv, IteratorTypes, CallsInOrder
<1>4. Done(i) = 0
  <2>1. SUFFICES ASSUME Done(i) # 0 PROVE FALSE
    OBVIOUS
  <2>2. at[i] = cell[i][Top(i)] /\ Top(i) \in OnHeap(i)
    BY <1>1, <1>2, <1>3, <2>1 DEF Heads, Top, Done, OnHeap
  <2>3. cell[i][Top(i)] \in Nodes
    BY <1>1, <2>2 DEF Linked, IteratorsInv, IteratorTypes
  <2> QED
    BY <1>2, <2>2, <2>3
<1>5. Len(called[i]) = 1 /\ Top(i) = registered[i]
  BY <1>2, <1>3, <1>4 DEF Done, Top
<1>6. /\ to = IF registered[i] <= 1 THEN NULL ELSE cell[i][registered[i]]
      /\ function[i] = IF registered[i] = 0 THEN 0 ELSE 1
  BY <1>1, <1>2, <1>4 DEF Heads
<1>7. to = NULL <=> registered[i] = 1
  <2>1. ASSUME registered[i] # 1 PROVE cell[i][registered[i]] \in Nodes
    <3>1. registered[i] \in OnHeap(i)
      BY <1>3, <1>5, <2>1 DEF OnHeap
    <3> QED
      BY <1>1, <3>1 DEF Linked, IteratorsInv, IteratorTypes
  <2> QED
    BY <1>3, <1>6, <2>1
<1> HIDE DEF to
<1>8. to \in Cells \cup {NULL}
  BY DEF to, IteratorsInv, IteratorTypes, Cells
<1>9. IteratorTypes'
  BY <1>2, <1>8 DEF IteratorsInv, IteratorTypes
<1>10. CallsInOrder'
  BY <1>2, <1>3, <1>5, <1>7 DEF IteratorsInv, IteratorTypes, CallsInOrder, Order
<1>11. Pending' = Pending /\ ReferencesOK'
  BY <1>2 DEF Pending, IteratorsInv, ReferencesOK
<1>12. Others(i)
  BY <1>2 DEF Others, Done, Top, IteratorsInv, IteratorTypes, Cells
<1>13. iter'[i] \in {"calling", "deleted"} /\ (iter'[i] = "calling" => registered[i] # 1)
       /\ at'[i] = to
  BY <1>2, <1>7 DEF IteratorsInv, IteratorTypes
<1>14. Done(i)' = 1 /\ Top(i)' = Top(i)
  BY <1>2, <1>3, <1>5, <1>13 DEF Done, Top
<1>15. ListsOK'
  BY <1>1, <1>2, <1>3, <1>5, <1>6, <1>12, <1>13, <1>14, KeepsLists
<1> QED
  BY <1>9, <1>10, <1>11, <1>15 DEF IteratorsInv

\* ~Iterator() deletes a cell and goes on to the one of the function before.
LEMMA AfterNextStep ==
  ASSUME IteratorsInv, NEW i \in Iters, AfterNext(i)
  PROVE  IteratorsInv'
<1>1. PICK cell \in Places : Linked(cell) /\ Heads(cell)
  BY DEF IteratorsInv, ListsOK
<1> DEFINE to == next[at[i]]
<1> DEFINE top == Top(i)
<1>2. /\ iter[i] = "called" /\ at[i] # i
      /\ iter' = [iter EXCEPT ![i] = IF to = NULL THEN "deleted" ELSE "calling"]
      /\ at' = [at EXCEPT ![i] = to]
      /\ allocated' = allocated \ {at[i]}
      /\ UNCHANGED <<table, refs, held, function, next, registered, called>>
  BY DEF AfterNext, GoTo, tableVars
<1>3. /\ Len(called[i]) \in 1 .. registered[i] /\ registered[i] \in Nat
      /\ Len(called[i]) \in Nat
  BY <1>2 DEF IteratorsInv, IteratorTypes, CallsInOrder
<1>4. at[i] = cell[i][top] /\ Done(i) # 0
  BY <1>1, <1>2 DEF Heads
<1>5. /\ Done(i) = Len(called[i]) - 1 /\ top = registered[i] + 2 - Len(called[i])
      /\ top \in Nat /\ top >= 2 /\ top \in OnHeap(i)
  BY <1>2, <1>3, <1>4 DEF Done, Top, OnHeap
<1>6. /\ cell[i][top] \in Nodes /\ cell[i][top] \in allocated
      /\ to = IF top = 2 THEN NULL ELSE cell[i][top - 1]
  BY <1>1, <1>4, <1>5 DEF Linked, IteratorsInv, IteratorTypes
<1>7. to = NULL <=> top = 2
  <2>1. ASSUME top # 2 PROVE cell[i][top - 1] \in Nodes
    <3>1. top - 1 \in OnHeap(i)
      BY <1>5, <2>1 DEF OnHeap
    <3> QED
      BY <1>1, <3>1 DEF Linked, IteratorsInv, IteratorTypes
  <2> QED
    BY <1>6, <2>1
<1>8. to \in Cells \cup {NULL}
  BY <1>4, <1>6 DEF IteratorsInv, IteratorTypes, Cells
<1> HIDE DEF to
<1>9. IteratorTypes'
  BY <1>2, <1>8 DEF IteratorsInv, IteratorTypes
<1>10. iter'[i] = IF to = NULL THEN "deleted" ELSE "calling"
  BY <1>2 DEF IteratorsInv, IteratorTypes
<1>11. CallsInOrder'
  <2>1. \A j \in Iters \ {i} : iter'[j] = iter[j] /\ called'[j] = called[j]
                               /\ registered'[j] = registered[j]
    BY <1>2 DEF IteratorsInv, IteratorTypes
  <2>2. /\ iter'[i] = "deleted" => Len(called[i]) = registered[i]
        /\ iter'[i] = "calling" => Len(called[i]) < registered[i]
    BY <1>3, <1>5, <1>7, <1>10
  <2> QED
    BY <1>2, <1>10, <2>1, <2>2 DEF IteratorsInv, CallsInOrder, Order
<1>12. Pending' = Pending /\ ReferencesOK'
  BY <1>2 DEF Pending, IteratorsInv, ReferencesOK
<1>13. Others(i)
  BY <1>2 DEF Others, Done, Top, IteratorsInv, IteratorTypes, Cells
<1>14. Done(i)' = Len(called[i]) /\ Top(i)' = top - 1 /\ Done(i)' # 0
  BY <1>2, <1>3, <1>5, <1>10 DEF Done, Top
<1>15. OnHeap(i)' = OnHeap(i) \ {top} /\ \A j \in Iters \ {i} : OnHeap(j)' = OnHeap(j)
  <2>1. OnHeap(i)' = 2 .. top - 1 /\ OnHeap(i) = 2 .. top
    BY <1>14 DEF OnHeap
  <2>2. 2 .. top - 1 = (2 .. top) \ {top}
    BY <1>5
  <2> QED
    BY <1>13, <2>1, <2>2 DEF OnHeap, Others
<1>16. Linked(cell)'
  <2>1. \A j \in Iters : OnHeap(j)' \subseteq OnHeap(j)
    BY <1>15
  <2>2. ASSUME NEW j \in Iters, NEW f \in OnHeap(j)', cell[j][f] = cell[i][top]
        PROVE  FALSE
    <3>1. j = i /\ f = top
      BY <1>1, <1>5, <2>1, <2>2 DEF Linked
    <3> QED
      BY <1>15, <2>2, <3>1
  <2>3. \A j \in Iters : \A f \in OnHeap(j)' :
          /\ cell[j][f] \in allocated' /\ function'[cell[j][f]] = f
          /\ next'[cell[j][f]] = IF f = 2 THEN NULL ELSE cell[j][f - 1]
    BY <1>1, <1>2, <1>4, <2>1, <2>2 DEF Linked
  <2>4. \A j, k \in Iters : \A f \in OnHeap(j)', g \in OnHeap(k)' :
          cell[j][f] = cell[k][g] => j = k /\ f = g
    BY <1>1, <2>1 DEF Linked
  <2>5. ASSUME NEW c \in allocated' PROVE \E j \in Iters : \E f \in OnHeap(j)' : c = cell[j][f]
    <3>1. c \in allocated /\ c # cell[i][top]
      BY <1>2, <1>4
    <3>2. PICK j \in Iters : \E f \in OnHeap(j) : c = cell[j][f]
      BY <1>1, <3>1 DEF Linked
    <3>3. PICK f \in OnHeap(j) : c = cell[j][f]
      BY <3>2
    <3>4. f \in OnHeap(j)'
      BY <1>15, <3>1, <3>3
    <3> QED
      BY <3>3, <3>4
  <2> QED
    BY <2>3, <2>4, <2>5 DEF Linked
<1>17. Heads(cell)'
  <2>1. ASSUME NEW j \in Iters \ {i}
        PROVE  /\ iter'[j] = iter[j] /\ at'[j] = at[j]
               /\ function'[j] = function[j] /\ next'[j] = next[j]
               /\ registered'[j] = registered[j]
               /\ Done(j)' = Done(j) /\ Top(j)' = Top(j)
    BY <1>13 DEF Others
  <2>2. iter'[i] = "calling" => at'[i] = cell[i][top - 1]
    BY <1>2, <1>6, <1>10 DEF IteratorsInv, IteratorTypes
  <2>3. function'[i] = IF registered'[i] = 0 THEN 0 ELSE 1
    BY <1>1, <1>2 DEF Heads
  <2> QED
    BY <1>1, <1>10, <1>14, <2>1, <2>2, <2>3 DEF Heads
<1>18. ListsOK'
  BY <1>16, <1>17 DEF ListsOK, Places
<1> QED
  BY <1>9, <1>11, <1>12, <1>18 DEF IteratorsInv

\* The next registerCleanup() puts a new cell behind the one inside the iterator.
LEMMA RegisterNextStep ==
  ASSUME IteratorsInv, NEW i \in Iters, RegisterNext(i)
  PROVE  IteratorsInv'
<1>1. PICK cell \in Places : Linked(cell) /\ Heads(cell)
  BY DEF IteratorsInv, ListsOK
<1>2. PICK c \in Nodes \ allocated :
        /\ allocated' = allocated \cup {c}
        /\ next' = [next EXCEPT ![c] = next[i], ![i] = c]
        /\ function' = [function EXCEPT ![c] = registered'[i]]
  BY DEF RegisterNext
<1>3. Register(i) /\ function[i] # 0
  BY DEF RegisterNext
<1> DEFINE n == registered[i]
<1>4. /\ CallsInOrder'
      /\ iter' = iter /\ iter[i] = "there" /\ called' = called /\ called[i] = <<>>
      /\ registered' = [registered EXCEPT ![i] = n + 1]
      /\ at' = at /\ n \in Nat
      /\ registered' \in [Iters -> 0 .. MaxFunctions] /\ held' \in Nat
      /\ UNCHANGED <<table, refs>>
  BY <1>3, RegisterCalls
<1>5. registered'[i] = n + 1 /\ n # 0 /\ function[i] = 1
  BY <1>1, <1>3, <1>4 DEF Heads, IteratorsInv, IteratorTypes
<1>6. Done(i) = 0 /\ Done(i)' = 0 /\ Top(i) = n /\ Top(i)' = n + 1
  BY <1>4, <1>5 DEF Done, Top
<1>7. next[i] = IF n <= 1 THEN NULL ELSE cell[i][n]
  BY <1>1, <1>4, <1>6 DEF Heads
<1>8. i \in Cells /\ c \in Cells /\ i # c /\ c \in Nodes
  BY DEF Cells
<1>9. IteratorTypes'
  <2>1. registered'[i] \in Nat /\ next[i] \in Cells \cup {NULL}
    BY <1>4, <1>5, <1>8 DEF IteratorsInv, IteratorTypes
  <2>2. allocated' \in SUBSET Nodes
    BY <1>2 DEF IteratorsInv, IteratorTypes
  <2>3. function' \in [Cells -> Nat] /\ next' \in [Cells -> Cells \cup {NULL}]
    BY <1>2, <1>8, <2>1 DEF IteratorsInv, IteratorTypes
  <2> QED
    BY <1>4, <2>2, <2>3 DEF IteratorsInv, IteratorTypes
<1>10. /\ function'[c] = n + 1 /\ next'[c] = next[i] /\ next'[i] = c /\ function'[i] = 1
       /\ \A d \in Cells \ {c, i} : function'[d] = function[d] /\ next'[d] = next[d]
  BY <1>2, <1>5, <1>8 DEF IteratorsInv, IteratorTypes
<1>11. Others(i)
  BY <1>4, <1>8, <1>10 DEF Others, Done, Top, IteratorsInv, IteratorTypes, Cells
<1>12. PICK cells \in Places : cells = [cell EXCEPT ![i] = [cell[i] EXCEPT ![n + 1] = c]]
  BY <1>4 DEF Places
<1>13. /\ cells[i][n + 1] = c /\ \A f \in Nat \ {n + 1} : cells[i][f] = cell[i][f]
       /\ \A j \in Iters \ {i} : cells[j] = cell[j]
  BY <1>4, <1>12 DEF Places
<1>14. /\ OnHeap(i)' = OnHeap(i) \cup {n + 1} /\ n + 1 \notin OnHeap(i)
       /\ \A j \in Iters \ {i} : OnHeap(j)' = OnHeap(j)
  <2>1. OnHeap(i)' = 2 .. n + 1 /\ OnHeap(i) = 2 .. n
    BY <1>6 DEF OnHeap
  <2>2. 2 .. n + 1 = (2 .. n) \cup {n + 1}
    BY <1>4, <1>5
  <2>3. n + 1 \notin 2 .. n
    BY <1>4
  <2>4. \A j \in Iters \ {i} : OnHeap(j)' = OnHeap(j)
    BY <1>11 DEF OnHeap, Others
  <2> QED
    BY <2>1, <2>2, <2>3, <2>4
<1>15. \A j \in Iters : \A f \in OnHeap(j) :
         /\ f \in Nat /\ cells[j][f] = cell[j][f]
         /\ cells[j][f] \in allocated /\ cells[j][f] \in Nodes
         /\ cells[j][f] # c /\ cells[j][f] # i
         /\ f # 2 => cells[j][f - 1] = cell[j][f - 1]
  <2>1. ASSUME NEW j \in Iters, NEW f \in OnHeap(j)
        PROVE  f \in Nat /\ f >= 2 /\ (f # 2 => f - 1 \in OnHeap(j))
    BY Numbers DEF OnHeap
  <2>2. \A j \in Iters : \A f \in OnHeap(j) : cell[j][f] \in allocated
    BY <1>1 DEF Linked
  <2>3. \A j \in Iters : \A f \in OnHeap(j) : cells[j][f] = cell[j][f]
    BY <1>13, <1>14, <2>1
  <2>4. \A d \in allocated : d # c /\ d # i /\ d \in Nodes
    BY <1>2 DEF IteratorsInv, IteratorTypes
  <2> QED
    BY <2>1, <2>2, <2>3, <2>4
<1>16. Linked(cells)'
  <2>1. ASSUME NEW j \in Iters, NEW f \in OnHeap(j)
        PROVE  /\ cells[j][f] \in allocated' /\ function'[cells[j][f]] = f
               /\ next'[cells[j][f]] = IF f = 2 THEN NULL ELSE cells[j][f - 1]
    <3>1. /\ function[cell[j][f]] = f
          /\ next[cell[j][f]] = IF f = 2 THEN NULL ELSE cell[j][f - 1]
      BY <1>1 DEF Linked
    <3>2. cell[j][f] \in Cells \ {c, i}
      BY <1>15 DEF Cells
    <3>3. /\ function'[cell[j][f]] = function[cell[j][f]]
          /\ next'[cell[j][f]] = next[cell[j][f]]
      BY <1>10, <3>2
    <3>4. cells[j][f] = cell[j][f] /\ (f # 2 => cells[j][f - 1] = cell[j][f - 1])
      BY <1>15
    <3>5. cells[j][f] \in allocated'
      BY <1>2, <1>15
    <3> QED
      BY <3>1, <3>3, <3>4, <3>5
  <2>2. ASSUME NEW f \in Nat, f = n + 1
        PROVE  /\ cells[i][f] \in allocated' /\ function'[cells[i][f]] = f
               /\ next'[cells[i][f]] = IF f = 2 THEN NULL ELSE cells[i][f - 1]
    <3>1. f - 1 = n /\ (f = 2 <=> n <= 1) /\ cells[i][n] = cell[i][n]
      BY <1>4, <1>5, <1>13, <2>2
    <3>2. next'[c] = IF n <= 1 THEN NULL ELSE cells[i][n]
      BY <1>7, <1>10, <3>1
    <3> QED
      BY <1>2, <1>10, <1>13, <2>2, <3>1, <3>2
  <2>3. \A j, k \in Iters : \A f \in OnHeap(j)', g \in OnHeap(k)' :
          cells[j][f] = cells[k][g] => j = k /\ f = g
    <3>1. \A j, k \in Iters : \A f \in OnHeap(j), g \in OnHeap(k) :
            cells[j][f] = cells[k][g] => j = k /\ f = g
      BY <1>1, <1>15 DEF Linked
    <3> QED
      BY <1>13, <1>14, <1>15, <3>1
  <2>4. \A d \in allocated' : \E j \in Iters : \E f \in OnHeap(j)' : d = cells[j][f]
    <3>1. \A d \in allocated : \E j \in Iters : \E f \in OnHeap(j) : d = cells[j][f]
      BY <1>1, <1>15 DEF Linked
    <3> QED
      BY <1>2, <1>13, <1>14, <3>1
  <2>5. \A j \in Iters : \A f \in OnHeap(j)' :
          f \in OnHeap(j) \/ (j = i /\ f = n + 1)
    BY <1>14
  <2>6. \A j \in Iters : \A f \in OnHeap(j)' :
          /\ cells[j][f] \in allocated' /\ function'[cells[j][f]] = f
          /\ next'[cells[j][f]] = IF f = 2 THEN NULL ELSE cells[j][f - 1]
    <3>1. ASSUME NEW j \in Iters, NEW f \in OnHeap(j)'
          PROVE  /\ cells[j][f] \in allocated' /\ function'[cells[j][f]] = f
                 /\ next'[cells[j][f]] = IF f = 2 THEN NULL ELSE cells[j][f - 1]
      <4>1. CASE f \in OnHeap(j)
        BY <2>1, <4>1
      <4>2. CASE j = i /\ f = n + 1
        BY <1>4, <2>2, <4>2
      <4> QED
        BY <2>5, <4>1, <4>2
    <3> QED
      BY <3>1
  <2> QED
    BY <2>3, <2>4, <2>6 DEF Linked
<1>17. Heads(cells)'
  <2>1. ASSUME NEW j \in Iters \ {i}
        PROVE  /\ iter'[j] = iter[j] /\ at'[j] = at[j]
               /\ function'[j] = function[j] /\ next'[j] = next[j]
               /\ registered'[j] = registered[j]
               /\ Done(j)' = Done(j) /\ Top(j)' = Top(j) /\ cells[j] = cell[j]
    BY <1>11, <1>13 DEF Others
  <2> QED
    BY <1>1, <1>4, <1>5, <1>6, <1>10, <1>13, <2>1 DEF Heads
<1>18. ListsOK'
  BY <1>12, <1>16, <1>17 DEF ListsOK, Places
<1> QED
  BY <1>3, <1>4, <1>9, <1>18, PendingRegister DEF IteratorsInv

-----------------------------------------------------------------------------

\* At the start there is no table and no iterator.
LEMMA IteratorsStart == IteratorsInit => IteratorsInv
<1> SUFFICES ASSUME IteratorsInit PROVE IteratorsInv
  OBVIOUS
<1>1. IteratorTypes
  BY DEF IteratorsInit, IteratorTypes
<1>2. CallsInOrder
  BY DEF IteratorsInit, CallsInOrder
<1>3. Pending = {}
  BY DEF IteratorsInit, Pending
<1>4. ReferencesOK
  BY <1>3, FS_EmptySet DEF IteratorsInit, ReferencesOK
<1>5. \A i \in Iters : Top(i) = 0
  BY DEF IteratorsInit, Top, Done
<1>6. \A i \in Iters : OnHeap(i) = {}
  BY <1>5 DEF OnHeap
<1> DEFINE cell == [i \in Iters |-> [n \in Nat |-> NULL]]
<1>7. cell \in Places
  BY DEF Places
<1> HIDE DEF cell
<1>8. Linked(cell) /\ Heads(cell)
  BY <1>6 DEF IteratorsInit, Linked, Heads
<1> QED
  BY <1>1, <1>2, <1>4, <1>7, <1>8 DEF IteratorsInv, ListsOK

\* Every step of the clients and of the destructors preserves the invariant.
LEMMA IteratorsStep == IteratorsInv /\ [IteratorsNext]_iteratorVars => IteratorsInv'
<1> SUFFICES ASSUME IteratorsInv, [IteratorsNext]_iteratorVars PROVE IteratorsInv'
  OBVIOUS
<1>1. CASE NewTable \/ ref \/ unref
  BY <1>1, TableSteps
<1>2. ASSUME NEW i \in Iters,
             \/ newIterator(i) \/ RegisterFirst(i) \/ RegisterNext(i)
             \/ Delete(i) \/ Call(i) \/ AfterFirst(i) \/ AfterNext(i)
      PROVE  IteratorsInv'
  BY <1>2, NewIteratorStep, RegisterFirstStep, RegisterNextStep, DeleteStep, CallStep,
     AfterFirstStep, AfterNextStep
<1>3. CASE UNCHANGED iteratorVars
  <2>1. UNCHANGED <<table, refs, held, iter, at, called>>
        /\ UNCHANGED <<allocated, function, next, registered>>
    BY <1>3 DEF iteratorVars, tableVars, listVars
  <2>2. IteratorTypes' /\ CallsInOrder'
    BY <2>1 DEF IteratorsInv, IteratorTypes, CallsInOrder
  <2>3. ListsOK'
    BY <2>1 DEF IteratorsInv, ListsOK, Linked, Heads, OnHeap, Top, Done
  <2>4. ReferencesOK'
    BY <2>1 DEF IteratorsInv, ReferencesOK, Pending
  <2> QED
    BY <2>2, <2>3, <2>4 DEF IteratorsInv
<1> QED
  BY <1>1, <1>2, <1>3 DEF IteratorsNext

\* A table is not deleted before the last function that still has to be called with
\* it, for any number of iterators and functions (iterator.cpp, Iterator::~Iterator).
THEOREM TableIsThere == IteratorsSpec => []TableOutlivesUsers
<1>1. IteratorsSpec => []IteratorsInv
  BY IteratorsStart, IteratorsStep, PTL DEF IteratorsSpec
<1> QED
  BY <1>1, IteratorsInvImplies, PTL

\* Every registered function is called once, the first first and the others from the
\* last to the second, and no cell of the list is lost (iterator.cpp, iterator.h).
THEOREM CleanupsRun == IteratorsSpec => []CleanupsRunOnce
<1>1. IteratorsSpec => []IteratorsInv
  BY IteratorsStart, IteratorsStep, PTL DEF IteratorsSpec
<1> QED
  BY <1>1, IteratorsInvImplies, PTL
=============================================================================
