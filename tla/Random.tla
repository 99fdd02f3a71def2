------------------------------- MODULE Random -------------------------------
(***************************************************************************)
(* The generator of src/random.h, and SkipList::randomHeight that draws    *)
(* from it.  The code computes seed_ * A in 32 bits before it widens the   *)
(* product, so this is not the generator modulo 2^31 - 1 that A belongs    *)
(* to.  Half is 2^31 in the code; the word has one bit more.               *)
(***************************************************************************)
EXTENDS Naturals

CONSTANTS
  Half,        \* 2^31
  A,           \* 16807
  Seeds,       \* what the constructor is given: uint32_t values
  kBranching,  \* 4
  kMaxHeight   \* 12

M == Half - 1

\* The last conjunct is true of an odd A and a power of two; RandomProofs shows it of
\* the code's numbers.
ASSUME RandomAssumption ==
  /\ Half \in Nat \ {0, 1} /\ A \in Nat
  /\ Seeds \subseteq 0 .. 2 * Half - 1
  /\ kBranching \in Nat \ {0} /\ kMaxHeight \in Nat \ {0}
  /\ \A s \in 1 .. M : (s * A) % (2 * Half) # 0

VARIABLES
  seed,     \* seed_
  seeded,   \* history: what the constructor made of its argument
  height,   \* height of randomHeight()
  drawing   \* randomHeight() is in its loop

randomVars == <<seed, seeded, height, drawing>>

-----------------------------------------------------------------------------

\* Random::Random: s & 0x7fffffff
RandomInit ==
  /\ \E s \in Seeds : seed = s % Half
  /\ seeded = seed
  /\ height = 1 /\ drawing = FALSE

\* Advance as it must not be: seed_ >= M
AdvanceLow(s) ==
  LET product == (s * A) % (2 * Half)
      sum == (product \div Half) + (product % Half)
  IN  IF sum >= M THEN sum - M ELSE sum

\* Random::next
Advance(s) ==
  LET product == (s * A) % (2 * Half)
      sum == (product \div Half) + (product % Half)
  IN  IF sum > M THEN sum - M ELSE sum

randomHeight ==
  /\ ~drawing
  /\ drawing' = TRUE /\ height' = 1
  /\ UNCHANGED <<seed, seeded>>

\* The loop: what it does with the number that next() returns
Draw ==
  /\ drawing /\ height < kMaxHeight
  /\ seed' = Advance(seed)
  /\ IF seed' % kBranching = 0
     THEN height' = height + 1 /\ UNCHANGED drawing
     ELSE drawing' = FALSE /\ UNCHANGED height
  /\ UNCHANGED seeded

\* It does not draw at the largest height.
DrawLast ==
  /\ drawing /\ height >= kMaxHeight
  /\ drawing' = FALSE
  /\ UNCHANGED <<seed, seeded, height>>

RandomNext == randomHeight \/ Draw \/ DrawLast

RandomSpec == RandomInit /\ [][RandomNext]_randomVars

-----------------------------------------------------------------------------
(* Properties *)

\* A generator never falls into 0, from where it would give every node of the
\* skip list the largest height for ever, unless it was made there; and the
\* heights are those that randomHeight() asserts (random.h:19-31,
\* skiplist.h:212-213).
SeedLives ==
  /\ seed \in 0 .. M
  /\ seed = 0 <=> seeded = 0
  /\ height \in 1 .. kMaxHeight
=============================================================================
