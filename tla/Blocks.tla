------------------------------- MODULE Blocks -------------------------------
(***************************************************************************)
(* Block reads: build_blocks of coordinator.py.  A register is a record of *)
(* its address and its number of words.                                    *)
(***************************************************************************)
EXTENDS Integers, Sequences, SequencesExt

CONSTANTS
  MaxBlockSize,       \* MAX_BLOCK_SIZE, in words
  Registers           \* the readable ones of REGISTERS

End(reg) == reg.address + reg.words         \* exclusive

\* The table of registers gives no word to two of them.
ASSUME BlockAssumption ==
  /\ MaxBlockSize \in Nat \ {0}
  /\ IsFiniteSet(Registers)
  /\ \A reg \in Registers : reg.address \in Nat /\ reg.words \in 1..MaxBlockSize
  /\ \A a, b \in Registers : a # b => End(a) <= b.address \/ End(b) <= a.address

\* sorted by the address.
Sorted(defs) ==
  CHOOSE regs \in [1..Cardinality(defs) -> defs] :
    \A m, n \in 1..Cardinality(defs) : m < n => regs[m].address < regs[n].address

\* Mutant of Joins: the limit is checked before the register is added.
JoinsBeyondLimit(block, reg) ==
  /\ reg.address = End(Last(block))
  /\ reg.address - Head(block).address <= MaxBlockSize

\* A register is directly adjacent to the block, and the block stays in its size.
Joins(block, reg) ==
  /\ reg.address = End(Last(block))
  /\ End(reg) - Head(block).address <= MaxBlockSize

Added(blocks, reg) ==
  IF blocks # <<>> /\ Joins(Last(blocks), reg)
  THEN Append(Front(blocks), Append(Last(blocks), reg))
  ELSE Append(blocks, <<reg>>)

\* The blocks, each the sequence of its registers, in the order of addresses.
BuildBlocks(defs) == FoldLeft(Added, <<>>, Sorted(defs))

-----------------------------------------------------------------------------
RegistersOf(block) == {block[n] : n \in DOMAIN block}
StartOf(block) == Head(block).address
EndOf(block) == End(Last(block))

\* The words that a set of registers covers.
Covered(regs) == UNION {reg.address..(End(reg) - 1) : reg \in regs}

\* A block reads its registers and no word between them, and is not too long.
Whole(block) ==
  /\ Covered(RegistersOf(block)) = StartOf(block)..(EndOf(block) - 1)
  /\ EndOf(block) - StartOf(block) <= MaxBlockSize

\* A block could not go on with the first register of the next one.
Apart(block, next) ==
  \/ EndOf(block) < StartOf(next)
  \/ EndOf(block) = StartOf(next) /\ End(Head(next)) - StartOf(block) > MaxBlockSize

\* What the blocks for a set of registers are.
Blocked(blocks, defs) ==
  /\ defs = UNION {RegistersOf(blocks[n]) : n \in DOMAIN blocks}
  /\ \A n \in DOMAIN blocks : Whole(blocks[n])
  /\ \A n \in 1..(Len(blocks) - 1) : Apart(blocks[n], blocks[n + 1])
=============================================================================
