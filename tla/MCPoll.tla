------------------------------- MODULE MCPoll -------------------------------
(***************************************************************************)
(* Polls of a few registers for TLC: the clock and the lock of the off     *)
(* level are read in one block, the language in another.                   *)
(***************************************************************************)
EXTENDS Poll

MCRegisters ==
  {[key |-> "clock_deviation", address |-> 100, words |-> 6],
   [key |-> "off_lock", address |-> 106, words |-> 1],
   [key |-> "language", address |-> 108, words |-> 1]}

B == INSTANCE Blocks WITH MaxBlockSize <- 100, Registers <- MCRegisters

MCKeys == {reg.key : reg \in MCRegisters}
MCBlocks == << <<"clock_deviation", "off_lock">>, <<"language">> >>

\* These are the blocks that build_blocks makes of them.
ASSUME BlocksOfRegisters ==
  LET built == B!BuildBlocks(MCRegisters)
  IN MCBlocks = [n \in DOMAIN built |-> [k \in DOMAIN built[n] |-> built[n][k].key]]
=============================================================================
