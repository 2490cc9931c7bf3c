------------------------------- MODULE Codec -------------------------------
(***************************************************************************)
(* Values and register words: to_raw, encode, decode, raw_range and        *)
(* active_bits of register_defs.py.                                        *)
(*                                                                         *)
(* A value is counted in a grid that is finer than the steps of a          *)
(* register: scale is the number of grid units of one step.  A value read  *)
(* lies on a step.                                                         *)
(***************************************************************************)
EXTENDS Integers, Sequences, Functions

CONSTANT WordBits           \* the bits of a word, 16 in Modbus

ASSUME WordAssumption == WordBits \in Nat \ {0}

Types == [signed : BOOLEAN, words : {1, 2}]         \* u16, s16, u32, s32

Bits(type) == WordBits * type.words
Word == 0..(2^WordBits - 1)

Magnitude(n) == IF n < 0 THEN -n ELSE n

\* Mutant of ToRaw: the nearest step, a half always up.
ToRawUp(value, scale) == (2 * value + scale) \div (2 * scale)

\* to_raw: the nearest step, a half away from zero.
ToRaw(value, scale) ==
  LET steps == (2 * Magnitude(value) + scale) \div (2 * scale)
  IN IF value < 0 THEN -steps ELSE steps

\* raw_range.
RawRange(type) ==
  IF type.signed THEN -(2^(Bits(type) - 1))..(2^(Bits(type) - 1) - 1)
  ELSE 0..(2^Bits(type) - 1)

Encodable(value, type, scale) == ToRaw(value, scale) \in RawRange(type)

\* encode of an encodable value, the high word first.
Encode(value, type, scale) ==
  LET raw == ToRaw(value, scale)
      unsigned == IF raw < 0 THEN raw + 2^Bits(type) ELSE raw
  IN [n \in 1..type.words |->
        (unsigned \div 2^(WordBits * (type.words - n))) % 2^WordBits]

\* Mutant of Unsigned: the low word first.
UnsignedLowFirst(words) ==
  LET sum[n \in 0..Len(words)] ==
        IF n = 0 THEN 0 ELSE sum[n - 1] * 2^WordBits + words[Len(words) + 1 - n]
  IN sum[Len(words)]

\* The number that the words stand for.
Unsigned(words) ==
  LET sum[n \in 0..Len(words)] ==
        IF n = 0 THEN 0 ELSE sum[n - 1] * 2^WordBits + words[n]
  IN sum[Len(words)]

\* decode.
Decode(words, type, scale) ==
  LET raw == Unsigned(words)
  IN scale * (IF type.signed /\ raw >= 2^(Bits(type) - 1) THEN raw - 2^Bits(type)
              ELSE raw)

\* active_bits of a register of that many words.
ActiveBits(raw, words) ==
  {bit \in 0..(WordBits * words - 1) : (raw \div 2^bit) % 2 = 1}

-----------------------------------------------------------------------------
\* The step nearest to a value, a half away from zero.
Nearest(value, raw, scale) ==
  /\ 2 * Magnitude(value - raw * scale) <= scale
  /\ 2 * Magnitude(value - raw * scale) = scale => Magnitude(raw * scale) > Magnitude(value)

\* What encode, decode and active_bits agree on for a value.
Agreed(value, type, scale) ==
  \E raw \in -Magnitude(value)..Magnitude(value) :
    /\ Nearest(value, raw, scale)
    /\ Encodable(value, type, scale) <=>
         \E words \in [1..type.words -> Word] : Decode(words, type, scale) = raw * scale
    /\ Encodable(value, type, scale) =>
         LET words == Encode(value, type, scale)
         IN /\ words \in [1..type.words -> Word]
            /\ Decode(words, type, scale) = raw * scale
            /\ ~type.signed => raw = SumFunction([bit \in ActiveBits(raw, type.words) |-> 2^bit])
=============================================================================
