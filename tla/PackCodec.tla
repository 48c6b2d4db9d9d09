------------------------------ MODULE PackCodec ------------------------------
(***************************************************************************)
(* The numbers of a packfile (packfile/writer.go, packfile/reader.go): the *)
(* size in an object's header and the distance of an offset delta to its   *)
(* base.  A byte is a digit plus, when another byte follows, the           *)
(* continuation bit.  The digits are scaled: Nibble stands for 16 (the     *)
(* low bits of the first byte of a size) and Radix for 128.                *)
(***************************************************************************)
EXTENDS Integers, SequencesExt

CONSTANTS
    Nibble,             \* values of the first digit of a size
    Radix,              \* values of any other digit
    MaxOffsetBytes      \* bytes readOffset accepts, 8 in the code

ASSUME CodecAssumption ==
    /\ Nibble \in Nat \ {0, 1}
    /\ Radix \in Nat \ {0, 1}
    /\ MaxOffsetBytes \in Nat \ {0}

varint[x \in Nat] ==
    IF x < Radix THEN <<x>> ELSE <<(x % Radix) + Radix>> \o varint[x \div Radix]

\* The type shares the first byte with the size; it is kept apart in the
\* header token.
appendLengthType(n) ==
    IF n >= Nibble THEN <<(n % Nibble) + Nibble>> \o varint[n \div Nibble]
                   ELSE <<n>>

\* Big-endian, and every digit but the last counts from 1: the code writes
\* the digits last to first and reverses them.
offsetDigits[x \in Nat] ==
    LET rest == x \div Radix
    IN  IF rest = 0
          THEN <<>>
          ELSE offsetDigits[rest - 1] \o <<((rest - 1) % Radix) + Radix>>

\* A slip: the digits of a size, last to first.
appendOffsetAsVarint(distance) == Reverse(varint[distance])

appendOffset(distance) == offsetDigits[distance] \o <<distance % Radix>>

-----------------------------------------------------------------------------

\* The bytes from the last to the first: the value of the last n.
uvarint(bytes) ==
    LET value[n \in 0..Len(bytes)] ==
          IF n = 0 THEN 0
          ELSE (bytes[Len(bytes) + 1 - n] % Radix) + (Radix * value[n - 1])
    IN  value[Len(bytes)]

readLengthType(bytes) ==
    LET low == Head(bytes) % Nibble
    IN  IF Head(bytes) < Nibble THEN low ELSE low + (Nibble * uvarint(Tail(bytes)))

power[n \in Nat] == IF n = 0 THEN 1 ELSE Radix * power[n - 1]

\* The distance back to the base, or -1 when the number is too long: what
\* bits and accum are after n bytes.
readOffset(bytes) ==
    LET bits[n \in 0..Len(bytes)] ==
          IF n = 0 THEN 0 ELSE (Radix * bits[n - 1]) + (bytes[n] % Radix)
        accum[n \in 0..Len(bytes)] ==
          IF n < 2 THEN 0 ELSE accum[n - 1] + power[n - 1]
    IN  IF Len(bytes) > MaxOffsetBytes
          THEN -1
          ELSE bits[Len(bytes)] + accum[Len(bytes)]

=============================================================================
