-------------------------------- MODULE Words --------------------------------
(***************************************************************************)
(* The library's arithmetic without state: counting, reversing and copying *)
(* bits (core/bin_utils.cpp), the integer types that hold a range          *)
(* (core/integer.hpp, core/constexpr_maths.hpp) and three-valued logic     *)
(* (core/kleene_logic.hpp).  A word is the sequence of its bytes, the low  *)
(* one first, as the code takes words apart with reinterpret_cast.         *)
(*                                                                         *)
(* Nothing happens here: a state is one call, chosen at the start.         *)
(***************************************************************************)
EXTENDS Integers, Sequences, FiniteSets, SequencesExt, FiniteSetsExt

CONSTANTS
    Buffers,    \* the byte sequences that are counted and reversed
    Memories,   \* the bits, by address, that are copied from and to
    Offsets,    \* the offsets and
    Counts,     \*   numbers of bits that are copied
    Bounds,     \* the ends of the ranges
    Widths      \* the BITS of an integer

ASSUME WordsAssumption ==
    /\ Offsets \cup Counts \cup Widths \subseteq Nat
    /\ Bounds \subseteq Int

VARIABLE call   \* the operation and what it is called with

KleeneValues == {"FALSE", "UNKNOWN", "TRUE"}

Calls == [op : {"buffer"}, bytes : Buffers]
         \cup [op : {"copy"}, out : Offsets, in : Offsets, bits : Counts]
         \cup [op : {"range"}, low : Bounds, high : Bounds]
         \cup [op : {"integer"}, bits : Widths]
         \cup [op : {"kleene"}, a : KleeneValues, b : KleeneValues]

WordsInit == call \in Calls
WordsSpec == WordsInit /\ [][UNCHANGED call]_call

------------------------------------------------------------------------------

POPCOUNT == <<0, 1, 1, 2, 1, 2, 2, 3, 1, 2, 2, 3, 2, 3, 3, 4>>
REFLECT == <<0, 8, 4, 12, 2, 10, 6, 14, 1, 9, 5, 13, 3, 11, 7, 15>>

PopcountByte(v) == POPCOUNT[(v % 16) + 1] + POPCOUNT[(v \div 16) + 1]

(* Mutant: the halves of a byte stay where they are. *)
ReflectByteHalves(v) == REFLECT[(v % 16) + 1] + 16 * REFLECT[(v \div 16) + 1]

ReflectByte(v) == 16 * REFLECT[(v % 16) + 1] + REFLECT[(v \div 16) + 1]

LowHalf(w) == SubSeq(w, 1, Len(w) \div 2)
HighHalf(w) == SubSeq(w, Len(w) \div 2 + 1, Len(w))

(* popcount and reflect of a word of one, two, four or eight bytes. *)
RECURSIVE PopcountWord(_)
PopcountWord(w) == IF Len(w) = 1 THEN PopcountByte(w[1])
                   ELSE PopcountWord(LowHalf(w)) + PopcountWord(HighHalf(w))

RECURSIVE ReflectWord(_)
ReflectWord(w) == IF Len(w) = 1 THEN <<ReflectByte(w[1])>>
                  ELSE ReflectWord(HighHalf(w)) \o ReflectWord(LowHalf(w))

(* Mutant: a last single byte is not counted. *)
PopcountBufferEven(bytes) ==
    LET ones[left \in 0..Len(bytes)] ==
            IF left <= 1 THEN 0
            ELSE LET n == Max({m \in {2, 4, 8} : m <= left})
                     at == Len(bytes) - left
                 IN PopcountWord(SubSeq(bytes, at + 1, at + n)) + ones[left - n]
    IN ones[Len(bytes)]

(* popcount of a buffer: always the largest word that is left. *)
PopcountBuffer(bytes) ==
    LET ones[left \in 0..Len(bytes)] ==
            IF left = 0 THEN 0
            ELSE LET n == Max({m \in {1, 2, 4, 8} : m <= left})
                     at == Len(bytes) - left
                 IN PopcountWord(SubSeq(bytes, at + 1, at + n)) + ones[left - n]
    IN ones[Len(bytes)]

(* reflect of a buffer into another one, or into itself: then the second    *)
(* half of what is read has been written already.                           *)
ReflectBuffer(bytes) == [i \in DOMAIN bytes |-> ReflectByte(bytes[Len(bytes) + 1 - i])]

ReflectInPlace(bytes) ==
    LET n == Len(bytes)
        after[k \in 0..n] == IF k = 0 THEN bytes
                             ELSE [after[k - 1] EXCEPT ![n + 1 - k] = ReflectByte(after[k - 1][k])]
    IN after[n]

(* read_bits.  Both places are taken from the offset of the output.  A mask *)
(* goes on in the next byte behind bit 6; from bit 7 it becomes zero (bit   *)
(* 8), which copies nothing and stays zero.                                 *)
PlaceAt(offset) == [byte |-> offset \div 8, bit |-> offset % 8]
Advanced(p) == CASE p.bit = 6 -> [byte |-> p.byte + 1, bit |-> 0]
                 [] p.bit = 8 -> p
                 [] OTHER -> [p EXCEPT !.bit = @ + 1]
PlacesFrom(offset, bits) ==
    LET at[i \in 0..bits] == IF i = 0 THEN PlaceAt(offset) ELSE Advanced(at[i - 1])
    IN {8 * at[i].byte + at[i].bit : i \in {j \in 0..(bits - 1) : at[j].bit < 8}}

(* Mutant: bits are set, none is cleared. *)
ReadBitsSets(out, outOffset, in, inOffset, bits) ==
    LET places == PlacesFrom(outOffset, bits)
    IN [a \in DOMAIN out |-> IF a \in places /\ in[a] = 1 THEN 1 ELSE out[a]]

ReadBits(out, outOffset, in, inOffset, bits) ==
    LET places == PlacesFrom(outOffset, bits)
    IN [a \in DOMAIN out |-> IF a \in places THEN in[a] ELSE out[a]]

------------------------------------------------------------------------------

(* pow_constexpr of two.  The base is squared once more than it is needed,  *)
(* so that an int overflows from 2^16 on, and the expression is no constant.*)
RECURSIVE Pow(_, _, _)
Pow(base, exp, result) ==
    IF exp < 1 THEN result
    ELSE Pow(base * base, exp \div 2, IF exp % 2 = 1 THEN result * base ELSE result)

Constant(bits) == bits < 16

u_max(bits) == Pow(2, bits, 1) - 1

(* Mutant: rounded down. *)
i_max_half(bits) == u_max(bits) \div 2
i_max(bits) == u_max(bits) \div 2 + 1
i_min(bits) == -i_max(bits)

(* range_bits_u and range_bits_i: the first number of bits that will do, 0  *)
(* for none; none behind the last constant one is looked at.                *)
First(bits) == IF bits = {} THEN 0 ELSE Min(bits)
range_bits_u(low, high) ==
    First({b \in 1..64 : Constant(b) /\ high <= u_max(b)})
range_bits_i(low, high) ==
    First({b \in 1..64 : Constant(b) /\ low >= i_min(b) /\ high <= i_max(b)})

integer_from_range(low, high) ==
    IF low < 0 THEN range_bits_i(low, high) ELSE range_bits_u(low, high)

(* integer_container: the bits of the type that keeps an integer. *)
Container(bits) == Min({c \in {1, 8, 16, 32, 64} : bits <= c})

(* A value as a signed container keeps it. *)
Kept(v, c) == ((v + 2^(c - 1)) % 2^c) - 2^(c - 1)

(* Mutant: the condition in parentheses. *)
BYTES_TOTAL_meant(bits) == (bits \div 8) + IF bits % 8 = 0 THEN 0 ELSE 1

(* The sum is the condition of the conditional, not what is added to it. *)
BYTES_TOTAL(bits) ==
    LET aligned == IF bits % 8 = 0 THEN 1 ELSE 0
    IN IF (bits \div 8) + aligned # 0 THEN 0 ELSE 1

MAX_VALUE(bits) == Kept(i_max(bits), Container(bits))
MIN_VALUE(bits) == Kept(i_min(bits), Container(bits))

------------------------------------------------------------------------------

(* A kleene keeps FALSE, UNKNOWN and TRUE in that order. *)
Rank(k) == CASE k = "FALSE" -> 0 [] k = "UNKNOWN" -> 1 [] k = "TRUE" -> 2

Negated(k) == CASE k = "TRUE" -> "FALSE" [] k = "FALSE" -> "TRUE" [] OTHER -> "UNKNOWN"

(* Mutant: what is unknown makes the result unknown. *)
BothUnknown(a, b) == IF "UNKNOWN" \in {a, b} THEN "UNKNOWN" ELSE IF Rank(a) < Rank(b) THEN a ELSE b
Both(a, b) == IF Rank(a) < Rank(b) THEN a ELSE b
Either(a, b) == IF Rank(a) > Rank(b) THEN a ELSE b

------------------------------------------------------------------------------

BitOf(v, i) == (v \div 2^i) % 2
BitsOf(bytes) == [a \in 0..(8 * Len(bytes) - 1) |-> BitOf(bytes[(a \div 8) + 1], a % 8)]
IsWord(bytes) == Len(bytes) \in {1, 2, 4, 8}

(* popcount of a word or a buffer counts the bits that are set. *)
PopcountCountsOnes ==
    call.op = "buffer" =>
        LET bits == BitsOf(call.bytes)
            ones == Cardinality({a \in DOMAIN bits : bits[a] = 1})
        IN /\ PopcountBuffer(call.bytes) = ones
           /\ IsWord(call.bytes) => PopcountWord(call.bytes) = ones

(* reflect reverses the bits of a word and of a buffer.  In place it leaves *)
(* the first half as it is and makes the second one its reflection.         *)
ReflectReverses ==
    call.op = "buffer" =>
        LET b == call.bytes
            n == Len(b)
            bits == BitsOf(b)
            reversed == [a \in DOMAIN bits |-> bits[8 * n - 1 - a]]
            inPlace == ReflectInPlace(b)
        IN /\ BitsOf(ReflectBuffer(b)) = reversed
           /\ IsWord(b) => BitsOf(ReflectWord(b)) = reversed
           /\ \A i \in 1..n :
                inPlace[i] = IF 2 * i <= n THEN b[i] ELSE ReflectByte(b[n + 1 - i])

(* The memory behind a copy of the bits that read_bits is asked for.        *)
Copied(out, outOffset, in, inOffset, bits) ==
    [a \in DOMAIN out |-> IF a \in outOffset..(outOffset + bits - 1)
                          THEN in[a - outOffset + inOffset] ELSE out[a]]

(* What its documentation says of it (bin_utils.cpp:34, 36 and 38): "Copy a *)
(* number of bits from one location to another", each with an offset of its *)
(* own.                                                                     *)
ReadBitsCopies ==
    call.op = "copy" =>
        \A m, n \in Memories : ReadBits(m, call.out, n, call.in, call.bits)
                                  = Copied(m, call.out, n, call.in, call.bits)

(* It does so only if both offsets are the same and no bit 7 is crossed.    *)
ReadBitsOnlyStraight ==
    call.op = "copy" =>
        (ReadBitsCopies <=> \/ call.bits = 0
                            \/ /\ call.out = call.in
                               /\ (call.out % 8) + call.bits <= 7 \/ call.bits = 1)

(* The integer type for a range: with a negative low end a high end of      *)
(* 2^(n - 1) gets n bits, which do not hold it.  There is no type for a     *)
(* range beyond 15 bits.                                                    *)
Holds(bits, signed, low, high) ==
    IF signed THEN -(2^(bits - 1)) <= low /\ high < 2^(bits - 1) ELSE high < 2^bits

(* It holds the range, with the fewest bits that do, but for those ends.    *)
RangeFitsButForPowers ==
    call.op = "range" /\ call.low <= call.high =>
        LET bits == integer_from_range(call.low, call.high)
            signed == call.low < 0
        IN /\ bits # 0 => /\ Holds(bits, signed, call.low, call.high)
                               <=> ~(signed /\ call.high = 2^(bits - 1))
                          /\ \A b \in 1..(bits - 1) : ~Holds(b, signed, call.low, call.high)
           /\ bits = 0 => ~Holds(15, signed, call.low, call.high)

(* The number of bytes an integer needs, and the largest value a signed one *)
(* holds, are what BYTES_TOTAL and MAX_VALUE say they are.                  *)
BytesTotalStores(bits) == BYTES_TOTAL(bits) = (bits + 7) \div 8
MaxValueIsStored(bits) == MAX_VALUE(bits) = 2^(bits - 1) - 1

(* The bytes are right only below eight bits, and the largest signed value  *)
(* is one too large; where that does not fit in the container, it is the    *)
(* smallest one.                                                            *)
IntegerLimits ==
    call.op = "integer" =>
        /\ BytesTotalStores(call.bits) <=> call.bits < 8
        /\ call.bits \in 2..15 =>
             /\ ~MaxValueIsStored(call.bits)
             /\ MIN_VALUE(call.bits) = -(2^(call.bits - 1))
             /\ MAX_VALUE(call.bits) = MIN_VALUE(call.bits) <=> call.bits = 8

(* What the documentation says of the integer made for a range: "an integer *)
(* definiton that can represent values between an inclusive range"          *)
(* (integer.hpp:168), "The total number of bytes required to store this     *)
(* integer" (103), "The maximum value that can be stored in this interger"  *)
(* (105).                                                                   *)
IntegerIsAsDocumented ==
    call.op = "range" /\ call.low < call.high =>
        LET bits == integer_from_range(call.low, call.high)
            signed == call.low < 0
        IN bits # 0 => /\ Holds(bits, signed, call.low, call.high)
                       /\ BytesTotalStores(bits)
                       /\ signed => MaxValueIsStored(bits)

(* A logical operation is known exactly when it has the same result for     *)
(* every truth value that what is unknown may have.                         *)
Worlds(k) == IF k = "UNKNOWN" THEN BOOLEAN ELSE {k = "TRUE"}

KleeneIsWhatIsKnown ==
    call.op = "kleene" =>
        /\ Worlds(Negated(call.a)) = {~p : p \in Worlds(call.a)}
        /\ Worlds(Both(call.a, call.b)) = {p /\ q : p \in Worlds(call.a), q \in Worlds(call.b)}
        /\ Worlds(Either(call.a, call.b)) = {p \/ q : p \in Worlds(call.a), q \in Worlds(call.b)}
==============================================================================
