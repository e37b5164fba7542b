---------------------------- MODULE RegisterCodec ----------------------------
(***************************************************************************)
(* The 16-bit registers of a Modbus device: how commands.py encodes a      *)
(* setpoint and reads one back, and how decoder.py turns the registers of  *)
(* a point into a value.  A byte has Base values: 256 on a device; the     *)
(* arithmetic is the same for every even base, and TLC uses a small one.   *)
(* A float32 stands for its bit pattern; scaling a value is left out.      *)
(***************************************************************************)
EXTENDS Integers, Sequences

CONSTANT Base

ASSUME BaseAssumption == Base \in Nat /\ Base >= 2 /\ Base % 2 = 0

Word == Base * Base
Half == (Base \div 2) * Base

\* Mutant: the number is written without the mask of 16 bits.
Encode16_Unmasked(v) == v

\* commands.py:162-171, 184 -- & 0xFFFF
Encode16(v) == v % Word

\* commands.py:271-274
Int16(w) == IF w % Word >= Half THEN (w % Word) - Word ELSE w % Word

-----------------------------------------------------------------------------
BytesOf(w) == <<(w % Word) \div Base, w % Base>>

Flipped(s) == [i \in DOMAIN s |-> s[Len(s) + 1 - i]]

Flat(words) == [i \in 1 .. 2 * Len(words) |->
                   BytesOf(words[(i + 1) \div 2])[IF i % 2 = 1 THEN 1 ELSE 2]]

\* Mutant: the order of the words is ignored.
RegistersToBytes_OneOrder(registers, wordOrder) == Flat(registers)

\* decoder.py:49-54
RegistersToBytes(registers, wordOrder) ==
    Flat(IF wordOrder = "little" THEN Flipped(registers) ELSE registers)

Unsigned(bytes) ==
    IF Len(bytes) = 2 THEN bytes[1] * Base + bytes[2]
    ELSE ((bytes[1] * Base + bytes[2]) * Base + bytes[3]) * Base + bytes[4]

TwosComplement(n, size) ==
    IF size = 2 THEN IF n >= Half THEN n - Word ELSE n
                ELSE IF n >= Half * Word THEN n - Word * Word ELSE n

\* decoder.py:56-66 -- int.from_bytes
FromBytes(bytes, byteOrder, signed) ==
    LET n == Unsigned(IF byteOrder = "little" THEN Flipped(bytes) ELSE bytes)
    IN  IF signed THEN TwosComplement(n, Len(bytes)) ELSE n

Size(type) == IF type \in {"uint16", "int16"} THEN 2 ELSE 4

NotDecoded == [ok |-> FALSE, value |-> 0]

\* decoder.py:15-47 -- DecodeError for a count or a length that does not fit;
\* int16 and int32 are signed whatever the mapping says
Decode(m, registers) ==
    LET bytes == RegistersToBytes(registers, m.wordOrder)
    IN  IF Len(registers) # m.count \/ Len(bytes) # Size(m.type) THEN NotDecoded
        ELSE [ok |-> TRUE, value |-> FromBytes(bytes, m.byteOrder, m.type \in {"int16", "int32"})]

-----------------------------------------------------------------------------
(* The reference: how a device lays a number out *)

\* the digit of n above i others, for i below 4
Digit(n, i) == (n \div <<1, Base, Word, Word * Base>>[i + 1]) % Base

\* the bytes of n, most significant first
BigEndian(n, size) == [i \in 1 .. size |-> Digit(n, size - i)]

Paired(bytes) == [i \in 1 .. Len(bytes) \div 2 |-> bytes[2 * i - 1] * Base + bytes[2 * i]]

\* A "little" byte order turns all the bytes of a point round, which moves its
\* words as well; a "little" word order turns only the words.
Layout(n, m) ==
    LET bytes == BigEndian(n, Size(m.type))
        words == Paired(IF m.byteOrder = "little" THEN Flipped(bytes) ELSE bytes)
    IN  IF m.wordOrder = "little" THEN Flipped(words) ELSE words
=============================================================================
