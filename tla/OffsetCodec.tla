----------------------------- MODULE OffsetCodec -----------------------------
(***************************************************************************)
(* The offset lists of an archive (archive/mod.rs): the first offset as a  *)
(* fixed-width little-endian number, every further one as the LEB128 code  *)
(* of its distance from the one before.                                    *)
(*                                                                         *)
(* A byte is a number below 2 * Base: a LEB128 digit below Base, plus Base *)
(* when more digits follow.  The code has Base = 128 and Width = 8.        *)
(***************************************************************************)
EXTENDS Integers, Sequences

CONSTANTS
  Base,    \* values of a LEB128 digit
  Width    \* bytes of a u64

ASSUME BaseAssumption == Base \in Nat \ {0, 1}
ASSUME WidthAssumption == Width \in Nat \ {0}

Malformed == -1

(* u64::to_le_bytes and from_le_bytes. *)
Radix[i \in 0..Width] == IF i = 0 THEN 1 ELSE 2 * Base * Radix[i - 1]

LittleEndian(n) == [i \in 1..Width |-> (n \div Radix[i - 1]) % (2 * Base)]

FromLittleEndian(bytes) ==
  LET sum[i \in 0..Width] == IF i = 0 THEN 0 ELSE sum[i - 1] + bytes[i] * Radix[i - 1]
  IN sum[Width]

(* leb128::write::unsigned, the shortest code. *)
Leb128[n \in Nat] ==
  IF n < Base THEN <<n>> ELSE <<Base + (n % Base)>> \o Leb128[n \div Base]

(* leb128::read::unsigned: the number at the start of the bytes, or an     *)
(* error when they end within a code.                                      *)
ReadLeb128[bytes \in Seq(Nat)] ==
  IF bytes = <<>> THEN Malformed
  ELSE IF Head(bytes) < Base THEN Head(bytes)
  ELSE LET more == ReadLeb128[Tail(bytes)]
       IN IF more = Malformed THEN Malformed ELSE Head(bytes) - Base + Base * more

(* Mutant: the last digit is not counted. *)
Leb128LenShort(n) == IF n < Base THEN 1 ELSE Len(Leb128[n \div Base])

(* leb128_bytes_len: one byte per digit the number has. *)
Leb128Len(n) ==
  LET digits[v \in Nat] == IF v = 0 THEN 0 ELSE 1 + digits[v \div Base]
  IN IF n = 0 THEN 1 ELSE digits[n]

EncodeOffsets(offsets) ==
  LET deltas[i \in 0..Len(offsets)] ==
        IF i < 2 THEN <<>> ELSE deltas[i - 1] \o Leb128[offsets[i] - offsets[i - 1]]
  IN IF offsets = <<>> THEN <<>> ELSE LittleEndian(offsets[1]) \o deltas[Len(offsets)]

(* One round of the loop of decode_offsets: the distance at the position,  *)
(* counted from 0, gives the next offset; an error leaves the loop, or     *)
(* the same with nothing read in the rounds that are left.                 *)
NextOffset(bytes, at) ==
  LET delta == ReadLeb128[SubSeq(bytes, at.pos + 1, Len(bytes))]
  IN IF delta = Malformed THEN at
     ELSE [pos     |-> at.pos + Leb128Len(delta),
           offsets |-> Append(at.offsets, at.offsets[Len(at.offsets)] + delta)]

DecodeOffsets(bytes, count) ==
  LET first == FromLittleEndian(SubSeq(bytes, 1, Width))
      at[i \in 0..count] ==
        IF i = 0 THEN [pos |-> Width, offsets |-> <<first>>] ELSE NextOffset(bytes, at[i - 1])
  IN IF count = 0 \/ Len(bytes) < Width THEN <<>> ELSE at[count - 1].offsets
=============================================================================
