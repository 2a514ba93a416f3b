------------------------------ MODULE Bitstream ------------------------------
(***************************************************************************)
(* The bit reader of the bitcode loader (vmir_bitstream.c).  The input is  *)
(* a sequence of bytes.  A stream is its position: off is bytes_offset and *)
(* remain the number of bits of byte off - 1 that are not read yet.  The   *)
(* byte kept in bcbitstream.tmp is that byte shifted by 8 - remain, so it  *)
(* is not stored again.                                                    *)
(*                                                                         *)
(* The readers return the stream after the call and what was read: a       *)
(* number in r, or the single bits, least significant first, where the 32  *)
(* bits do not fit in TLC's integers.                                      *)
(***************************************************************************)
EXTENDS Integers, Sequences, FiniteSetsExt

StreamAt(byte) == [off |-> byte, remain |-> 0]

Bit(data, p) == (data[(p \div 8) + 1] \div 2^(p % 8)) % 2
Num(bits)    == MapThenSumSet(LAMBDA k : 2^(k - 1), {k \in DOMAIN bits : bits[k] = 1})

(***************************************************************************)
(* read_bits.  Its loop takes the bits left in the current byte and then   *)
(* byte after byte; before each it returns 0 when bytes_offset has reached *)
(* the end, even if bits of the last byte are left or some were taken.     *)
(***************************************************************************)
read_raw(data, bs, num) ==
    LET left  == Min({num, bs.remain})
        bytes == (num - left + 7) \div 8          \* bytes the loop fetches
        short == num > 0 /\ (\/ bs.remain > 0 /\ bs.off >= Len(data)
                             \/ bs.off + bytes > Len(data))
        pos   == (8 * bs.off) - bs.remain
        after == pos + num
    IN  IF short
        THEN [bits |-> [k \in 1 .. num |-> 0],
              bs   |-> IF bs.off >= Len(data) THEN bs ELSE StreamAt(Len(data))]
        ELSE [bits |-> [k \in 1 .. num |-> Bit(data, pos + k - 1)],
              bs   |-> [off    |-> bs.off + bytes,
                        remain |-> (8 * (bs.off + bytes)) - after]]

read_bits(data, bs, num) ==
    LET x == read_raw(data, bs, num) IN [r |-> Num(x.bits), bs |-> x.bs]

align_bits32(bs) == StreamAt(4 * ((bs.off + 3) \div 4))

(***************************************************************************)
(* read_vbr and read_vbr64: groups of width - 1 bits, the top bit of a     *)
(* group says that another one follows.  They differ in the stride they    *)
(* assert, which numbers of this size never reach.                         *)
(***************************************************************************)
RECURSIVE VbrFrom(_, _, _, _, _)
VbrFrom(data, bs, width, stride, sum) ==
    LET x    == read_bits(data, bs, width)
        cont == 2^(width - 1)
        ret  == sum + (x.r % cont) * 2^stride
    IN  IF x.r >= cont THEN VbrFrom(data, x.bs, width, stride + width - 1, ret)
                       ELSE [r |-> ret, bs |-> x.bs]

read_vbr(data, bs, width) == VbrFrom(data, bs, width, 0, 0)

(* n values one after the other, each read by Read(stream). *)
RECURSIVE ReadN(_, _, _, _)
ReadN(Read(_), bs, n, got) ==
    IF n = 0 THEN [r |-> got, bs |-> bs]
    ELSE LET x == Read(bs) IN ReadN(Read, x.bs, n - 1, Append(got, x.r))

(* The sign in the lowest bit, as in constants and PHI operands; minus zero *)
(* is the lowest number of 64 bits, here one below every other number.      *)
LowestInt == -(2^30)

read_sign_rotated(u) == CASE u % 2 = 0           -> u \div 2
                          [] u = 1               -> LowestInt
                          [] u % 2 = 1 /\ u # 1 -> -(u \div 2)
==============================================================================
