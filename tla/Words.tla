------------------------------- MODULE Words -------------------------------
(***************************************************************************)
(* What the code generator and the interpreter of vmir_vm.c share: the     *)
(* integer types, the order of the opcodes in the enumerations, and the    *)
(* 16 bit words a function is compiled to.                                 *)
(*                                                                         *)
(* Widths are scaled: W8, W16 and W32 bits stand for 8, 16 and 32, and 64  *)
(* is twice W32, as in the register file, which is made of 32 bit slots.   *)
(* Offsets into the text are counted in 16 bit words.                      *)
(***************************************************************************)
EXTENDS Integers, Sequences, FiniteSets, SequencesExt, Bitwise

CONSTANTS W8, W16, W32,   \* bits of the scaled integer types
          OffMax          \* INT16_MAX, for what is not arithmetic data

ASSUME WidthAssumption == W8 \in Nat /\ 1 < W8 /\ W8 < W16 /\ W16 < W32

-----------------------------------------------------------------------------
(* Types and numbers *)

Bits(w) == CASE w = 1 -> 1 [] w = 8 -> W8 [] w = 16 -> W16
             [] w = 32 -> W32 [] w = 64 -> 2 * W32

Size(w) == 2 ^ Bits(w)

Signed(w, v) == IF v >= Size(w) \div 2 THEN v - Size(w) ELSE v

Ints    == {"i1", "i8", "i16", "i32", "i64"}
Floats  == {"flt", "dbl"}
\* The types that live in one 32 bit slot whatever their width
Slot32  == {"i32", "ptr", "flt"}
Slot64  == {"i64", "dbl"}

\* legalize_type, and the bits of what it returns
TypeBits(ty) == CASE ty = "i1" -> 1 [] ty = "i8" -> 8 [] ty = "i16" -> 16
                  [] ty \in Slot32 -> 32 [] ty \in Slot64 -> 64

RegBits(ty) == IF ty \in Slot64 THEN 64 ELSE 32

\* The smallest load and store is a byte.
MemBits(ty) == IF ty = "i1" THEN 8 ELSE TypeBits(ty)

\* type_code_mask
Masked(ty, v) == v % Size(MemBits(ty))

\* C division truncates towards zero.
CDiv(a, b) ==
  LET q == (IF a < 0 THEN -a ELSE a) \div (IF b < 0 THEN -b ELSE b)
  IN  IF (a < 0) = (b < 0) THEN q ELSE -q

\* The C operators, on operands already converted
Alu(op, a, b) ==
  CASE op = "ADD" -> a + b
    [] op = "SUB" -> a - b
    [] op = "MUL" -> a * b
    [] op \in {"UDIV", "SDIV"} -> CDiv(a, b)
    [] op \in {"UREM", "SREM"} -> a - b * CDiv(a, b)
    [] op = "SHL" -> a * 2 ^ b
    [] op \in {"LSHR", "ASHR"} -> a \div 2 ^ b
    [] op = "AND" -> a & b
    [] op = "OR"  -> a | b
    [] op = "XOR" -> a ^^ b

Divisions == {"UDIV", "SDIV", "UREM", "SREM"}
Shifts    == {"SHL", "LSHR", "ASHR"}
SignedOps == {"SDIV", "SREM", "ASHR"}
SignedCmp == {"SGT", "SGE", "SLT", "SLE"}

Holds(rel, a, b) ==
  CASE rel = "EQ" -> a = b [] rel = "NE" -> a # b
    [] rel \in {"UGT", "SGT"} -> a > b  [] rel \in {"UGE", "SGE"} -> a >= b
    [] rel \in {"ULT", "SLT"} -> a < b  [] rel \in {"ULE", "SLE"} -> a <= b

-----------------------------------------------------------------------------
(* The host.  Floating point numbers are its own: the value with all bits   *)
(* set is the NaN, the others compare as they are, and arithmetic is some   *)
(* function that tells its operator and its operands apart.  So is what     *)
(* memory holds, and what a library function returns.                       *)

IsNan(w, v) == v = Size(w) - 1

HostArith(op, a, b) ==
  3 * a + 5 * b + (CASE op = "ADD" -> 0 [] op = "SUB" -> 1 [] op = "MUL" -> 2
                     [] op = "DIV" -> 4)

HostMem(ea) == 5 * ea + 2

HostCall(args) == FoldLeft(LAMBDA acc, x : 3 * acc + x, 1, args)

\* A conversion from or to floating point
HostConv(v) == 7 * v + 1

-----------------------------------------------------------------------------
(* Enumerations.  The emitter adds the number of an operator to the first   *)
(* opcode of a group, so the groups must be in the order of bitcode.h.      *)

\* BINOP_ADD ... BINOP_XOR
Binops == <<"ADD", "SUB", "MUL", "UDIV", "SDIV", "UREM", "SREM", "SHL",
            "LSHR", "ASHR", "AND", "OR", "XOR">>

\* VM_ADD_R16C ..., VM_ADD_R32 ..., VM_ADD_R32C ..., VM_ADD_R64 ...
VmBinops == <<"ADD", "SUB", "MUL", "UDIV", "SDIV", "UREM", "SREM", "SHL",
              "LSHR", "ASHR", "AND", "OR", "XOR">>

\* FCMP_OEQ ... FCMP_UNE
Fcmps == <<"F_OEQ", "F_OGT", "F_OGE", "F_OLT", "F_OLE", "F_ONE", "F_ORD",
           "F_UNO", "F_UEQ", "F_UGT", "F_UGE", "F_ULT", "F_ULE", "F_UNE">>

\* VM_OEQ_DBL ..., VM_OEQ_DBL_C ..., VM_OEQ_FLT ..., VM_OEQ_FLT_C ...
VmFcmps == <<"OEQ", "OGT", "OGE", "OLT", "OLE", "ONE", "ORD", "UNO", "UEQ",
             "UGT", "UGE", "ULT", "ULE", "UNE">>

\* ICMP_EQ ... ICMP_SLE
Icmps == <<"EQ", "NE", "UGT", "UGE", "ULT", "ULE", "SGT", "SGE", "SLT", "SLE">>

\* VM_EQ8 ..., VM_EQ8_C ..., up to VM_EQ64_C ...
VmIcmps == <<"EQ", "NE", "UGT", "UGE", "ULT", "ULE", "SGT", "SGE", "SLT", "SLE">>

\* VM_EQ8_BR ... VM_SLE32_C_SEL
VmIcmpBrs == <<"EQ", "NE", "UGT", "UGE", "ULT", "ULE", "SGT", "SGE", "SLT", "SLE">>

\* The name at the position that x has in the other enumeration
Nth(names, enum, x) == names[CHOOSE i \in DOMAIN enum : enum[i] = x]

IsIcmp(pred) == pred \in Range(Icmps)
IsFcmp(pred) == pred \in Range(Fcmps)

-----------------------------------------------------------------------------
(* Words.  w is the width of the immediate that a word is part of and p     *)
(* which of its words it is; w is 0 for an opcode and -1 for a branch       *)
(* opcode that branch_fixup has yet to resolve.                             *)

Word(w, p, v) == [w |-> w, p |-> p, v |-> v]

\* Words an immediate takes in the text: a byte is padded to 16 bits
Words(w) == CASE w = 64 -> 4 [] w = 32 -> 2 [] OTHER -> 1

\* A number stored in a 16 bit word and read back as an int16_t
Wrap16(v) == ((v + OffMax + 1) % (2 * OffMax + 2)) - OffMax - 1
=============================================================================
