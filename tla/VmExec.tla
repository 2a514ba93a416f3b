------------------------------- MODULE VmExec -------------------------------
(***************************************************************************)
(* The interpreter loop of vmir_vm.c: vm_exec, one operator for each group *)
(* of VMOP handlers.                                                       *)
(*                                                                         *)
(* A handler reads its operands by position after the opcode and skips     *)
(* them with NEXT(n); nothing but convention says that they are what the   *)
(* emitter wrote there.  A word read with another width than it was        *)
(* written with, or a register outside the frame, gives Garbage.           *)
(*                                                                         *)
(* s is the state of the interpreter: ip (the next opcode), rf (the frame, *)
(* 32 bit slots by byte offset), sp (F.allocaptr), eff (what was done to   *)
(* memory and to the host), st (run, or how it ended), ret (what is left   *)
(* for the caller) and exc (iu_exception).  t is the text.                 *)
(***************************************************************************)
EXTENDS Words

CONSTANTS VmFuncs,     \* functions in iu_vm_funcs
          ExtFuncs     \* functions in iu_function_table when they are called

Garbage == 2 * Size(64) + 1

-----------------------------------------------------------------------------
(* Operands *)

\* I[n]: the n-th word after the opcode
Nowhere == Word(-2, 1, 0)
At(t, s, n) == IF s.ip + 1 + n \in DOMAIN t THEN t[s.ip + 1 + n] ELSE Nowhere

\* UIMM8, UIMM16, UIMM32, UIMM64, IMMFLT, IMMDBL, and the signed ones
Imm(t, s, w, n) ==
  IF \A p \in 1..Words(w) : At(t, s, n + p - 1).w = w /\ At(t, s, n + p - 1).p = p
  THEN At(t, s, n).v % Size(w) ELSE Garbage
SImm(t, s, w, n) == Signed(w, Imm(t, s, w, n))

\* I[n] as a register, a function, a count or a distance
Arg(t, s, n) == IF At(t, s, n).w = 16 THEN At(t, s, n).v ELSE Garbage

Slot(s, r) == IF r \in DOMAIN s.rf THEN s.rf[r] ELSE Garbage

\* R8 ... R64, RFLT, RDBL, and S8 ... S64
R(t, s, w, n) ==
  LET r == Arg(t, s, n) IN
  IF w = 64 THEN Slot(s, r) + Size(32) * Slot(s, r + 4) ELSE Slot(s, r) % Size(w)
S(t, s, w, n) == Signed(w, R(t, s, w, n))

\* AR32, AFLT, AR64, ADBL
Put(s, w, r, v) ==
  [s EXCEPT !.rf = [q \in DOMAIN s.rf |->
     CASE q = r -> v % Size(32)
       [] q = r + 4 /\ w = 64 -> (v \div Size(32)) % Size(32)
       [] OTHER -> s.rf[q]]]
AR(t, s, w, n, v) == Put(s, w, Arg(t, s, n), v)

NEXT(s, skip) == [s EXCEPT !.ip = @ + 1 + skip]
Jump(t, s, n) == [s EXCEPT !.ip = @ + 1 + Arg(t, s, n)]
Does(s, e)    == [s EXCEPT !.eff = Append(@, e)]
Stop(s, why)  == [s EXCEPT !.st = why]

\* Operand n of class R (register) or C (immediate), and its words
Opnd(t, s, cls, w, n)  == IF cls = "R" THEN R(t, s, w, n) ELSE Imm(t, s, w, n)
SOpnd(t, s, cls, w, n) == Signed(w, Opnd(t, s, cls, w, n))
OpndWords(cls, w)      == IF cls = "R" THEN 1 ELSE Words(w)

-----------------------------------------------------------------------------
(* Arithmetic *)

\* Operands narrower than an int are promoted, so the computation has the
\* width of the register.
CUndefined(op, w, a, b) ==
  LET full == IF w = 64 THEN 64 ELSE 32 IN
  \/ op \in Divisions /\ b = 0
  \/ op \in {"SDIV", "SREM"} /\ a = -(Size(full) \div 2) /\ b = -1
  \/ op \in Shifts /\ b >= Bits(full)

exec_alu(t, s, w, cls, op) ==
  LET a == IF op \in SignedOps THEN S(t, s, w, 1) ELSE R(t, s, w, 1)
      b == IF op \in {"SDIV", "SREM"} THEN SOpnd(t, s, cls, w, 2) ELSE Opnd(t, s, cls, w, 2)
  IN  IF CUndefined(op, w, a, b) THEN Stop(s, "undefined")
      ELSE NEXT(AR(t, s, IF w = 64 THEN 64 ELSE 32, 0, Alu(op, a, b)), 2 + OpndWords(cls, w))

exec_inc(t, s, d) == NEXT(AR(t, s, 32, 0, R(t, s, 32, 1) + d), 2)

exec_mla(t, s) ==
  NEXT(AR(t, s, 32, 0, R(t, s, 32, 1) * R(t, s, 32, 2) + R(t, s, 32, 3)), 4)

exec_falu(t, s, w, cls, op) ==
  NEXT(AR(t, s, w, 0, HostArith(op, R(t, s, w, 1), Opnd(t, s, cls, w, 2))),
       2 + OpndWords(cls, w))

-----------------------------------------------------------------------------
(* Comparisons *)

Compare(t, s, w, cls, rel, n) ==
  IF rel \in SignedCmp THEN Holds(rel, S(t, s, w, n), SOpnd(t, s, cls, w, n + 1))
  ELSE Holds(rel, R(t, s, w, n), Opnd(t, s, cls, w, n + 1))

Bool(b) == IF b THEN 1 ELSE 0

exec_cmp(t, s, w, cls, rel) ==
  NEXT(AR(t, s, 32, 0, Bool(Compare(t, s, w, cls, rel, 1))), 2 + OpndWords(cls, w))

\* A comparison with a NaN is false; an immediate is never a NaN.  UNO tests
\* its first operand twice and UGE tests <=.
FloatHolds(w, rel, a, b) ==
  LET nan == IsNan(w, a) \/ IsNan(w, b)
      c(r) == ~nan /\ Holds(r, a, b)
  IN  CASE rel = "OEQ" -> c("EQ")  [] rel = "OGT" -> c("UGT") [] rel = "OGE" -> c("UGE")
        [] rel = "OLT" -> c("ULT") [] rel = "OLE" -> c("ULE") [] rel = "ONE" -> c("NE")
        [] rel = "ORD" -> ~nan     [] rel = "UNO" -> IsNan(w, a) \/ IsNan(w, a)
        [] rel = "UEQ" -> nan \/ a = b
        [] rel = "UGT" -> nan \/ a > b  [] rel = "UGE" -> nan \/ a <= b
        [] rel = "ULT" -> nan \/ a < b  [] rel = "ULE" -> nan \/ a <= b
        [] rel = "UNE" -> nan \/ a # b

exec_fcmp(t, s, w, cls, rel) ==
  NEXT(AR(t, s, 32, 0, Bool(FloatHolds(w, rel, R(t, s, w, 1), Opnd(t, s, cls, w, 2)))),
       2 + OpndWords(cls, w))

exec_cmp_branch(t, s, w, cls, rel) ==
  Jump(t, s, IF Compare(t, s, w, cls, rel, 2) THEN 0 ELSE 1)

exec_cmp_select(t, s, cls, rel) ==
  NEXT(AR(t, s, 32, 0, R(t, s, 32, IF Compare(t, s, 32, cls, rel, 3) THEN 1 ELSE 2)),
       4 + OpndWords(cls, 32))

-----------------------------------------------------------------------------
(* Memory and moves *)

\* An address in a register wraps; a fixed one is a signed number.
EA(t, s, mode) ==
  CASE mode = "R" -> R(t, s, 32, 1)
    [] mode = "G" -> SImm(t, s, 32, 1)
    [] mode = "OFF" -> (R(t, s, 32, 1) + SImm(t, s, 16, 2)) % Size(32)
    [] mode = "ROFF" -> (R(t, s, 32, 1) + SImm(t, s, 16, 2)
                           + R(t, s, 32, 3) * SImm(t, s, 16, 4)) % Size(32)

LoadWords(mode) == CASE mode = "R" -> 2 [] mode \in {"G", "OFF"} -> 3 [] mode = "ROFF" -> 5

exec_load(t, s, w, mode) ==
  NEXT(AR(t, s, IF w = 64 THEN 64 ELSE 32, 0, HostMem(EA(t, s, mode)) % Size(w)),
       LoadWords(mode))

exec_load_cast(t, s, w, cast, mode) ==
  LET v == HostMem(EA(t, s, mode)) % Size(w) IN
  NEXT(AR(t, s, 32, 0, IF cast = "SEXT" THEN Signed(w, v) ELSE v), LoadWords(mode))

exec_store(t, s, w, mode) ==
  LET st(ea, v) == Does(s, <<"store", w, ea, v % Size(w)>>)
      off(n) == (R(t, s, 32, 0) + SImm(t, s, 16, n)) % Size(32)
  IN
  CASE mode = "G" -> NEXT(st(SImm(t, s, 32, 1), R(t, s, w, 0)), 3)
    [] mode = "C_OFF" -> NEXT(st(off(1), Imm(t, s, w, 2)), 2 + Words(w))
    [] mode = "OFF" -> NEXT(st(off(2), R(t, s, w, 1)), 3)
    [] mode = "R" -> NEXT(st(R(t, s, 32, 0), R(t, s, w, 1)), 2)

exec_mov(t, s, w, cls) ==
  NEXT(AR(t, s, IF w = 64 THEN 64 ELSE 32, 0, Opnd(t, s, cls, w, 1)), 1 + OpndWords(cls, w))

exec_lea(t, s, kind) ==
  LET b == R(t, s, 32, 1)
      v == R(t, s, 32, 2)
      to(x, n) == NEXT(AR(t, s, 32, 0, x), n)
  IN  CASE kind = "SHL" -> to(b + v * 2 ^ Arg(t, s, 3), 4)
        [] kind = "SHL2" -> to(b + v * 4, 3)
        [] kind = "SHL_OFF" -> to(b + v * 2 ^ Arg(t, s, 3) + SImm(t, s, 32, 4), 6)
        [] kind = "MUL_OFF" -> to(b + v * Imm(t, s, 32, 3) + SImm(t, s, 32, 5), 7)

\* Integer conversions read the narrow register, or the whole slot.
exec_int_cast(t, s, to, op, from) ==
  LET w == TypeBits(from)
      v == CASE op = "TRUNC" /\ to = "i1" -> Bool(R(t, s, w, 1) # 0)
             [] op = "TRUNC" /\ <<to, from>> = <<"i16", "i32">> -> R(t, s, 16, 1)
             [] op = "TRUNC" /\ to # "i1" /\ <<to, from>> # <<"i16", "i32">> ->
                  R(t, s, w, 1)
             [] op = "SEXT" /\ from = "i1" -> IF R(t, s, 32, 1) # 0 THEN -1 ELSE 0
             [] op = "ZEXT" /\ from = "i1" -> R(t, s, 32, 1)
             [] op = "SEXT" /\ from # "i1" -> S(t, s, w, 1)
             [] op = "ZEXT" /\ from # "i1" -> R(t, s, w, 1)
  IN  NEXT(AR(t, s, RegBits(to), 0, v), 2)

exec_float_cast(t, s, to, op, from) ==
  LET w == TypeBits(from) IN
  NEXT(AR(t, s, RegBits(to), 0,
          HostConv(IF op = "SITOFP" THEN S(t, s, w, 1) ELSE R(t, s, w, 1))), 2)

exec_select(t, s, w, kind) ==
  LET p == R(t, s, 32, 1) # 0
      to(x, y, n) == NEXT(AR(t, s, w, 0, IF p THEN x ELSE y), n)
  IN  CASE kind = "RR" -> to(R(t, s, w, 2), R(t, s, w, 3), 4)
        [] kind = "RC" -> to(R(t, s, w, 2), Imm(t, s, w, 3), 3 + Words(w))
        [] kind = "CR" -> to(Imm(t, s, w, 3), R(t, s, w, 2), 3 + Words(w))
        [] kind = "CC" -> to(Imm(t, s, w, 2), Imm(t, s, w, 2 + Words(w)), 2 + 2 * Words(w))

-----------------------------------------------------------------------------
(* Control *)

exec_ret(t, s, w, cls) ==
  Stop([s EXCEPT !.ret = Opnd(t, s, cls, w, 0)], "returned")

exec_b(t, s) == Jump(t, s, 0)
exec_bcond(t, s) == Jump(t, s, IF R(t, s, 32, 0) # 0 THEN 1 ELSE 2)

exec_jumptable(t, s) == Jump(t, s, 2 + (R(t, s, 8, 0) % Arg(t, s, 1)))

\* Binary search for the value, then the default after the last path
exec_switch(t, s, w) ==
  LET u == R(t, s, w, 0)
      p == Arg(t, s, 1)
      key(i) == Imm(t, s, w, 2 + i * Words(w))
      search[lo \in 0..p, hi \in -1..p] ==
        IF lo >= hi THEN <<lo, hi>>
        ELSE LET mid == (lo + hi) \div 2 IN
             IF key(mid) < u THEN search[mid + 1, hi] ELSE search[lo, mid]
      r == search[0, p - 1]
      found == r[1] = r[2] /\ key(r[1]) = u
  IN  Jump(t, s, 2 + p * Words(w) + (IF found THEN r[1] ELSE p))

-----------------------------------------------------------------------------
(* Stack *)

Align(v, a) == ((v + a - 1) \div a) * a

\* VM_ALLOCA and VM_ALLOCAD
exec_alloca(t, s, dynamic) ==
  LET p == Align(s.sp, Arg(t, s, 1))
      n == IF dynamic THEN Imm(t, s, 32, 3) * R(t, s, 32, 2) ELSE Imm(t, s, 32, 2)
  IN  NEXT([AR(t, s, 32, 0, p) EXCEPT !.sp = p + n], IF dynamic THEN 5 ELSE 4)

exec_stackshrink(t, s) == NEXT([s EXCEPT !.sp = @ - Imm(t, s, 32, 0)], 2)

\* The register is written before the source register is read.
exec_stackcopy(t, s, cls) ==
  LET p == Align(s.sp, 4)
      q == AR(t, s, 32, 0, p)
      n == Imm(t, s, 32, 1 + OpndWords(cls, 32))
      d == Does(q, <<"copy", p, Opnd(t, q, cls, 32, 1), n>>)
  IN  NEXT([d EXCEPT !.sp = p + n], 3 + OpndWords(cls, 32))

-----------------------------------------------------------------------------
(* Intrinsics and library functions *)

\* floor, sin, ... on doubles and on floats
DblFuncs == {"FLOOR", "SIN", "COS", "POW", "FABS", "FMOD", "LOG", "LOG10",
             "ROUND", "SQRT", "EXP", "CEIL"}
FltFuncs == {"FLOORF", "SINF", "COSF", "POWF", "FABSF", "FMODF", "LOGF",
             "LOG10F", "ROUNDF", "SQRTF", "EXPF", "CEILF"}
Binary   == {"POW", "FMOD", "POWF", "FMODF"}

exec_math(t, s, f) ==
  LET w == IF f \in DblFuncs THEN 64 ELSE 32
      n == IF f \in Binary THEN 2 ELSE 1
  IN  NEXT(AR(t, s, w, 0, HostCall([i \in 1..n |-> R(t, s, w, i)])), n + 1)

exec_abs(t, s) ==
  LET v == S(t, s, 32, 1) IN NEXT(AR(t, s, 32, 0, IF v < 0 THEN -v ELSE v), 2)

\* The counts are undefined for 0.
BitCount(w, f, v) ==
  LET on == {i \in 0..Bits(w) - 1 : (v \div 2 ^ i) % 2 = 1} IN
  CASE f = "CTZ" -> CHOOSE i \in on : \A j \in on : i <= j
    [] f = "CLZ" -> Bits(w) - 1 - (CHOOSE i \in on : \A j \in on : j <= i)
    [] f = "POP" -> Cardinality(on)

exec_bits(t, s, w, f) ==
  IF f # "POP" /\ R(t, s, w, 1) = 0 THEN Stop(s, "undefined")
  ELSE NEXT(AR(t, s, w, 0, BitCount(w, f, R(t, s, w, 1))), 2)

\* The flag is written to the second result before the first is.
exec_overflow(t, s, mul) ==
  LET a == R(t, s, 32, 2)
      b == R(t, s, 32, 3)
      v == IF mul THEN a * b ELSE a + b
  IN  NEXT(AR(t, AR(t, s, 32, 1, Bool(v >= Size(32))), 32, 0, v), 4)

\* Those that return their first argument, with the arguments they take
Returning == [MEMCPY |-> 3, MEMSET |-> 3, MEMMOVE |-> 3, STRCPY |-> 2, STRCAT |-> 2,
              STRNCPY |-> 3, STRNCAT |-> 3]
\* Those that return a result of their own
Computing == [MEMCMP |-> 3, STRCMP |-> 2, STRCASECMP |-> 2, STRNCMP |-> 3,
              STRCHR |-> 2, STRRCHR |-> 2, STRLEN |-> 1, STRDUP |-> 1]
\* Those that return nothing: the widths of their arguments
Silent == [LLVM_MEMCPY |-> <<32, 32, 32>>, LLVM_MEMSET |-> <<32, 8, 32>>,
           LLVM_MEMSET64 |-> <<32, 8, 64>>, VASTART |-> <<32, 32>>, VACOPY |-> <<32, 32>>]

exec_libc(t, s, f) ==
  IF f \in DOMAIN Silent
  THEN LET ws == Silent[f] IN
       NEXT(Does(s, <<f>> \o [i \in DOMAIN ws |-> R(t, s, ws[i], i - 1)]), Len(ws))
  ELSE LET n == IF f \in DOMAIN Returning THEN Returning[f] ELSE Computing[f]
           args == [i \in 1..n |-> R(t, s, 32, i)]
           v == IF f \in DOMAIN Returning THEN args[1] ELSE HostCall(args)
       IN  NEXT(AR(t, Does(s, <<f>> \o args), 32, 0, v), n + 1)

\* p -= size; the value below it; and the pointer is stored back
exec_vaarg(t, s, w) ==
  LET ea == R(t, s, 32, 1)
      p  == HostMem(ea) - (IF w = 64 THEN 8 ELSE 4)
  IN  NEXT(AR(t, Does(s, <<"va", ea, p>>), w, 0, HostMem(p) % Size(w)), 2)

exec_vmop(t, s, f) ==
  CASE f \in DblFuncs \cup FltFuncs -> exec_math(t, s, f)
    [] f \in DOMAIN Returning \cup DOMAIN Computing \cup DOMAIN Silent -> exec_libc(t, s, f)
    [] f = "ABS" -> exec_abs(t, s)
    [] f = "CTZ32" -> exec_bits(t, s, 32, "CTZ") [] f = "CTZ64" -> exec_bits(t, s, 64, "CTZ")
    [] f = "CLZ32" -> exec_bits(t, s, 32, "CLZ") [] f = "CLZ64" -> exec_bits(t, s, 64, "CLZ")
    [] f = "POP32" -> exec_bits(t, s, 32, "POP") [] f = "POP64" -> exec_bits(t, s, 64, "POP")
    [] f = "UADDO32" -> exec_overflow(t, s, FALSE)
    [] f = "UMULO32" -> exec_overflow(t, s, TRUE)
    [] f = "STACKSAVE" -> NEXT(AR(t, s, 32, 0, s.sp), 1)
    [] f = "STACKRESTORE" -> NEXT([s EXCEPT !.sp = R(t, s, 32, 0)], 1)
    [] f = "NOP" -> NEXT(s, 0)

-----------------------------------------------------------------------------
(* Exceptions and calls *)

exec_landingpad(t, s) ==
  NEXT(AR(t, AR(t, s, 32, 0, s.exc[1]), 32, 1, s.exc[2]), 2)

exec_resume(t, s) == Stop([s EXCEPT !.exc = <<R(t, s, 32, 0), R(t, s, 32, 1)>>], "unwound")

\* The callee is external: it does something, leaves a result in the register
\* it is told to, and returns r (1: an exception is in flight).
Callee(s, f, frame, reg, v, r, w) ==
  Does(IF r = 0 THEN Put(s, w, reg, v) ELSE s, <<"call", f, frame>>)

\* JSR and INVOKE through a function number or a register
IsCall(o) == o[1] \in {"JSR", "JSR_VM", "JSR_EXT", "JSR_R", "INVOKE", "INVOKE_EXT",
                       "INVOKE_R"}

CallTarget(t, s, o) ==
  IF o[1] \in {"JSR_R", "INVOKE_R"} THEN R(t, s, 32, 0) ELSE Arg(t, s, 0)

\* A register must hold a function's number (vm_bad_function).  An external
\* function called through a register is not asked whether it threw.
exec_call(t, s, o, v, r, w) ==
  LET f == CallTarget(t, s, o)
      q == Callee(s, f, Arg(t, s, 1), Arg(t, s, 2), v, r, w)
  IN  CASE f \notin VmFuncs \cup ExtFuncs -> Stop(s, "bad_function")
        [] f \in VmFuncs \cup ExtFuncs /\ o[1] \in {"INVOKE", "INVOKE_EXT", "INVOKE_R"} ->
             [q EXCEPT !.ip = @ + 1 + Arg(t, s, 3 + r)]
        [] o[1] = "JSR_R" /\ f \in ExtFuncs \ VmFuncs -> NEXT(q, 3)
        [] OTHER -> IF r = 1 THEN Stop(q, "unwound") ELSE NEXT(q, 3)

\* JSR patches itself the first time it is executed.
Patched(t, s, o) ==
  IF o[1] # "JSR" THEN t
  ELSE [t EXCEPT ![s.ip] = Word(0, 1, IF Arg(t, s, 0) \in ExtFuncs THEN <<"JSR_EXT">>
                                      ELSE <<"JSR_VM">>)]

-----------------------------------------------------------------------------
\* The dispatch, for everything but calls.  A word that is no opcode stops
\* the interpreter with VM_STOP_BAD_INSTRUCTION.
vm_exec(t, s) ==
  LET o == t[s.ip].v IN
  CASE o[1] = "NOP" -> NEXT(s, 0)
    [] o[1] = "INSTRUMENT_COUNT" -> NEXT(Does(s, <<"count", Imm(t, s, 32, 0)>>), 2)
    [] o[1] = "RET_VOID" -> Stop(s, "returned")
    [] o[1] = "RET" -> exec_ret(t, s, o[2], o[3])
    [] o[1] = "B" -> exec_b(t, s)
    [] o[1] = "BCOND" -> exec_bcond(t, s)
    [] o[1] = "LANDINGPAD" -> exec_landingpad(t, s)
    [] o[1] = "RESUME" -> exec_resume(t, s)
    [] o[1] = "ALU" -> exec_alu(t, s, o[2], o[3], o[4])
    [] o[1] = "INC" -> exec_inc(t, s, 1)
    [] o[1] = "DEC" -> exec_inc(t, s, -1)
    [] o[1] = "MLA" -> exec_mla(t, s)
    [] o[1] = "FALU" -> exec_falu(t, s, o[2], o[3], o[4])
    [] o[1] = "CMP" -> exec_cmp(t, s, o[2], o[3], o[4])
    [] o[1] = "FCMP" -> exec_fcmp(t, s, o[2], o[3], o[4])
    [] o[1] = "CBR" -> exec_cmp_branch(t, s, o[2], o[3], o[4])
    [] o[1] = "CSEL" -> exec_cmp_select(t, s, o[3], o[4])
    [] o[1] = "LOAD" -> exec_load(t, s, o[2], o[3])
    [] o[1] = "LOADX" -> exec_load_cast(t, s, o[2], o[3], o[4])
    [] o[1] = "STORE" -> exec_store(t, s, o[2], o[3])
    [] o[1] = "MOV" -> exec_mov(t, s, o[2], o[3])
    [] o[1] = "LEA" -> exec_lea(t, s, o[2])
    [] o[1] = "CAST" ->
         IF o[3] \in {"TRUNC", "ZEXT", "SEXT"} THEN exec_int_cast(t, s, o[2], o[3], o[4])
         ELSE exec_float_cast(t, s, o[2], o[3], o[4])
    [] o[1] = "JUMPTABLE" -> exec_jumptable(t, s)
    [] o[1] = "SWITCH" -> exec_switch(t, s, o[2])
    [] o[1] = "SELECT" -> exec_select(t, s, o[2], o[3])
    [] o[1] = "ALLOCA" -> exec_alloca(t, s, FALSE)
    [] o[1] = "ALLOCAD" -> exec_alloca(t, s, TRUE)
    [] o[1] = "STACKSHRINK" -> exec_stackshrink(t, s)
    [] o[1] = "STACKCOPY" -> exec_stackcopy(t, s, o[2])
    [] o[1] = "UNREACHABLE" -> Stop(s, "unreachable")
    [] o[1] = "VMOP" -> exec_vmop(t, s, o[2])
    [] o[1] = "VAARG" -> exec_vaarg(t, s, o[2])

\* What vm_exec can fetch as an opcode
IsOpcode(t, ip) == ip \in DOMAIN t /\ t[ip].w = 0
=============================================================================
