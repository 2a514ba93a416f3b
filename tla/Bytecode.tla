------------------------------ MODULE Bytecode ------------------------------
(***************************************************************************)
(* vm_emit_function, branch_fixup and vm_exec together: a function is      *)
(* compiled instruction by instruction, its branches are resolved, and the *)
(* interpreter runs the words that came out.                               *)
(*                                                                         *)
(* Meaning says what an instruction of the intermediate code does, from    *)
(* the types and values of its operands alone.  The properties compare it  *)
(* with what the words do: the same results, effects and successor, and    *)
(* nothing else changed.                                                   *)
(***************************************************************************)
EXTENDS Emit, VmExec

CONSTANTS TextMax,        \* words in iu_text_alloc
          Programs,       \* functions: sequences of blocks of instructions
          RegFiles,       \* contents of the register frame on entry
          Stack0          \* F.allocaptr on entry

VARIABLES phase,   \* emit, fixup, run, done, or why the function is refused
          prog,    \* the function being compiled
          flag,    \* iu_debug_flags_func & VMIR_DBG_BB_INSTRUMENT
          cur,     \* next to emit: block and instruction (0: its header)
          text,    \* the words emitted
          bboff,   \* ib_text_offset of the blocks reached
          fixups,  \* iu_branch_fixups
          code,    \* where each instruction begins and ends in the text
          m,       \* the interpreter
          pre,     \* the interpreter when the current instruction began
          last     \* the last instruction completed and what it did

vars == <<phase, prog, flag, cur, text, bboff, fixups, code, m, pre, last>>

NoMachine == [ip |-> 0, rf |-> <<>>, sp |-> 0, eff |-> <<>>, st |-> "none",
              ret |-> 0, exc |-> <<0, 0>>, thrown |-> 0]

Nothing == [done |-> FALSE]

-----------------------------------------------------------------------------
(* What an instruction means *)

\* The value of an operand: the bits of its type
Val(s, ty, x) ==
  IF IsReg(x) THEN (IF ty \in Slot64 THEN s.rf[x[2]] + Size(32) * s.rf[x[2] + 4]
                    ELSE s.rf[x[2]] % Size(TypeBits(ty)))
  ELSE x[2] % Size(TypeBits(ty))

SVal(s, ty, x) == Signed(TypeBits(ty), Val(s, ty, x))

Effect(s) == [out |-> <<>>, eff |-> <<>>, goto |-> 0, st |-> "run", sp |-> s.sp,
              ret |-> <<>>, exc |-> s.exc]

Result(s, ty, x, v) == [Effect(s) EXCEPT !.out = <<<<ty, x[2], v>>>>]

GoTo(s, bb) == [Effect(s) EXCEPT !.goto = bb]

Binary2(s, ii) ==
  IF ii.ty \in Floats THEN HostArith(FloatOp(ii.op), Val(s, ii.ty, ii.lhs), Val(s, ii.ty, ii.rhs))
  ELSE IF ii.op \in {"SDIV", "SREM"} THEN Alu(ii.op, SVal(s, ii.ty, ii.lhs), SVal(s, ii.ty, ii.rhs))
  ELSE IF ii.op = "ASHR" THEN Alu(ii.op, SVal(s, ii.ty, ii.lhs), Val(s, ii.ty, ii.rhs))
  ELSE Alu(ii.op, Val(s, ii.ty, ii.lhs), Val(s, ii.ty, ii.rhs))

\* An ordered predicate is false for a NaN, an unordered one true.
Unordered == {"F_UNO", "F_UEQ", "F_UGT", "F_UGE", "F_ULT", "F_ULE", "F_UNE"}
Relation == [F_OEQ |-> "EQ", F_UEQ |-> "EQ", F_ONE |-> "NE", F_UNE |-> "NE",
             F_OGT |-> "UGT", F_UGT |-> "UGT", F_OGE |-> "UGE", F_UGE |-> "UGE",
             F_OLT |-> "ULT", F_ULT |-> "ULT", F_OLE |-> "ULE", F_ULE |-> "ULE"]

True(s, ii) ==
  LET a == Val(s, ii.ty, ii.lhs)
      b == Val(s, ii.ty, ii.rhs)
      w == TypeBits(ii.ty)
  IN  IF IsFcmp(ii.op)
      THEN IF IsNan(w, a) \/ IsNan(w, b) THEN ii.op \in Unordered
           ELSE IF ii.op \in {"F_ORD", "F_UNO"} THEN ii.op = "F_ORD"
           ELSE Holds(Relation[ii.op], a, b)
      ELSE IF ii.op \in SignedCmp THEN Holds(ii.op, Signed(w, a), Signed(w, b))
      ELSE Holds(ii.op, a, b)

Address(s, ii) == (Val(s, "ptr", ii.src) + ii.off
                     + (IF ii.roff = None THEN 0 ELSE Val(s, "i32", ii.roff) * ii.mul)) % Size(32)

Loaded(s, ii) ==
  LET v(ty) == HostMem(Address(s, ii)) % Size(MemBits(ty)) IN
  IF ii.cast = "SEXT" THEN Signed(TypeBits(ii.lty), v(ii.lty))
  ELSE IF ii.cast = "ZEXT" THEN v(ii.lty) ELSE v(ii.ty)

Casted(s, ii) ==
  CASE ii.op \in {"TRUNC", "ZEXT", "BITCAST", "PTRTOINT"} -> Val(s, ii.from, ii.val)
    [] ii.op = "SEXT" -> SVal(s, ii.from, ii.val)
    [] ii.op = "SITOFP" -> HostConv(SVal(s, ii.from, ii.val))
    [] OTHER -> HostConv(Val(s, ii.from, ii.val))

SwitchTo(s, ii) ==
  LET v == IF ii.ty = "ix" THEN Val(s, "i32", ii.val) % 2 ^ ii.bits ELSE Val(s, ii.ty, ii.val)
      hit == {i \in DOMAIN ii.paths : ii.paths[i][1] = v}
  IN  IF hit = {} THEN ii.def ELSE ii.paths[CHOOSE i \in hit : TRUE][2]

\* The intrinsics and library functions of vmop_map
VmopMeaning(s, ii) ==
  LET v == [i \in DOMAIN ii.args |-> Val(s, ii.args[i][1], <<"reg", ii.args[i][2]>>)]
      to(x) == [Effect(s) EXCEPT !.out = <<<<ii.rets[1][1], ii.rets[1][2], x>>>>]
      f == ii.op
  IN  CASE f \in DblFuncs \cup FltFuncs -> to(HostCall(v))
        [] f = "ABS" -> to(IF Signed(32, v[1]) < 0 THEN -Signed(32, v[1]) ELSE v[1])
        [] f \in {"CTZ32", "CTZ64"} -> to(BitCount(TypeBits(ii.args[1][1]), "CTZ", v[1]))
        [] f \in {"CLZ32", "CLZ64"} -> to(BitCount(TypeBits(ii.args[1][1]), "CLZ", v[1]))
        [] f \in {"POP32", "POP64"} -> to(BitCount(TypeBits(ii.args[1][1]), "POP", v[1]))
        [] f \in {"UADDO32", "UMULO32"} ->
             LET x == IF f = "UADDO32" THEN v[1] + v[2] ELSE v[1] * v[2] IN
             [Effect(s) EXCEPT !.out = <<<<ii.rets[1][1], ii.rets[1][2], x>>,
                <<ii.rets[2][1], ii.rets[2][2], IF x >= Size(32) THEN 1 ELSE 0>>>>]
        [] f \in DOMAIN Returning -> [to(v[1]) EXCEPT !.eff = <<<<f>> \o v>>]
        [] f \in DOMAIN Computing -> [to(HostCall(v)) EXCEPT !.eff = <<<<f>> \o v>>]
        [] f \in DOMAIN Silent -> [Effect(s) EXCEPT !.eff = <<<<f>> \o v>>]
        [] f = "STACKSAVE" -> to(s.sp)
        [] f = "STACKRESTORE" -> [Effect(s) EXCEPT !.sp = v[1]]
        [] f = "NOP" -> Effect(s)

\* r says whether the function called threw.
CallMeaning(s, ii, r) ==
  LET f == IF IsFunc(ii.fn) THEN ii.fn[2] ELSE Val(s, "i32", ii.fn)
      e == [Effect(s) EXCEPT !.eff = <<<<"call", f, RegFrameSize>>>>,
              !.out = IF r = 0 /\ ii.ret # None THEN <<<<ii.ty, ii.ret[2], HostCall(<<f>>)>>>>
                      ELSE <<>>]
  IN  IF ii.c = "INVOKE" THEN [e EXCEPT !.goto = IF r = 0 THEN ii.normal ELSE ii.unwind]
      ELSE [e EXCEPT !.st = IF r = 0 THEN "run" ELSE "unwound"]

Meaning(s, ii, r) ==
  CASE ii.c = "BINOP" -> Result(s, ii.ty, ii.ret, Binary2(s, ii))
    [] ii.c = "RET" -> [Effect(s) EXCEPT !.st = "returned",
                          !.ret = IF ii.val = None THEN <<>>
                                  ELSE <<ii.ty, Val(s, ii.ty, ii.val)>>]
    [] ii.c = "LOAD" -> Result(s, ii.ty, ii.ret, Loaded(s, ii))
    [] ii.c = "STORE" ->
         LET ty == IF ii.ty = "func" THEN "ptr" ELSE ii.ty IN
         [Effect(s) EXCEPT !.eff =
            <<<<"store", MemBits(ty), (Val(s, "ptr", ii.ptr) + ii.off) % Size(32),
                Val(s, ty, ii.val)>>>>]
    [] ii.c = "CMP2" -> Result(s, "i1", ii.ret, IF True(s, ii) THEN 1 ELSE 0)
    [] ii.c = "CMP_BRANCH" -> GoTo(s, IF True(s, ii) THEN ii.t ELSE ii.f)
    [] ii.c = "CMP_SELECT" -> Result(s, "i32", ii.ret,
                                Val(s, "i32", IF True(s, ii) THEN ii.tv ELSE ii.fv))
    [] ii.c = "BR" -> GoTo(s, IF ii.cond = None \/ Val(s, "i1", ii.cond) = 1 THEN ii.t ELSE ii.f)
    [] ii.c = "SWITCH" -> GoTo(s, SwitchTo(s, ii))
    [] ii.c = "MOVE" ->
         IF ii.ret2 = None THEN Result(s, ii.ty, ii.ret, Val(s, ii.ty, ii.val))
         ELSE LET v == Val(s, "i64", ii.val) IN
              [Effect(s) EXCEPT !.out = <<<<"i32", ii.ret[2], v % Size(32)>>,
                                          <<"i32", ii.ret2[2], v \div Size(32)>>>>]
    [] ii.c = "LEA" -> Result(s, "ptr", ii.ret,
                         Val(s, "ptr", ii.base) + ii.off
                           + (IF ii.voff = None THEN 0 ELSE Val(s, "i32", ii.voff) * ii.mul))
    [] ii.c = "CAST" -> Result(s, ii.ty, ii.ret, Casted(s, ii))
    [] ii.c = "SELECT" -> Result(s, ii.ty, ii.ret,
                            Val(s, ii.ty, IF Val(s, "i1", ii.pred) = 1 THEN ii.tv ELSE ii.fv))
    [] ii.c = "MLA" -> Result(s, "i32", ii.ret, Val(s, "i32", ii.a1) * Val(s, "i32", ii.a2)
                                                  + Val(s, "i32", ii.a3))
    [] ii.c = "ALLOCA" ->
         LET p == Align(s.sp, ii.align) IN
         [Result(s, "ptr", ii.ret, p) EXCEPT !.sp = p + ii.size * Val(s, "i32", ii.num)]
    [] ii.c = "STACKCOPY" ->
         LET p == Align(s.sp, 4) IN
         [Result(s, "ptr", ii.ret, p) EXCEPT !.sp = p + ii.size,
            !.eff = <<<<"copy", p, Val(s, "ptr", ii.val), ii.size>>>>]
    [] ii.c = "STACKSHRINK" -> [Effect(s) EXCEPT !.sp = s.sp - ii.size]
    [] ii.c = "VAARG" ->
         LET ea == Val(s, "ptr", ii.val)
             p  == HostMem(ea) - (IF ii.ty \in Slot64 THEN 8 ELSE 4)
         IN  [Result(s, ii.ty, ii.ret, HostMem(p)) EXCEPT !.eff = <<<<"va", ea, p>>>>]
    [] ii.c = "VMOP" -> VmopMeaning(s, ii)
    [] ii.c \in {"CALL", "INVOKE"} -> CallMeaning(s, ii, r)
    [] ii.c = "LANDINGPAD" ->
         [Effect(s) EXCEPT !.out = [i \in 1..2 |-> <<ii.rets[i][1], ii.rets[i][2], s.exc[i]>>]]
    [] ii.c = "RESUME" -> [Effect(s) EXCEPT !.st = "unwound",
                             !.exc = <<Val(s, "i32", ii.vals[1]), Val(s, "i32", ii.vals[2])>>]
    [] ii.c = "UNREACHABLE" -> [Effect(s) EXCEPT !.st = "unreachable"]
    [] ii.c = "COUNT" -> [Effect(s) EXCEPT !.eff = <<<<"count", ii.n>>>>]

\* The guest's own undefined behaviour: nothing is claimed of it.
Poison(s, ii) ==
  \/ /\ ii.c = "BINOP" /\ ii.ty \notin Floats
     /\ \/ ii.op \in Divisions /\ Val(s, ii.ty, ii.rhs) = 0
        \/ /\ ii.op \in {"SDIV", "SREM"} /\ SVal(s, ii.ty, ii.rhs) = -1
           /\ Val(s, ii.ty, ii.lhs) = Size(TypeBits(ii.ty)) \div 2
        \/ ii.op \in Shifts /\ Val(s, ii.ty, ii.rhs) >= Bits(TypeBits(ii.ty))
  \/ /\ ii.c = "VMOP" /\ ii.op \in {"CTZ32", "CLZ32", "CTZ64", "CLZ64"}
     /\ Val(s, ii.args[1][1], <<"reg", ii.args[1][2]>>) = 0
  \/ /\ ii.c \in {"CALL", "INVOKE"} /\ IsReg(ii.fn)
     /\ Val(s, "i32", ii.fn) \notin VmFuncs \cup ExtFuncs

-----------------------------------------------------------------------------
(* Compiling *)

Init == /\ phase = "emit"
        /\ prog \in Programs
        /\ flag \in BOOLEAN
        /\ cur = <<1, 0>>
        /\ text = <<>> /\ bboff = <<>> /\ fixups = <<>> /\ code = <<>>
        /\ m = NoMachine /\ pre = NoMachine /\ last = Nothing

\* The words of an instruction are appended, if they fit and are accepted.
Lay(ii, r) ==
  IF r.err # "" \/ (r.ws # <<>> /\ Len(text) + Len(r.ws) >= TextMax)
  THEN /\ phase' = (IF r.err = "" THEN "parser_error" ELSE r.err)
       /\ UNCHANGED <<text, fixups, code, cur>>
  ELSE /\ text' = text \o r.ws
       /\ fixups' = IF r.fix = 0 THEN fixups ELSE Append(fixups, Len(text) + r.fix)
       /\ code' = Append(code, [ii |-> ii, from |-> Len(text) + 1,
                                to |-> Len(text) + Len(r.ws) + 1])
       /\ cur' = IF cur[2] < Len(prog[cur[1]]) THEN <<cur[1], cur[2] + 1>>
                 ELSE <<cur[1] + 1, 0>>
       /\ phase' = IF cur'[1] > Len(prog) THEN "fixup" ELSE "emit"

EmitHeader ==
  /\ phase = "emit" /\ cur[2] = 0
  /\ bboff' = Append(bboff, Len(text) + 1)
  /\ IF flag THEN Lay([c |-> "COUNT", n |-> cur[1] - 1], emit_count(cur[1] - 1))
     ELSE cur' = <<cur[1], 1>> /\ UNCHANGED <<phase, text, fixups, code>>
  /\ UNCHANGED <<prog, flag, m, pre, last>>

EmitInstr ==
  /\ phase = "emit" /\ cur[2] # 0
  /\ LET ii == prog[cur[1]][cur[2]] IN
     Lay(ii, instr_emit(ii, Len(text) % 2, IF cur[1] < Len(prog) THEN cur[1] + 1 ELSE 0))
  /\ UNCHANGED <<prog, flag, bboff, m, pre, last>>

Fixup ==
  /\ phase = "fixup" /\ fixups # <<>>
  /\ LET r == branch_fixup(text, bboff, Head(fixups)) IN
     IF r.ok THEN text' = r.t /\ fixups' = Tail(fixups) /\ phase' = phase
     ELSE phase' = "assert" /\ UNCHANGED <<text, fixups>>
  /\ UNCHANGED <<prog, flag, cur, bboff, code, m, pre, last>>

-----------------------------------------------------------------------------
(* Running *)

Enter ==
  /\ phase = "fixup" /\ fixups = <<>>
  /\ phase' = "run"
  /\ \E rf \in RegFiles :
       m' = [NoMachine EXCEPT !.ip = 1, !.rf = rf, !.sp = Stack0, !.st = "run",
                              !.exc = <<3, 5>>]
  /\ pre' = m'
  /\ UNCHANGED <<prog, flag, cur, text, bboff, fixups, code, last>>

\* The instruction that the interpreter is in
Current == CHOOSE k \in DOMAIN code : code[k].from <= m.ip /\ m.ip < code[k].to

\* An instruction is over when the interpreter is not further into it.
After(p) ==
  LET k == code[Current] IN
  IF p.st # "run" \/ p.ip <= k.from \/ p.ip >= k.to
  THEN /\ last' = [done |-> TRUE, ii |-> k.ii, end |-> k.to, pre |-> pre, post |-> p]
       /\ m' = [p EXCEPT !.eff = <<>>]
       /\ pre' = m'
  ELSE m' = p /\ UNCHANGED <<pre, last>>

Running == phase = "run" /\ m.st = "run"

VmStep ==
  /\ Running /\ IsOpcode(text, m.ip) /\ ~IsCall(text[m.ip].v)
  /\ After(vm_exec(text, m))
  /\ UNCHANGED <<phase, prog, flag, cur, text, bboff, fixups, code>>

\* A call returns, or an exception comes out of it.
CallStep ==
  /\ Running /\ IsOpcode(text, m.ip) /\ IsCall(text[m.ip].v)
  /\ \E r \in {0, 1} :
       LET o == text[m.ip].v
           f == CallTarget(text, m, o)
           p == exec_call(text, m, o, HostCall(<<f>>), r, RegBits(code[Current].ii.ty))
       IN  After([p EXCEPT !.thrown = r])
  /\ text' = Patched(text, m, text[m.ip].v)
  /\ UNCHANGED <<phase, prog, flag, cur, bboff, fixups, code>>

Finished ==
  /\ phase \in {"parser_error", "assert"} \/ (phase = "run" /\ m.st # "run")
  /\ UNCHANGED vars

Next == EmitHeader \/ EmitInstr \/ Fixup \/ Enter \/ VmStep \/ CallStep \/ Finished

Spec == Init /\ [][Next]_vars

-----------------------------------------------------------------------------
(* Properties *)

\* What the program text cannot rely on: see the README, "Limits".
Dirty(s, ty, x) == IsReg(x) /\ s.rf[x[2]] # Val(s, ty, x)

Deviates(s, ii, r) ==
  \* division and shifts of narrow integers use the whole slot
  \/ /\ ii.c = "BINOP" /\ ii.ty \in {"i1", "i8", "i16"}
     /\ ii.op \in {"UDIV", "UREM", "LSHR", "SHL"} \/ (ii.ty = "i1" /\ ii.op \in SignedOps)
     /\ Dirty(s, ii.ty, ii.lhs) \/ Dirty(s, ii.ty, ii.rhs)
  \* a boolean is tested as a whole slot
  \/ ii.c = "BR" /\ Dirty(s, "i1", ii.cond)
  \/ ii.c = "SELECT" /\ Dirty(s, "i1", ii.pred)
  \/ ii.c = "SWITCH" /\ ii.ty = "i1" /\ Dirty(s, "i1", ii.val)
  \/ ii.c = "CAST" /\ ii.from = "i1" /\ Dirty(s, "i1", ii.val)
  \/ ii.c = "STORE" /\ ii.ty = "i1" /\ Dirty(s, "i1", ii.val)
  \* and made by testing a byte, where bit 0 is asked for
  \/ ii.c = "CAST" /\ ii.ty = "i1" /\ Val(s, ii.from, ii.val) > 1
  \/ ii.c = "LOAD" /\ ii.ty = "i1" /\ HostMem(Address(s, ii)) % Size(8) > 1
  \* unordered or greater or equal, and unordered
  \/ ii.c = "CMP2" /\ ii.op = (IF IsReg(ii.lhs) THEN "F_UGE" ELSE "F_ULE")
  \/ ii.c = "CMP2" /\ ii.op = "F_UNO" /\ IsReg(ii.lhs) /\ IsNan(TypeBits(ii.ty), Val(s, ii.ty, ii.rhs))
  \* a pointer is not converted to an i64
  \/ ii.c = "CAST" /\ ii.op = "PTRTOINT"
  \* the multiplier of a load is cut to 16 bits
  \/ ii.c = "LOAD" /\ ii.roff # None /\ ~InInt16(ii.mul)
  \* what an external function called through a register throws is lost
  \/ /\ ii.c = "CALL" /\ IsReg(ii.fn) /\ r = 1
     /\ Val(s, "i32", ii.fn) \in ExtFuncs

Claimed == last.done => ~Poison(last.pre, last.ii)
                          /\ ~Deviates(last.pre, last.ii, last.post.thrown)

Meant == Meaning(last.pre, last.ii, last.post.thrown)

\* Slots an instruction may write: its results and the two scratch registers
Written(out) == {0, 4} \cup {o[2] : o \in Range(out)}
                  \cup {o[2] + 4 : o \in {x \in Range(out) : x[1] \in Slot64}}

TypeOK ==
  /\ phase \in {"emit", "fixup", "run", "parser_error", "assert"}
  /\ Len(text) < TextMax
  /\ \A i \in DOMAIN text : text[i].w \in {-1, 0, 8, 16, 32, 64}
  /\ phase = "run" => \A i \in DOMAIN text : text[i].w # -1
  /\ m.st \in {"none", "run", "returned", "unwound", "unreachable", "undefined",
              "bad_function"}

\* What the words emitted for an instruction do is what the instruction means:
\* its results, its effects on memory and the host, the stack pointer and how
\* the function ends are right, and no other register changes, whatever the
\* registers held (emit_* against the VMOP handlers of vm_exec).
StepRight ==
  (last.done /\ Claimed) =>
    LET p == last.post IN
    /\ \A o \in Range(Meant.out) :
         Val(p, o[1], <<"reg", o[2]>>) = o[3] % Size(TypeBits(o[1]))
    /\ \A q \in DOMAIN p.rf \ Written(Meant.out) : p.rf[q] = last.pre.rf[q]
    /\ p.eff = Meant.eff /\ p.sp = Meant.sp /\ p.st = Meant.st /\ p.exc = Meant.exc
    /\ (Meant.ret # <<>> => p.ret % Size(TypeBits(Meant.ret[1])) = Meant.ret[2])

\* After an instruction the interpreter is at the first word of the one that
\* follows it in the program: the operands skipped are the operands emitted,
\* and every branch, switch and invoke goes to the block it names
\* (NEXT(n) and branch_fixup against the emit_ functions).
LandsRight ==
  /\ (last.done /\ Claimed /\ last.post.st = "run") =>
       /\ last.post.ip = (IF Meant.goto = 0 THEN last.end ELSE bboff[Meant.goto])
       /\ IsOpcode(text, last.post.ip)
  /\ phase = "run" =>
       \A k \in DOMAIN code :
         (code[k].from = code[k].to /\ code[k].ii.c = "BR") =>
            bboff[code[k].ii.t] = code[k].to

\* Immediates that are read as a double, a float or 64 bits are on a 32 bit
\* boundary, wherever the instruction begins (vm_align32).
ImmAligned ==
  \A i \in DOMAIN text :
    /\ text[i].w = 64 /\ text[i].p = 1 => i % 2 = 1
    /\ (text[i].w = 0 /\ text[i].v[1] \in {"FALU", "FCMP"} /\ text[i].v[3] = "C") => i % 2 = 0

\* The text is words the interpreter can read: resolved once branch_fixup is
\* through, and each wide immediate where the host may load it from.
TextSound == TypeOK /\ ImmAligned

\* The comparison "unordered, greater or equal" is true of a NaN and of a first
\* operand that is greater or equal (VM_UGE_DBL, VM_UGE_FLT and their _C forms).
UnorderedOrGreaterEqual ==
  (last.done /\ last.ii.c = "CMP2" /\ last.ii.op = "F_UGE") =>
     Val(last.post, "i1", last.ii.ret) = (IF True(last.pre, last.ii) THEN 1 ELSE 0)
=============================================================================
