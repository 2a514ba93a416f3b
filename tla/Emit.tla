-------------------------------- MODULE Emit --------------------------------
(***************************************************************************)
(* The code generator of vmir_vm.c, one operator for each emit_ function.  *)
(*                                                                         *)
(* Each of them takes an instruction and chooses an opcode from the types  *)
(* and the classes of its operands, and lays the operands out in words.    *)
(* An opcode is a tuple that begins with its family; the names that the    *)
(* code computes (VM_ADD_R32 + binop) end with the operator.  A branch     *)
(* holds block numbers, which branch_fixup later replaces by distances.    *)
(*                                                                         *)
(* odd says whether the text has an odd number of words so far.            *)
(***************************************************************************)
EXTENDS Words

CONSTANTS TableWidth,   \* INTx switches this narrow get a jump table (4)
          TablePaths,   \* and byte switches with more paths than this (64)
          EarlyExt,     \* functions whose if_ext_func is known when emitting
          RegFrameSize  \* if_regframe_size

-----------------------------------------------------------------------------
(* Writing words *)

\* vm_resolve turns an opcode into the address of its handler.
vm_resolve(o) == Word(0, 1, o)
Op(o)         == <<vm_resolve(o)>>
Raw(o)        == <<Word(-1, 1, o)>>

emit_i8(v)  == <<Word(8, 1, v % Size(8))>>
emit_i16(v) == <<Word(16, 1, v % Size(16))>>
emit_i32(v) == [p \in 1..2 |-> Word(32, p, v % Size(32))]
emit_i64(v) == [p \in 1..4 |-> Word(64, p, v % Size(64))]

emit_imm(w, v) == CASE w = 8 -> emit_i8(v) [] w = 16 -> emit_i16(v)
                    [] w = 32 -> emit_i32(v) [] w = 64 -> emit_i64(v)

\* Registers, block numbers, functions and counts are 16 bit words too.
Args(args) == [i \in DOMAIN args |-> Word(16, 1, Wrap16(args[i]))]

emit_op(o, args) == Op(o) \o Args(args)

(* Mutant of vm_align32: the NOP is never needed. *)
vm_align32Never(odd, imm_at_odd, ws) == ws

\* The NOP that puts a wide immediate on a 32 bit boundary
vm_align32(odd, imm_at_odd, ws) ==
  IF imm_at_odd # odd THEN Op(<<"NOP">>) \o ws ELSE ws

\* What an emit_ function leaves: its words and, for a branch, which of them
\* is the opcode that iu_branch_fixups points to (0: none).
Ok(ws)       == [err |-> "", ws |-> ws, fix |-> 0]
Branch(at, ws) == [err |-> "", ws |-> ws, fix |-> at]
parser_error == [err |-> "parser_error", ws |-> <<>>, fix |-> 0]
assertion    == [err |-> "assert", ws |-> <<>>, fix |-> 0]

-----------------------------------------------------------------------------
(* Operands: <<class, register, constant or address>>.  A constant narrower *)
(* than its slot may be stored sign extended.                               *)

None       == <<"none", 0>>
IsReg(x)   == x[1] = "reg"
IsConst(x) == x[1] = "const"
IsGvar(x)  == x[1] = "gvar"
IsFunc(x)  == x[1] = "func"
IsImm(x)   == IsConst(x) \/ IsGvar(x)
value_reg(x) == x[2]

\* value_get_const32, value_get_const64
value_get_const(ty, x) ==
  IF ty = "i1" /\ IsConst(x) THEN (IF x[2] = 0 THEN 0 ELSE 1) ELSE x[2]

value_function_addr(x) == x[2]

(* Mutant of swap_pred: the operands are exchanged and the relation is not. *)
swap_predNot(pred) == pred

swap_pred(pred) ==
  LET swaps == {{"SGT", "SLT"}, {"SGE", "SLE"}, {"UGT", "ULT"}, {"UGE", "ULE"},
                {"F_OGT", "F_OLT"}, {"F_OGE", "F_OLE"},
                {"F_UGT", "F_ULT"}, {"F_UGE", "F_ULE"}}
      mine  == {p \in swaps : pred \in p}
  IN  IF mine = {} THEN pred
      ELSE CHOOSE q \in UNION mine : q # pred

\* The operands of a comparison with the register first
Swapped(ii) == [ii EXCEPT !.lhs = ii.rhs, !.rhs = ii.lhs, !.op = swap_pred(ii.op)]

-----------------------------------------------------------------------------
emit_ret(ii, odd) ==
  LET v == ii.val IN
  CASE v = None -> Ok(Op(<<"RET_VOID">>))
    [] IsReg(v) -> Ok(emit_op(<<"RET", RegBits(ii.ty), "R">>, <<value_reg(v)>>))
    [] IsGvar(v) /\ ii.ty # "ptr" -> parser_error
    [] IsFunc(v) -> Ok(Op(<<"RET", 32, "C">>) \o emit_i32(value_function_addr(v)))
    [] IsImm(v) /\ ii.ty \notin Slot64 ->
         Ok(Op(<<"RET", 32, "C">>) \o emit_i32(value_get_const(ii.ty, v)))
    [] IsConst(v) /\ ii.ty \in Slot64 ->
         Ok(vm_align32(odd, 1,
              Op(<<"RET", 64, "C">>) \o emit_i64(value_get_const(ii.ty, v))))

\* BINOP_SDIV and BINOP_UDIV are both the floating point division.
FloatOp(op) == IF op \in {"SDIV", "UDIV"} THEN "DIV" ELSE op

emit_binop_rr(ii) ==
  LET args    == <<value_reg(ii.ret), value_reg(ii.lhs), value_reg(ii.rhs)>>
      alu(w)  == Ok(emit_op(<<"ALU", w, "R", Nth(VmBinops, Binops, ii.op)>>, args))
  IN  CASE ii.ty \in {"i1", "i32"} -> alu(32)
        [] ii.ty \in {"i8", "i16"} ->
             alu(IF ii.op \in SignedOps THEN TypeBits(ii.ty) ELSE 32)
        [] ii.ty = "i64" -> alu(64)
        [] ii.ty \in Floats /\ FloatOp(ii.op) \in {"ADD", "SUB", "MUL", "DIV"} ->
             Ok(emit_op(<<"FALU", TypeBits(ii.ty), "R", FloatOp(ii.op)>>, args))
        [] OTHER -> parser_error

emit_binop_rc(ii, odd) ==
  LET args == <<value_reg(ii.ret), value_reg(ii.lhs)>>
      c    == value_get_const(ii.ty, ii.rhs)
      op   == Nth(VmBinops, Binops, ii.op)
      all1 == Size(32) - 1
      alu(w, v) == emit_op(<<"ALU", w, "C", op>>, args) \o emit_imm(w, v)
  IN  CASE ii.ty = "i8" /\ ii.op \in SignedOps -> Ok(alu(8, c))
        [] ii.ty = "i8" /\ ii.op \notin SignedOps -> Ok(alu(16, c % Size(8)))
        [] ii.ty = "i16" -> Ok(alu(16, c))
        [] ii.ty \in {"i1", "i32"} ->
             Ok(IF <<ii.op, c>> \in {<<"ADD", 1>>, <<"SUB", all1>>}
                THEN emit_op(<<"INC">>, args)
                ELSE IF <<ii.op, c>> \in {<<"ADD", all1>>, <<"SUB", 1>>}
                THEN emit_op(<<"DEC">>, args)
                ELSE alu(32, c))
        [] ii.ty = "i64" -> Ok(vm_align32(odd, 1, alu(64, c)))
        [] ii.ty \in Floats /\ FloatOp(ii.op) \in {"ADD", "SUB", "MUL", "DIV"} ->
             LET w == TypeBits(ii.ty) IN
             Ok(vm_align32(odd, 1, emit_op(<<"FALU", w, "C", FloatOp(ii.op)>>, args)
                                     \o emit_imm(w, c)))
        [] OTHER -> parser_error

emit_binop(ii, odd) ==
  CASE IsReg(ii.lhs) /\ IsReg(ii.rhs)   -> emit_binop_rr(ii)
    [] IsReg(ii.lhs) /\ IsConst(ii.rhs) -> emit_binop_rc(ii, odd)
    [] OTHER -> parser_error

-----------------------------------------------------------------------------
\* The displacement, and the register that is multiplied and added to it
Displacement(ii) ==
  emit_i16(ii.off)
    \o (IF ii.roff = None THEN <<>>
        ELSE Args(<<value_reg(ii.roff)>>) \o emit_i16(ii.mul))

Indexed(ii) == IF ii.roff = None THEN "OFF" ELSE "ROFF"

InInt16(v) == -(Size(16) \div 2) <= v /\ v < Size(16) \div 2

emit_load1(ii) ==
  LET has_offset == ii.off # 0 \/ ii.roff # None
      w    == MemBits(ii.ty)
      regs == <<value_reg(ii.ret), value_reg(ii.src)>>
      global(r) == emit_op(<<"LOAD", w, "G">>, <<r>>)
                     \o emit_i32(value_get_const("ptr", ii.src))
  IN  CASE ~InInt16(ii.off) -> assertion
        [] InInt16(ii.off) /\ IsReg(ii.src) /\ ~has_offset ->
             Ok(emit_op(<<"LOAD", w, "R">>, regs))
        [] InInt16(ii.off) /\ IsReg(ii.src) /\ has_offset /\ ii.ty # "i1" ->
             Ok(emit_op(<<"LOAD", w, Indexed(ii)>>, regs) \o Displacement(ii))
        [] InInt16(ii.off) /\ IsImm(ii.src) /\ ~has_offset /\ ii.ty # "i1" ->
             Ok(global(value_reg(ii.ret)))
        [] InInt16(ii.off) /\ IsImm(ii.src) /\ ~has_offset /\ ii.ty = "i1" ->
             Ok(global(0)
                  \o emit_op(<<"CAST", "i1", "TRUNC", "i8">>, <<value_reg(ii.ret), 0>>))
        [] OTHER -> parser_error

\* A load whose result is extended (ii.lty is what memory holds)
emit_load_cast(ii) ==
  CASE ~IsReg(ii.src) -> assertion
    [] IsReg(ii.src) /\ ii.ty = "i32" /\ ii.lty \in {"i8", "i16"}
         /\ ii.cast \in {"ZEXT", "SEXT"} ->
         Ok(emit_op(<<"LOADX", TypeBits(ii.lty), ii.cast, Indexed(ii)>>,
                    <<value_reg(ii.ret), value_reg(ii.src)>>)
              \o Displacement(ii))
    [] OTHER -> parser_error

emit_load(ii) == IF ii.cast # "" THEN emit_load_cast(ii) ELSE emit_load1(ii)

\* A register to a register address
emit_store_rr(ii, w) ==
  LET regs == <<value_reg(ii.ptr), value_reg(ii.val)>> IN
  IF ii.off = 0 THEN Ok(emit_op(<<"STORE", w, "R">>, regs))
  ELSE Ok(emit_op(<<"STORE", w, "OFF">>, regs) \o emit_i16(ii.off))

StoreG(w, r, ptr) == emit_op(<<"STORE", w, "G">>, <<r>>)
                       \o emit_i32(value_get_const("ptr", ptr))

\* A constant to a fixed address goes through scratch register 0.
emit_store_cg(ii, w, odd) ==
  LET ws == emit_op(<<"MOV", w, "C">>, <<0>>)
              \o emit_imm(w, value_get_const(ii.ty, ii.val)) \o StoreG(w, 0, ii.ptr)
  IN  Ok(IF w = 64 THEN vm_align32(odd, 0, ws) ELSE ws)

\* A constant to a register address
emit_store_cr(ii, w, odd) ==
  LET ws == emit_op(<<"STORE", w, "C_OFF">>, <<value_reg(ii.ptr)>>)
              \o emit_i16(ii.off) \o emit_imm(w, value_get_const(ii.ty, ii.val))
  IN  Ok(IF w = 64 THEN vm_align32(odd, 1, ws) ELSE ws)

emit_store(ii, odd) ==
  LET ty == IF ii.ty = "func" THEN "ptr" ELSE ii.ty
      w  == MemBits(ty)
      \* what may be stored as an immediate
      immediate == IsConst(ii.val) \/ (IsGvar(ii.val) /\ w = 32)
                     \/ (IsFunc(ii.val) /\ ii.ty = "func")
      fixed == IsImm(ii.ptr) /\ ii.off = 0 /\ (ty = "i1" => IsGvar(ii.ptr))
  IN  CASE ~InInt16(ii.off) -> assertion
        [] InInt16(ii.off) /\ IsReg(ii.val) /\ IsReg(ii.ptr) /\ ty # "i1" ->
             emit_store_rr(ii, w)
        [] InInt16(ii.off) /\ IsReg(ii.val) /\ fixed ->
             Ok(StoreG(w, value_reg(ii.val), ii.ptr))
        [] InInt16(ii.off) /\ immediate /\ fixed
             /\ (IsGvar(ii.val) => ty = "ptr") -> emit_store_cg(ii, w, odd)
        [] InInt16(ii.off) /\ immediate /\ IsReg(ii.ptr) -> emit_store_cr(ii, w, odd)
        [] OTHER -> parser_error

-----------------------------------------------------------------------------
emit_cmp2_rr(ii) ==
  LET args == <<value_reg(ii.ret), value_reg(ii.lhs), value_reg(ii.rhs)>> IN
  CASE IsFcmp(ii.op) /\ ii.ty \in Floats ->
         Ok(emit_op(<<"FCMP", TypeBits(ii.ty), "R", Nth(VmFcmps, Fcmps, ii.op)>>, args))
    [] IsIcmp(ii.op) /\ ii.ty \in {"i8", "i16", "i32", "ptr", "i64"} ->
         Ok(emit_op(<<"CMP", TypeBits(ii.ty), "R", Nth(VmIcmps, Icmps, ii.op)>>, args))
    [] OTHER -> parser_error

emit_cmp2_rc(ii, odd) ==
  LET args == <<value_reg(ii.ret), value_reg(ii.lhs)>>
      w    == TypeBits(ii.ty)
      c    == value_get_const(ii.ty, ii.rhs)
  IN  CASE IsFcmp(ii.op) /\ ii.ty \in Floats /\ ~IsNan(w, c) ->
             Ok(vm_align32(odd, 1,
                  emit_op(<<"FCMP", w, "C", Nth(VmFcmps, Fcmps, ii.op)>>, args)
                    \o emit_imm(w, c)))
        [] IsIcmp(ii.op) /\ ii.ty \in {"i8", "i16", "i32", "ptr", "i64"} ->
             LET ws == emit_op(<<"CMP", w, "C", Nth(VmIcmps, Icmps, ii.op)>>, args)
                         \o emit_imm(w, c)
             IN  Ok(IF w = 64 THEN vm_align32(odd, 1, ws) ELSE ws)
        [] OTHER -> parser_error

emit_cmp2(ii, odd) ==
  LET i2 == IF IsReg(ii.lhs) THEN ii ELSE Swapped(ii) IN
  CASE IsReg(ii.lhs) /\ IsReg(ii.rhs) -> emit_cmp2_rr(ii)
    [] IsReg(i2.lhs) /\ IsConst(i2.rhs) -> emit_cmp2_rc(i2, odd)
    [] IsReg(i2.lhs) /\ IsGvar(i2.rhs) /\ IsIcmp(ii.op) /\ ii.ty = "ptr" ->
         emit_cmp2_rc(i2, odd)
    [] OTHER -> parser_error

\* The fixup is recorded before anything is emitted.
emit_cmp_branch(ii) ==
  LET both == IsReg(ii.lhs) /\ IsReg(ii.rhs)
      i2   == IF ~both /\ IsReg(ii.rhs) THEN Swapped(ii) ELSE ii
      head(w, cls) == Raw(<<"CBR", w, cls, Nth(VmIcmpBrs, Icmps, i2.op)>>)
                        \o Args(<<ii.t, ii.f, value_reg(i2.lhs)>>)
      w    == TypeBits(ii.ty)
  IN  CASE ~IsIcmp(ii.op) \/ ii.ty \notin {"i8", "i32", "ptr"} -> parser_error
        [] both /\ IsIcmp(ii.op) /\ ii.ty \in {"i8", "i32", "ptr"} ->
             Branch(1, head(w, "R") \o Args(<<value_reg(ii.rhs)>>))
        [] ~both /\ IsIcmp(ii.op) /\ ii.ty \in {"i8", "i32", "ptr"}
             /\ IsReg(i2.lhs) /\ IsImm(i2.rhs) ->
             Branch(1, head(w, "C") \o emit_imm(w, value_get_const(ii.ty, i2.rhs)))
        [] ~both /\ IsIcmp(ii.op) /\ IsReg(i2.lhs) /\ IsFunc(i2.rhs) ->
             Branch(1, head(32, "C") \o emit_i32(value_function_addr(i2.rhs)))
        [] OTHER -> parser_error

\* A constant that is selected is first moved to a scratch register.
Scratch(x, r) == IF IsReg(x) THEN <<>>
                 ELSE emit_op(<<"MOV", 32, "C">>, <<r>>)
                        \o emit_i32(value_get_const("i32", x))
ScratchReg(x, r) == IF IsReg(x) THEN value_reg(x) ELSE r

emit_cmp_select(ii) ==
  LET i2 == IF IsReg(ii.rhs) /\ ~IsReg(ii.lhs) THEN Swapped(ii) ELSE ii
      op(cls) == <<"CSEL", 32, cls, Nth(VmIcmpBrs, Icmps, i2.op)>>
      args == <<value_reg(ii.ret), ScratchReg(ii.tv, 0), ScratchReg(ii.fv, 4),
                value_reg(i2.lhs)>>
      moves == Scratch(ii.tv, 0) \o Scratch(ii.fv, 4)
  IN  CASE ~IsIcmp(ii.op) \/ ii.ty \notin {"i32", "ptr"} \/ ~IsReg(i2.lhs)
             \/ IsFunc(ii.tv) \/ IsFunc(ii.fv) -> parser_error
        [] OTHER ->
             IF IsReg(i2.rhs)
             THEN Ok(moves \o emit_op(op("R"), Append(args, value_reg(i2.rhs))))
             ELSE IF IsImm(i2.rhs)
             THEN Ok(moves \o emit_op(op("C"), args)
                       \o emit_i32(value_get_const(ii.ty, i2.rhs)))
             ELSE parser_error

-----------------------------------------------------------------------------
\* next is the block laid out after this one (0: none).
emit_br(ii, next) ==
  CASE ii.cond = None ->
         IF next = ii.t /\ next # 0 THEN Ok(<<>>)
         ELSE Branch(1, Raw(<<"B">>) \o Args(<<ii.t>>))
    [] IsReg(ii.cond) ->
         Branch(1, Raw(<<"BCOND">>) \o Args(<<value_reg(ii.cond), ii.t, ii.f>>))
    [] IsConst(ii.cond) ->
         Branch(1, Raw(<<"B">>)
                     \o Args(<<IF value_get_const("i1", ii.cond) # 0
                               THEN ii.t ELSE ii.f>>))
    [] OTHER -> parser_error

\* ii.paths is sorted by value, as parse_switch left it.
Paths(ii) == Args([i \in DOMAIN ii.paths |-> ii.paths[i][2]] \o <<ii.def>>)

SearchTable(ii, w, reg, mask) ==
  Raw(<<"SWITCH", w>>) \o Args(<<reg, Len(ii.paths)>>)
    \o FlattenSeq([i \in DOMAIN ii.paths |-> emit_imm(w, ii.paths[i][1] % mask)])
    \o Paths(ii)

\* The table is filled with the default, then path by path.
JumpTable(ii, reg, size) ==
  LET hit(v) == {i \in DOMAIN ii.paths : ii.paths[i][1] % size = v}
      dest(v) == IF hit(v) = {} THEN ii.def
                 ELSE ii.paths[CHOOSE i \in hit(v) : \A j \in hit(v) : j <= i][2]
  IN  Raw(<<"JUMPTABLE">>) \o Args(<<reg, size>>)
        \o Args([i \in 1..size |-> dest(i - 1)])

\* ii.bits is the width of an INTx.
emit_switch(ii, odd) ==
  LET reg == value_reg(ii.val) IN
  CASE ii.ty = "ix" /\ ii.bits <= TableWidth -> Branch(1, JumpTable(ii, reg, 2 ^ ii.bits))
    [] ii.ty = "ix" /\ ii.bits > TableWidth ->
         LET mask == emit_op(<<"ALU", 32, "C", "AND">>, <<0, reg>>)
                       \o emit_i32(2 ^ ii.bits - 1)
         IN  Branch(Len(mask) + 1, mask \o SearchTable(ii, 32, 0, 2 ^ ii.bits))
    [] ii.ty \in {"i1", "i8"} ->
         IF Len(ii.paths) > TablePaths THEN Branch(1, JumpTable(ii, reg, Size(8)))
         ELSE Branch(1, SearchTable(ii, 8, reg, Size(8)))
    [] ii.ty = "i16" ->
         LET cast == emit_op(<<"CAST", "i16", "TRUNC", "i32">>, <<0, reg>>)
         IN  Branch(Len(cast) + 1, cast \o SearchTable(ii, 32, 0, Size(16)))
    [] ii.ty = "i32" -> Branch(1, SearchTable(ii, 32, reg, Size(32)))
    [] ii.ty = "i64" ->
         LET ws == vm_align32(odd, 1, SearchTable(ii, 64, reg, Size(64)))
         IN  Branch(IF ws[1].w = -1 THEN 1 ELSE 2, ws)
    [] OTHER -> parser_error

\* Two i32 results in adjacent registers are moved as one 64 bit value.
emit_move(ii, odd) ==
  LET pair == ii.ret2 # None
      ty   == IF pair THEN "i64" ELSE ii.ty
      w    == IF ty = "i1" THEN 32 ELSE TypeBits(ty)
      r    == value_reg(ii.ret)
      imm  == emit_op(<<"MOV", w, "C">>, <<r>>) \o emit_imm(w, value_get_const(ty, ii.val))
  IN  CASE pair /\ (r + 4 # value_reg(ii.ret2) \/ ii.ty # "i32") -> parser_error
        [] IsConst(ii.val) -> Ok(IF w = 64 THEN vm_align32(odd, 0, imm) ELSE imm)
        [] IsGvar(ii.val) /\ ty = "ptr" -> Ok(imm)
        [] IsReg(ii.val) -> Ok(emit_op(<<"MOV", RegBits(ty), "R">>, <<r, value_reg(ii.val)>>))
        [] IsFunc(ii.val) /\ ty = "ptr" ->
             Ok(emit_op(<<"MOV", 32, "C">>, <<r>>) \o emit_i32(value_function_addr(ii.val)))
        [] OTHER -> parser_error

emit_stackcopy(ii) ==
  LET r == value_reg(ii.ret) IN
  CASE IsImm(ii.val) -> Ok(emit_op(<<"STACKCOPY", "C">>, <<r>>)
                             \o emit_i32(value_get_const("ptr", ii.val)) \o emit_i32(ii.size))
    [] IsReg(ii.val) -> Ok(emit_op(<<"STACKCOPY", "R">>, <<r, value_reg(ii.val)>>)
                             \o emit_i32(ii.size))
    [] OTHER -> parser_error

emit_stackshrink(ii) == Ok(Op(<<"STACKSHRINK">>) \o emit_i32(ii.size))

\* base + voff * mul + off
emit_lea(ii) ==
  LET two  == <<value_reg(ii.ret), value_reg(ii.base)>>
      args == Append(two, value_reg(ii.voff))
      fb   == CHOOSE k \in 0..W32 : ii.mul % 2 ^ k = 0 /\ ii.mul % 2 ^ (k + 1) # 0
  IN  IF ii.voff = None
      THEN Ok(emit_op(<<"ALU", 32, "C", "ADD">>, two) \o emit_i32(ii.off))
      ELSE CASE ii.vty # "i32" -> parser_error
             [] ii.vty = "i32" /\ ii.mul = 0 -> assertion
             [] ii.vty = "i32" /\ ii.mul # 0 /\ 2 ^ fb = ii.mul ->
                  Ok(IF ii.off # 0
                     THEN emit_op(<<"LEA", "SHL_OFF">>, Append(args, fb)) \o emit_i32(ii.off)
                     ELSE IF fb = 2 THEN emit_op(<<"LEA", "SHL2">>, args)
                     ELSE emit_op(<<"LEA", "SHL">>, Append(args, fb)))
             [] OTHER -> Ok(emit_op(<<"LEA", "MUL_OFF">>, args)
                              \o emit_i32(ii.mul) \o emit_i32(ii.off))

\* Conversions between integers, and between integers and floating point
IntCasts ==
  {<<"i1", "TRUNC", f>> : f \in {"i8", "i16"}}
    \cup {<<"i8", "SEXT", "i1">>, <<"i16", "ZEXT", "i1">>, <<"i16", "ZEXT", "i8">>,
          <<"i16", "SEXT", "i8">>, <<"i32", "SEXT", "i1">>, <<"i32", "TRUNC", "i64">>}
    \cup {<<"i8", "TRUNC", f>> : f \in {"i16", "i32", "i64"}}
    \cup {<<"i16", "TRUNC", f>> : f \in {"i32", "i64"}}
    \cup {<<"i32", x, f>> : x \in {"ZEXT", "SEXT"}, f \in {"i8", "i16"}}
    \cup {<<"i64", x, f>> : x \in {"ZEXT", "SEXT"}, f \in {"i1", "i8", "i16", "i32"}}

FloatCasts ==
  {<<t, x, f>> : t \in {"i16", "i32", "i64"}, x \in {"FPTOSI", "FPTOUI"}, f \in Floats}
    \cup {<<t, x, f>> : t \in Floats, x \in {"SITOFP", "UITOFP"},
                        f \in {"i8", "i16", "i32", "i64"}}
    \cup {<<"flt", "FPTRUNC", "dbl">>, <<"dbl", "FPEXT", "flt">>}

emit_cast(ii) ==
  LET key  == <<ii.ty, ii.op, ii.from>>
      regs == <<value_reg(ii.ret), value_reg(ii.val)>>
  IN  CASE key \in IntCasts \cup FloatCasts ->
             Ok(emit_op(<<"CAST", ii.ty, ii.op, ii.from>>, regs))
        [] key = <<"i8", "ZEXT", "i1">> ->
             Ok(emit_op(<<"CAST", "i8", "TRUNC", "i32">>, regs))
        [] key \in {<<"i32", "ZEXT", "i1">>, <<"i32", "BITCAST", "flt">>,
                    <<"flt", "BITCAST", "i32">>} -> Ok(emit_op(<<"MOV", 32, "R">>, regs))
        [] key \in {<<"dbl", "BITCAST", "i64">>, <<"i64", "BITCAST", "dbl">>} ->
             Ok(emit_op(<<"MOV", 64, "R">>, regs))
        \* the opcode is chosen and then never emitted
        [] key = <<"i64", "PTRTOINT", "ptr">> -> Ok(<<>>)
        [] OTHER -> parser_error

ReturnReg(ii) == IF ii.ret = None THEN 0 ELSE value_reg(ii.ret)

emit_call(ii) ==
  LET args == <<value_reg(ii.fn), RegFrameSize, ReturnReg(ii)>> IN
  CASE IsFunc(ii.fn) -> Ok(emit_op(IF ii.fn[2] \in EarlyExt THEN <<"JSR_EXT">>
                                   ELSE <<"JSR">>, args))
    [] IsReg(ii.fn)  -> Ok(emit_op(<<"JSR_R">>, args))
    [] OTHER -> parser_error

emit_invoke(ii) ==
  LET args == <<value_reg(ii.fn), RegFrameSize, ReturnReg(ii), ii.normal, ii.unwind>> IN
  CASE IsFunc(ii.fn) -> Branch(1, Raw(IF ii.fn[2] \in EarlyExt THEN <<"INVOKE_EXT">>
                                      ELSE <<"INVOKE">>) \o Args(args))
    [] IsReg(ii.fn)  -> Branch(1, Raw(<<"INVOKE_R">>) \o Args(args))
    [] OTHER -> parser_error

emit_alloca(ii) ==
  LET args == <<value_reg(ii.ret), ii.align>> IN
  CASE IsConst(ii.num) -> Ok(emit_op(<<"ALLOCA">>, args)
                               \o emit_i32(ii.size * value_get_const("i32", ii.num)))
    [] IsReg(ii.num) /\ ii.nty = "i32" ->
         Ok(emit_op(<<"ALLOCAD">>, Append(args, value_reg(ii.num))) \o emit_i32(ii.size))
    [] OTHER -> parser_error

emit_select(ii, odd) ==
  LET w    == RegBits(ii.ty)
      head == <<value_reg(ii.ret), value_reg(ii.pred)>>
      c(x) == emit_imm(w, IF w = 64 THEN x[2] ELSE Masked(ii.ty, value_get_const(ii.ty, x)))
      aligned(imm_at_odd, ws) == Ok(IF w = 64 THEN vm_align32(odd, imm_at_odd, ws) ELSE ws)
  IN  CASE ii.ty = "i1" \/ IsFunc(ii.tv) \/ IsFunc(ii.fv)
             \/ (ii.ty # "ptr" /\ (IsGvar(ii.tv) \/ IsGvar(ii.fv))) -> parser_error
        [] OTHER ->
             CASE IsReg(ii.tv) /\ IsReg(ii.fv) ->
                    Ok(emit_op(<<"SELECT", w, "RR">>,
                               head \o <<value_reg(ii.tv), value_reg(ii.fv)>>))
               [] IsReg(ii.tv) /\ IsImm(ii.fv) ->
                    aligned(0, emit_op(<<"SELECT", w, "RC">>, Append(head, value_reg(ii.tv)))
                                 \o c(ii.fv))
               [] IsImm(ii.tv) /\ IsReg(ii.fv) ->
                    aligned(0, emit_op(<<"SELECT", w, "CR">>, Append(head, value_reg(ii.fv)))
                                 \o c(ii.tv))
               [] IsImm(ii.tv) /\ IsImm(ii.fv) ->
                    aligned(1, emit_op(<<"SELECT", w, "CC">>, head) \o c(ii.tv) \o c(ii.fv))

\* rets and args are <<type, register>>.
emit_vmop(ii) ==
  LET reg(x) == x[2] IN
  Ok(emit_op(<<"VMOP", ii.op>>,
             [i \in DOMAIN ii.rets |-> reg(ii.rets[i])]
               \o [i \in DOMAIN ii.args |-> reg(ii.args[i])]))

emit_vaarg(ii) ==
  CASE IsFunc(ii.val) \/ ii.ty \notin {"i32", "ptr", "i1", "dbl", "i64"} -> parser_error
    [] OTHER -> Ok(Scratch(ii.val, 0)
                     \o emit_op(<<"VAARG", RegBits(ii.ty)>>,
                                <<value_reg(ii.ret), ScratchReg(ii.val, 0)>>))

emit_mla(ii) ==
  IF ii.ty # "i32" THEN parser_error
  ELSE Ok(emit_op(<<"MLA">>, <<value_reg(ii.ret), value_reg(ii.a1), value_reg(ii.a2),
                               value_reg(ii.a3)>>))

emit_landingpad(ii) ==
  IF Len(ii.rets) # 2 THEN parser_error
  ELSE Ok(emit_op(<<"LANDINGPAD">>, <<ii.rets[1][2], ii.rets[2][2]>>))

emit_resume(ii) ==
  IF Len(ii.vals) # 2 THEN parser_error
  ELSE Ok(emit_op(<<"RESUME">>, <<value_reg(ii.vals[1]), value_reg(ii.vals[2])>>))

\* VM_INSTRUMENT_COUNT, at the head of a block
emit_count(n) == Ok(Op(<<"INSTRUMENT_COUNT">>) \o emit_i32(n))

instr_emit(ii, odd, next) ==
  CASE ii.c = "RET" -> emit_ret(ii, odd)
    [] ii.c = "BINOP" -> emit_binop(ii, odd)
    [] ii.c = "LOAD" -> emit_load(ii)
    [] ii.c = "CMP2" -> emit_cmp2(ii, odd)
    [] ii.c = "BR" -> emit_br(ii, next)
    [] ii.c = "MOVE" -> emit_move(ii, odd)
    [] ii.c = "STORE" -> emit_store(ii, odd)
    [] ii.c = "LEA" -> emit_lea(ii)
    [] ii.c = "CAST" -> emit_cast(ii)
    [] ii.c = "CALL" -> emit_call(ii)
    [] ii.c = "INVOKE" -> emit_invoke(ii)
    [] ii.c = "SWITCH" -> emit_switch(ii, odd)
    [] ii.c = "ALLOCA" -> emit_alloca(ii)
    [] ii.c = "VAARG" -> emit_vaarg(ii)
    [] ii.c = "SELECT" -> emit_select(ii, odd)
    [] ii.c = "VMOP" -> emit_vmop(ii)
    [] ii.c = "LANDINGPAD" -> emit_landingpad(ii)
    [] ii.c = "RESUME" -> emit_resume(ii)
    [] ii.c = "STACKCOPY" -> emit_stackcopy(ii)
    [] ii.c = "STACKSHRINK" -> emit_stackshrink(ii)
    [] ii.c = "UNREACHABLE" -> Ok(Op(<<"UNREACHABLE">>))
    [] ii.c = "CMP_BRANCH" -> emit_cmp_branch(ii)
    [] ii.c = "CMP_SELECT" -> emit_cmp_select(ii)
    [] ii.c = "MLA" -> emit_mla(ii)
    [] OTHER -> parser_error

-----------------------------------------------------------------------------
(* Once every block has an offset the block numbers become distances.      *)

\* Positions after a branch opcode that hold block numbers (I[n])
Targets(t, at) ==
  LET o == t[at].v
      n == t[at + 2].v          \* entries of a switch
  IN  CASE o[1] = "B" -> {1}
        [] o[1] = "BCOND" -> {2, 3}
        [] o[1] \in {"INVOKE", "INVOKE_EXT", "INVOKE_R"} -> {4, 5}
        [] o[1] = "CBR" -> {1, 2}
        [] o[1] = "JUMPTABLE" -> {3 + j : j \in 0..n - 1}
        [] o[1] = "SWITCH" -> {3 + n * Words(o[2]) + j : j \in 0..n}

(* Mutant of bb_to_offset_delta: the distance is taken from the opcode. *)
bb_to_offset_deltaOpcode(bboff, bb, at) == bboff[bb] - at

\* The interpreter is past the opcode when it takes the branch.
bb_to_offset_delta(bboff, bb, at) == bboff[bb] - (at + 1)

branch_fixup(t, bboff, at) ==
  LET where == {at + n : n \in Targets(t, at)}
      delta(i) == bb_to_offset_delta(bboff, t[i].v, at)
  IN  [ok |-> \A i \in where : -OffMax - 1 <= delta(i) /\ delta(i) <= OffMax,
       t  |-> [i \in DOMAIN t |->
                IF i = at THEN vm_resolve(t[i].v)
                ELSE IF i \in where THEN Word(16, 1, delta(i)) ELSE t[i]]]
=============================================================================
