------------------------------- MODULE Rewrite -------------------------------
(***************************************************************************)
(* The instruction rewriting of vmir_transform.c: what transform_function  *)
(* does to a function before and after it leaves SSA form so that the VM   *)
(* can run it.  Address computations become LEA and disappear into loads   *)
(* and stores, intrinsics become VMOPs, compares disappear into branches   *)
(* and selects, a multiplication into an addition, an extension into a     *)
(* load, and values of struct type become one temporary for each element.  *)
(*                                                                         *)
(* A function is a sequence of basic blocks, a block a sequence of         *)
(* instructions.  Every step below is the body of one iteration of one of  *)
(* the passes' loops.  What a function means is a separate definition,     *)
(* Run, that knows nothing of the passes: it executes the instructions of  *)
(* either form, and the main property compares the two.  The passes that   *)
(* run in between (construct_cfg, break_crtitical_edges, exit_ssa,         *)
(* prepare_calls) are the modules Cfg, PhiLift and RegAlloc.               *)
(***************************************************************************)
EXTENDS Integers, Sequences, FiniteSets, SequencesExt

CONSTANTS
    Programs,      \* functions as the parser leaves them, see MCRewrite
    CallArgSize,   \* if_callarg_size of the function being transformed
    ImmMax,        \* INT16_MAX, the largest offset a load or store can hold
    MemSize,       \* number of cells of guest memory
    Throws         \* the functions that leave through their unwind edge

VARIABLES
    fn0,     \* the function as it was parsed
    code,    \* its blocks now
    phase,   \* the pass that runs
    bb, ii,  \* the block and the instruction the pass's loop has reached
    fresh,   \* iu_next_value: the next temporary to be allocated
    elems,   \* iv_data of the struct temporaries: their element temporaries
    vals,    \* legalize_temporary_values' list of struct temporaries
    dead     \* the temporaries marked IR_VC_DEAD

vars == <<fn0, code, phase, bb, ii, fresh, elems, vals, dead>>

-----------------------------------------------------------------------------
(* Values.  The tag is iv_class; IR_VC_TEMPORARY and IR_VC_REGFRAME, which  *)
(* the passes treat alike, are both "tmp".                                  *)

Tmp(n)    == <<"tmp", n>>
Const(c)  == <<"const", c>>
Gvar(a)   == <<"gvar", a>>
Aggr(vs)  == <<"aggregate", vs>>
Zero(n)   == <<"zero", n>>         \* zeroinitializer of n elements
Undef(n)  == <<"undef", n>>
NoVal     == <<"none", 0>>         \* value -1
Rets(vs)  == <<"rets", vs>>        \* ii_rets: one result for each element

IsTmp(v)   == v[1] = "tmp"
IsConst(v) == v[1] = "const"

(* A function has a name, if_vmop ("none" for functions of the guest),      *)
(* if_vmop_args, and the result it gives when it returns.                   *)

(* The operands an instruction reads and the ones it writes. *)
Reads(in) ==
    CASE in.c = "gep"        -> {in.ptr} \cup {in.ix[k].op : k \in DOMAIN in.ix}
      [] in.c \in {"lea", "load"} -> {in.ptr, in.off}
      [] in.c = "store"      -> {in.ptr, in.val}
      [] in.c \in {"move", "cast", "extractval", "ret"} -> {in.val}
      [] in.c = "phi"        -> {in.nodes[k][2] : k \in DOMAIN in.nodes}
      [] in.c \in {"call", "invoke", "vmop"} -> ToSet(in.args)
      [] in.c \in {"binop", "cmp2", "cmp_branch"} -> {in.lhs, in.rhs}
      [] in.c = "br"         -> {in.cond}
      [] in.c = "select"     -> {in.pred, in.tv, in.fv}
      [] in.c = "cmp_select" -> {in.lhs, in.rhs, in.tv, in.fv}
      [] in.c = "mla"        -> {in.a1, in.a2, in.a3}
      [] in.c = "insertval"  -> {in.src, in.val}
      [] in.c = "resume"     -> ToSet(in.vals)
      [] OTHER               -> {}

Writes(in) == IF in.ret[1] = "rets" THEN ToSet(in.ret[2]) ELSE {in.ret}

Positions == UNION {{<<b, i>> : i \in DOMAIN code[b]} : b \in DOMAIN code}
At(p)     == code[p[1]][p[2]]

(* The block list with the instruction at p replaced by a sequence. *)
Splice(c, p, seq) ==
    [c EXCEPT ![p[1]] = SubSeq(@, 1, p[2] - 1) \o seq \o SubSeq(@, p[2] + 1, Len(@))]

Move(to, from) == [c |-> "move", ret |-> to, val |-> from]

-----------------------------------------------------------------------------
(* replace_instructions.  A rewrite yields the instructions that take the   *)
(* place of the one at hand, the next free temporary, and whether the code  *)
(* gave up (parser_error, abort).                                           *)

Out(is, n, ok) == [is |-> is, n |-> n, ok |-> ok]

registerify(v, n) ==
    CASE IsTmp(v)                -> [pre |-> <<>>, v |-> v, n |-> n, ok |-> TRUE]
      [] v[1] \in {"gvar", "const"} ->
           [pre |-> <<Move(Tmp(n), v)>>, v |-> Tmp(n), n |-> n + 1, ok |-> TRUE]
      [] OTHER                   -> [pre |-> <<>>, v |-> v, n |-> n, ok |-> FALSE]

Lea(ret, ptr, imm, off, mul) ==
    [c |-> "lea", ret |-> ret, ptr |-> ptr, imm |-> imm, off |-> off, mul |-> mul]

(* The interim LEA folds the index found so far into a new base pointer. *)
emit_interim_lea(g) ==
    LET r == registerify(g.base, g.n + 1)
    IN  [g EXCEPT !.is = @ \o r.pre \o <<Lea(Tmp(g.n), r.v, 0, g.off, g.mul)>>,
                  !.base = Tmp(g.n), !.n = r.n, !.ok = @ /\ r.ok]

GepIndex(g, ix) ==
    CASE IsConst(ix.op) /\ ix.kind = "struct" ->
           [g EXCEPT !.imm = @ + ix.offs[ix.op[2] + 1]]
      [] IsConst(ix.op) /\ ix.kind # "struct" ->
           [g EXCEPT !.imm = @ + ix.op[2] * ix.size]
      [] IsTmp(ix.op) /\ ix.kind = "pointer" /\ g.off = NoVal ->
           [g EXCEPT !.off = ix.op, !.mul = ix.size]
      [] IsTmp(ix.op) /\ ix.kind = "array" ->
           [(IF g.off = NoVal THEN g ELSE emit_interim_lea(g))
               EXCEPT !.off = ix.op, !.mul = ix.size]
      [] OTHER -> [g EXCEPT !.ok = FALSE]

replace_gep_with_lea(in, n) ==
    LET g0 == [base |-> in.ptr, imm |-> 0, off |-> NoVal, mul |-> 0,
               is |-> <<>>, n |-> n, ok |-> TRUE]
        g  == FoldLeft(GepIndex, g0, in.ix)
        r  == registerify(g.base, g.n)
    IN  Out(g.is \o r.pre \o <<Lea(in.ret, r.v, g.imm, g.off, g.mul)>>,
            r.n, g.ok /\ r.ok)

(* The LEA that assigns a value, if one does. *)
value_get_assigning_lea(v) ==
    {p \in Positions : IsTmp(v) /\ v \in Writes(At(p)) /\ At(p).c = "lea"}

FitsImm(off) == -ImmMax - 1 =< off /\ off =< ImmMax

merge_lea_into_store(in) ==
    LET ps == {p \in value_get_assigning_lea(in.ptr) :
                 At(p).off = NoVal /\ FitsImm(At(p).imm)}
    IN  IF ps = {} THEN in
        ELSE LET lea == At(CHOOSE p \in ps : TRUE)
             IN  [in EXCEPT !.imm = lea.imm, !.ptr = lea.ptr]

merge_lea_into_load(in) ==
    LET ps == {p \in value_get_assigning_lea(in.ptr) : FitsImm(At(p).imm)}
    IN  IF ps = {} THEN in
        ELSE LET lea == At(CHOOSE p \in ps : TRUE)
             IN  [in EXCEPT !.imm = @ + lea.imm, !.off = lea.off,
                            !.mul = lea.mul, !.ptr = lea.ptr]

(* A stored constant struct becomes one store for each element. *)
split_const_store_aggregate(in) ==
    IF in.val[1] \notin {"aggregate", "zero"} THEN <<in>>
    ELSE [k \in DOMAIN in.elts |->
            [in EXCEPT !.imm = @ + in.elts[k], !.elts = <<>>,
                       !.val = IF in.val[1] = "zero" THEN Const(0) ELSE in.val[2][k]]]

replace_single_path_phi(in) ==
    IF Len(in.nodes) = 1 THEN Move(in.ret, in.nodes[1][2]) ELSE in

(* All arguments of a VMOP go to registers, in order. *)
RegisterifyArgs(args, n) ==
    FoldLeft(LAMBDA a, v : LET r == registerify(v, a.n)
                           IN  [pre |-> a.pre \o r.pre, vs |-> Append(a.vs, r.v),
                                n |-> r.n, ok |-> a.ok /\ r.ok],
             [pre |-> <<>>, vs |-> <<>>, n |-> n, ok |-> TRUE], args)

(* A call of a function that is one VM instruction; VM_NOP is handled by    *)
(* the loop.  An invoked VMOP cannot throw: it is followed by a branch.     *)
replace_call(in, n) ==
    IF in.fn.vmop = "none" THEN Out(<<in>>, n, TRUE)
    ELSE LET args == IF in.fn.vmop = "vastart"
                     THEN <<in.args[1], Const(CallArgSize)>> ELSE in.args
             few  == Len(args) < in.fn.argc
             r    == RegisterifyArgs(IF few THEN <<>> ELSE SubSeq(args, 1, in.fn.argc), n)
             br   == IF in.c # "invoke" THEN <<>>
                     ELSE <<[c |-> "br", ret |-> NoVal, cond |-> NoVal,
                             t |-> in.normal, f |-> 0]>>
         IN  Out(r.pre \o <<[in EXCEPT !.c = "vmop", !.args = r.vs]>> \o br,
                 r.n, r.ok /\ ~few)

(* Mutant of binop_prep_args: the right operand is put in a register. *)
binop_prep_argsRhs(in, n) ==
    LET r == registerify(in.rhs, n)
    IN  Out(r.pre \o <<[in EXCEPT !.rhs = r.v]>>, r.n, r.ok)

(* We only support left-hand side of binary op in register. *)
binop_prep_args(in, n) ==
    LET r == registerify(in.lhs, n)
    IN  Out(r.pre \o <<[in EXCEPT !.lhs = r.v]>>, r.n, r.ok)

(* legalize_type: the register type an odd integer width lives in. *)
legalize_type(ty) == IF ty = "i24" THEN "i32" ELSE ty

(* The casts that change no bit of a register become moves. *)
binop_transform_cast(in) ==
    IF \/ in.op = "bitcast"  /\ in.src = "ptr" /\ in.dst = "ptr"
       \/ in.op = "inttoptr" /\ in.src = "i32"
       \/ in.op = "ptrtoint" /\ in.dst = "i32"
       \/ in.op = "trunc"    /\ legalize_type(in.dst) = legalize_type(in.src)
    THEN Move(in.ret, in.val)
    ELSE in

(* The last two tests of the loop body. *)
ReplaceLate(in, n) ==
    CASE in.c = "binop" -> binop_prep_args(in, n)
      [] in.c = "cast"  -> Out(<<binop_transform_cast(in)>>, n, TRUE)
      [] OTHER          -> Out(<<in>>, n, TRUE)

ReplaceOne(in, n) ==
    CASE in.c = "gep"   -> replace_gep_with_lea(in, n)
      [] in.c = "store" -> Out(split_const_store_aggregate(merge_lea_into_store(in)), n, TRUE)
      [] in.c = "load"  -> Out(<<merge_lea_into_load(in)>>, n, TRUE)
      [] in.c = "phi"   -> Out(<<replace_single_path_phi(in)>>, n, TRUE)
      [] in.c \in {"call", "invoke"} -> replace_call(in, n)
      [] OTHER          -> ReplaceLate(in, n)

IsNop(in) == in.c \in {"call", "invoke"} /\ in.fn.vmop = "nop"

-----------------------------------------------------------------------------
(* combine_instructions *)

Readers(v) == {p \in Positions : v \in Reads(At(p))}

(* Mutant of combine_get_upstream_instruction: other readers of the value   *)
(* are not looked for.                                                      *)
combine_get_upstream_instructionAnyReader(v, p) ==
    IF IsTmp(v) THEN {q \in Positions : v \in Writes(At(q))} ELSE {}

(* Where the value is computed, if the instruction at p alone reads it. *)
combine_get_upstream_instruction(v, p) ==
    IF IsTmp(v) /\ Readers(v) \subseteq {p}
    THEN {q \in Positions : v \in Writes(At(q))} ELSE {}

(* The instruction at p is replaced and the one at q, upstream, destroyed. *)
Fuse(p, q, in) == Splice(Splice(code, p, <<in>>), q, <<>>)

ICmps == {"eq", "slt"}

combine_branch_with_compare(p) ==
    LET br == At(p)
    IN  {q \in combine_get_upstream_instruction(br.cond, p) :
           /\ At(q).c = "cmp2" /\ At(q).op \in ICmps
           /\ At(q).ty \in {"i8", "i32", "ptr"}}

CmpBranch(br, cmp) ==
    [c |-> "cmp_branch", ret |-> NoVal, op |-> cmp.op, lhs |-> cmp.lhs,
     rhs |-> cmp.rhs, t |-> br.t, f |-> br.f]

combine_select_with_compare(p) ==
    LET sel == At(p)
    IN  {q \in combine_get_upstream_instruction(sel.pred, p) :
           /\ At(q).c = "cmp2" /\ At(q).op \in ICmps
           /\ At(q).ty \in {"i32", "ptr"}
           /\ sel.ty \in {"i8", "i16", "i32", "ptr"}}

CmpSelect(sel, cmp) ==
    [c |-> "cmp_select", ret |-> sel.ret, op |-> cmp.op, lhs |-> cmp.lhs,
     rhs |-> cmp.rhs, tv |-> sel.tv, fv |-> sel.fv]

(* combine_binop_add_mul's MLA; side says which operand is the product. *)
MulAdd(add, mul, side) ==
    [c |-> "mla", ret |-> add.ret, a1 |-> mul.lhs, a2 |-> mul.rhs,
     a3 |-> IF side = 1 THEN add.lhs ELSE add.rhs]

combine_binop_add_mul(add, mul, side) ==
    LET mla == MulAdd(add, mul, side)
    IN  mul.ty = "i32" /\ IsTmp(mla.a1) /\ IsTmp(mla.a2) /\ IsTmp(mla.a3)

(* The right operand is only looked at when the left one is no product, even *)
(* if that product cannot be used.                                           *)
combine_binop_add(p) ==
    LET add  == At(p)
        Mul(v) == {q \in combine_get_upstream_instruction(v, p) :
                     At(q).c = "binop" /\ At(q).op = "mul"}
        side == IF Mul(add.lhs) # {} THEN 0 ELSE 1
    IN  {<<q, side>> : q \in {q \in Mul(IF side = 0 THEN add.lhs ELSE add.rhs) :
                                combine_binop_add_mul(add, At(q), side)}}

(* The extension moves up to the load, which stays where it is. *)
combine_binop_cast(p) ==
    LET cast == At(p)
    IN  {q \in combine_get_upstream_instruction(cast.val, p) :
           /\ cast.op \in {"zext", "sext"} /\ cast.dst = "i32"
           /\ At(q).c = "load" /\ IsTmp(At(q).ptr)}

LoadCast(load, cast) == [load EXCEPT !.cast = cast.op, !.ret = cast.ret]

-----------------------------------------------------------------------------
(* legalize_temporary_values.  Elements of a value of struct type; an       *)
(* undefined one and a zeroinitializer have none.                           *)

ElementsOf(v) ==
    CASE IsTmp(v)          -> IF v[2] \in DOMAIN elems THEN elems[v[2]] ELSE <<>>
      [] v[1] = "aggregate" -> v[2]
      [] OTHER             -> <<>>

Mention(v) == {p \in Positions : v \in Reads(At(p)) \cup Writes(At(p))}

legalize_aggregate_move(in) ==
    LET sv == ElementsOf(in.val)
        dv == ElementsOf(in.ret)
    IN  IF Len(sv) # Len(dv) THEN Out(<<>>, 0, FALSE)
        ELSE Out([k \in DOMAIN dv |-> Move(dv[k], sv[k])], 0, TRUE)

(* Mutant of legalize_aggregate_select: only temporaries have elements. *)
legalize_aggregate_selectTmps(in) ==
    LET tv == ElementsOf(in.tv)
        fv == ElementsOf(in.fv)
        dv == ElementsOf(in.ret)
    IN  IF ~IsTmp(in.tv) \/ ~IsTmp(in.fv) THEN Out(<<>>, 0, FALSE)
        ELSE Out([k \in DOMAIN dv |->
                    [in EXCEPT !.ret = dv[k], !.tv = tv[k], !.fv = fv[k]]], 0, TRUE)

legalize_aggregate_select(in) ==
    LET tv == ElementsOf(in.tv)
        fv == ElementsOf(in.fv)
        dv == ElementsOf(in.ret)
    IN  IF Len(tv) # Len(dv) \/ Len(fv) # Len(dv) THEN Out(<<>>, 0, FALSE)
        ELSE Out([k \in DOMAIN dv |->
                    [in EXCEPT !.ret = dv[k], !.tv = tv[k], !.fv = fv[k]]], 0, TRUE)

legalize_aggregate_insertval(in) ==
    LET sv == ElementsOf(in.src)
        dv == ElementsOf(in.ret)
    IN  Out([k \in DOMAIN dv |->
               Move(dv[k], CASE k = in.ix[1] + 1 -> in.val
                             [] k # in.ix[1] + 1 /\ sv = <<>> -> Const(0)
                             [] OTHER -> sv[k])], 0, Len(in.ix) = 1)

(* The store of the first element stays, each other one is put right after  *)
(* it, so they follow in descending order.                                  *)
LegalizeStore(in, vs) ==
    LET St(k) == [in EXCEPT !.val = vs[k], !.imm = @ + in.elts[k], !.elts = <<>>]
    IN  [k \in DOMAIN vs |-> IF k = 1 THEN St(1) ELSE St(Len(vs) + 2 - k)]

(* One binding of the struct temporary v: the instruction in either reads   *)
(* it or, when reads is FALSE, writes it.                                   *)
legalize_aggregate(in, v, reads) ==
    LET vs == ElementsOf(v)
    IN  CASE in.c = "move"      -> legalize_aggregate_move(in)
          [] in.c = "insertval" -> legalize_aggregate_insertval(in)
          [] in.c = "select"    -> legalize_aggregate_select(in)
          [] in.c = "extractval" /\ reads ->
               IF Len(in.ix) = 1 THEN Out(<<Move(in.ret, vs[in.ix[1] + 1])>>, 0, TRUE)
               ELSE Out(<<>>, 0, FALSE)
          [] in.c = "store" /\ reads  -> Out(LegalizeStore(in, vs), 0, TRUE)
          [] in.c = "resume" /\ reads -> Out(<<[in EXCEPT !.vals = vs]>>, 0, TRUE)
          [] in.c \in {"load", "call", "invoke", "landingpad"} /\ ~reads ->
               Out(<<[in EXCEPT !.ret = Rets(vs)]>>, 0, TRUE)
          [] OTHER -> Out(<<>>, 0, FALSE)

(* legalize_instructions: a load with a result for each element becomes as  *)
(* many loads.                                                              *)
split_aggregated_load(in) ==
    [k \in DOMAIN in.ret[2] |->
       [in EXCEPT !.ret = in.ret[2][k], !.imm = @ + in.elts[k], !.elts = <<>>]]

-----------------------------------------------------------------------------
(* transform_function *)

Init ==
    /\ fn0 \in Programs
    /\ code = fn0.code
    /\ phase = "replace" /\ bb = 1 /\ ii = 1
    /\ fresh = fn0.temps + 1
    /\ elems = << >> /\ vals = << >> /\ dead = {}

(* The pass refuses the function: parser_error, abort or an assertion. *)
Refuse == phase' = "refused" /\ UNCHANGED <<fn0, code, bb, ii, fresh, elems, vals, dead>>

InLoop(ph) == phase = ph /\ bb <= Len(code) /\ ii <= Len(code[bb])
Here       == <<bb, ii>>

(* The end of a block, and of a pass over all blocks. *)
NextBlock ==
    /\ phase \in {"replace", "combine", "instrs"}
    /\ bb <= Len(code) /\ ii > Len(code[bb])
    /\ bb' = bb + 1 /\ ii' = (IF phase = "combine" THEN 0 ELSE 1)
    /\ UNCHANGED <<fn0, code, phase, fresh, elems, vals, dead>>

NextPass ==
    /\ bb > Len(code)
    /\ \/ phase = "replace" /\ \A p \in Positions : At(p).c # "gep"
          /\ phase' = "combine" /\ bb' = 1 /\ ii' = 0
       \/ phase = "combine" /\ phase' = "alloc" /\ UNCHANGED <<bb, ii>>
       \/ phase = "instrs" /\ phase' = "done" /\ UNCHANGED <<bb, ii>>
    /\ UNCHANGED <<fn0, code, fresh, elems, vals, dead>>

(* function_bind_instr_inputs has no case for a GEP that was not replaced. *)
BindRefused ==
    /\ phase = "replace" /\ bb > Len(code)
    /\ \E p \in Positions : At(p).c = "gep"
    /\ Refuse

Replaced(r, at, drop) ==
    /\ code' = Splice(IF drop THEN Splice(code, Here, <<>>) ELSE code, at, r.is)
    /\ fresh' = r.n
    /\ ii' = ii + Len(r.is)
    /\ UNCHANGED <<fn0, phase, bb, elems, vals, dead>>

(* replace_instructions *)
ReplaceInstr ==
    /\ InLoop("replace") /\ ~IsNop(At(Here))
    /\ LET r == ReplaceOne(At(Here), fresh)
       IN  IF r.ok THEN Replaced(r, Here, FALSE) ELSE Refuse

(* replace_call destroys a VM_NOP and returns the instruction after it,     *)
(* which the loop then only tries the last two rewrites on.                 *)
ReplaceNop ==
    /\ InLoop("replace") /\ IsNop(At(Here))
    /\ IF ii = Len(code[bb]) THEN Refuse
       ELSE LET r == ReplaceLate(code[bb][ii + 1], fresh)
            IN  IF r.ok THEN Replaced(r, Here, TRUE) ELSE Refuse

(* combine_instructions first looks at the branch that ends the block. *)
CombineBranch ==
    /\ phase = "combine" /\ bb <= Len(code) /\ ii = 0
    /\ LET p  == <<bb, Len(code[bb])>>
           qs == IF At(p).c = "br" THEN combine_branch_with_compare(p) ELSE {}
       IN  IF qs = {} THEN UNCHANGED <<code, dead>>
           ELSE \E q \in qs : /\ code' = Fuse(p, q, CmpBranch(At(p), At(q)))
                              /\ dead' = dead \cup {At(p).cond}
    /\ ii' = 1
    /\ UNCHANGED <<fn0, phase, bb, fresh, elems, vals>>

(* The instruction at p took in the one at q that computed gone. *)
Fused(p, q, in, gone) ==
    /\ code' = Fuse(p, q, in)
    /\ ii' = (IF q[1] = bb THEN ii ELSE ii + 1)
    /\ dead' = dead \cup {gone}
    /\ UNCHANGED <<fn0, phase, bb, fresh, elems, vals>>

CombineAdd ==
    /\ InLoop("combine") /\ ii > 0
    /\ At(Here).c = "binop" /\ At(Here).op = "add"
    /\ \E m \in combine_binop_add(Here) :
          Fused(Here, m[1], MulAdd(At(Here), At(m[1]), m[2]), At(m[1]).ret)

CombineSelect ==
    /\ InLoop("combine") /\ ii > 0 /\ At(Here).c = "select"
    /\ \E q \in combine_select_with_compare(Here) :
          Fused(Here, q, CmpSelect(At(Here), At(q)), At(Here).pred)

(* combine_binop_load_cast *)
CombineCast ==
    /\ InLoop("combine") /\ ii > 0 /\ At(Here).c = "cast"
    /\ \E q \in combine_binop_cast(Here) :
          /\ code' = Splice(Splice(code, q, <<LoadCast(At(q), At(Here))>>), Here, <<>>)
          /\ dead' = dead \cup {At(Here).val}
    /\ UNCHANGED <<fn0, phase, bb, ii, fresh, elems, vals>>

CombineNothing ==
    /\ InLoop("combine") /\ ii > 0
    /\ At(Here).c = "binop" /\ At(Here).op = "add" => combine_binop_add(Here) = {}
    /\ At(Here).c = "select" => combine_select_with_compare(Here) = {}
    /\ At(Here).c = "cast" => combine_binop_cast(Here) = {}
    /\ ii' = ii + 1
    /\ UNCHANGED <<fn0, code, phase, bb, fresh, elems, vals, dead>>

(* legalize_temporary_values: every struct temporary gets its elements and  *)
(* is put at the head of the list.                                          *)
AllocElements ==
    /\ phase = "alloc"
    /\ LET aggs == SetToSortSeq(DOMAIN fn0.structs, <)
           r == FoldLeft(LAMBDA a, t :
                    LET n == Len(fn0.structs[t])
                    IN  [n |-> a.n + n,
                         els |-> [x \in DOMAIN a.els \cup {t} |->
                                    IF x = t THEN [k \in 1..n |-> Tmp(a.n + k - 1)]
                                    ELSE a.els[x]]],
                  [n |-> fresh, els |-> << >>], aggs)
       IN  /\ fresh' = r.n /\ elems' = r.els
           /\ vals' = Reverse(aggs)
    /\ phase' = "values"
    /\ UNCHANGED <<fn0, code, bb, ii, dead>>

(* One binding of the struct temporary at hand.  The list of bindings is in *)
(* the order in which they were made; any order is allowed here.            *)
LegalizeUse ==
    /\ phase = "values" /\ vals # << >>
    /\ LET v == Tmp(Head(vals))
       IN  \E p \in Mention(v) :
             LET r == legalize_aggregate(At(p), v, v \in Reads(At(p)))
             IN  IF r.ok
                 THEN /\ code' = Splice(code, p, r.is)
                      /\ UNCHANGED <<fn0, phase, bb, ii, fresh, elems, vals, dead>>
                 ELSE Refuse

NextValue ==
    /\ phase = "values"
    /\ IF vals = << >>
       THEN /\ phase' = "instrs" /\ bb' = 1 /\ ii' = 1
            /\ dead' = dead \cup {Tmp(t) : t \in DOMAIN elems}
            /\ UNCHANGED vals
       ELSE /\ Mention(Tmp(Head(vals))) = {} /\ vals' = Tail(vals)
            /\ UNCHANGED <<phase, bb, ii, dead>>
    /\ UNCHANGED <<fn0, code, fresh, elems>>

LegalizeInstr ==
    /\ InLoop("instrs")
    /\ LET is == IF At(Here).c = "load" /\ At(Here).ret[1] = "rets"
                 THEN split_aggregated_load(At(Here)) ELSE <<At(Here)>>
       IN  code' = Splice(code, Here, is) /\ ii' = ii + Len(is)
    /\ UNCHANGED <<fn0, phase, bb, fresh, elems, vals, dead>>

(* transform_function returns, or the unit cannot be loaded. *)
Finished == phase \in {"done", "refused"} /\ UNCHANGED vars

Step ==
    \/ NextBlock \/ NextPass \/ BindRefused
    \/ ReplaceInstr \/ ReplaceNop
    \/ CombineBranch \/ CombineAdd \/ CombineSelect \/ CombineCast \/ CombineNothing
    \/ AllocElements \/ LegalizeUse \/ NextValue
    \/ LegalizeInstr

Next == Step \/ Finished

Spec == Init /\ [][Next]_vars /\ WF_vars(Step)

-----------------------------------------------------------------------------
(* What a function does, for either form of it: the memory it leaves, the   *)
(* calls it makes, and its result.  A cell of memory holds a value of any   *)
(* type; an 8 bit value is reduced to the B8 values below.  A temporary     *)
(* that was not assigned holds Junk.                                        *)

TempMax == 40
Junk    == -77
B8      == 8

Sext(v) == IF v % B8 >= B8 \div 2 THEN (v % B8) - B8 ELSE v % B8

Val(s, v) ==
    CASE IsTmp(v)                 -> s.env[v[2]]
      [] v[1] \in {"const", "gvar"} -> v[2]
      [] v[1] = "aggregate"       -> [k \in DOMAIN v[2] |-> v[2][k][2]]
      [] v[1] \in {"zero", "undef"} -> [k \in 1..v[2] |-> 0]
      [] OTHER                    -> 0

Set(s, v, x) ==
    CASE IsTmp(v)       -> [s EXCEPT !.env[v[2]] = x]
      [] v[1] = "rets"  -> [s EXCEPT !.env = [t \in DOMAIN @ |->
                              IF \E k \in DOMAIN v[2] : v[2][k] = Tmp(t)
                              THEN x[CHOOSE k \in DOMAIN v[2] : v[2][k] = Tmp(t)]
                              ELSE @[t]]]
      [] OTHER          -> s

Peek(s, a) == IF a \in DOMAIN s.mem THEN s.mem[a] ELSE Junk
Poke(s, a, x) ==
    IF a \in DOMAIN s.mem THEN [s EXCEPT !.mem[a] = x]
    ELSE [s EXCEPT !.trace = Append(@, <<"wild", a, x>>)]

Goto(s, b) == [s EXCEPT !.from = s.bb, !.bb = b]
Pick(b, x, y) == IF b # 0 THEN x ELSE y
Truth(op, x, y) == IF (op = "eq" /\ x = y) \/ (op = "slt" /\ x < y) THEN 1 ELSE 0

Address(s, in) == Val(s, in.ptr) + in.imm + Val(s, in.off) * in.mul

GepAddress(s, in) ==
    FoldLeft(LAMBDA a, ix : a + (IF ix.kind = "struct" THEN ix.offs[Val(s, ix.op) + 1]
                                 ELSE Val(s, ix.op) * ix.size),
             Val(s, in.ptr), in.ix)

Loaded(s, in) ==
    LET a == Address(s, in)
    IN  CASE in.elts # <<>>   -> [k \in DOMAIN in.elts |-> Peek(s, a + in.elts[k])]
          [] in.cast = "sext" -> Sext(Peek(s, a))
          [] in.elts = <<>> /\ in.ty = "i8" /\ in.cast # "sext" -> Peek(s, a) % B8
          [] OTHER            -> Peek(s, a)

Stored(s, in) ==
    LET a == Val(s, in.ptr) + in.imm
        x == Val(s, in.val)
    IN  IF in.elts = <<>> THEN Poke(s, a, x)
        ELSE FoldLeft(LAMBDA m, k : Poke(m, a + in.elts[k], x[k]), s,
                      [k \in DOMAIN in.elts |-> k])

Converted(op, dst, x) ==
    CASE op = "zext" -> x % B8
      [] op = "sext" -> Sext(x)
      [] op = "trunc" /\ dst = "i8" -> x % B8
      [] OTHER -> x

(* A call is seen by the arguments it passes.  A VMOP passes as many as it  *)
(* has, va_start the size of the caller's arguments; a NOP passes nothing.  *)
Called(s, in) ==
    LET xs == [k \in DOMAIN in.args |-> Val(s, in.args[k])]
        seen == CASE in.fn.vmop = "none"    -> xs
                  [] in.fn.vmop = "vastart" -> <<xs[1], CallArgSize>>
                  [] OTHER -> SubSeq(xs, 1, in.fn.argc)
        t  == IF in.fn.vmop = "nop" THEN s
              ELSE [s EXCEPT !.trace = Append(@, <<in.fn.name, seen>>)]
        r  == Set(t, in.ret, in.fn.result)
    IN  CASE in.c # "invoke"       -> r
          [] in.c = "invoke" /\ in.fn.name \in Throws -> Goto(t, in.unwind)
          [] OTHER                 -> Goto(r, in.normal)

Exec(s, in) ==
    CASE in.c = "gep"     -> Set(s, in.ret, GepAddress(s, in))
      [] in.c = "lea"     -> Set(s, in.ret, Address(s, in))
      [] in.c = "load"    -> Set(s, in.ret, Loaded(s, in))
      [] in.c = "store"   -> Stored(s, in)
      [] in.c = "move"    -> Set(s, in.ret, Val(s, in.val))
      [] in.c = "cast"    -> Set(s, in.ret, Converted(in.op, in.dst, Val(s, in.val)))
      [] in.c = "phi"     -> Set(s, in.ret, Val(s, in.nodes[CHOOSE k \in DOMAIN in.nodes :
                                                              in.nodes[k][1] = s.from][2]))
      [] in.c = "binop"   -> Set(s, in.ret, IF in.op = "add"
                                            THEN Val(s, in.lhs) + Val(s, in.rhs)
                                            ELSE Val(s, in.lhs) * Val(s, in.rhs))
      [] in.c = "mla"     -> Set(s, in.ret, Val(s, in.a1) * Val(s, in.a2) + Val(s, in.a3))
      [] in.c = "cmp2"    -> Set(s, in.ret, Truth(in.op, Val(s, in.lhs), Val(s, in.rhs)))
      [] in.c = "select"  -> Set(s, in.ret, Val(s, Pick(Val(s, in.pred), in.tv, in.fv)))
      [] in.c = "cmp_select" ->
           Set(s, in.ret, Val(s, Pick(Truth(in.op, Val(s, in.lhs), Val(s, in.rhs)),
                                      in.tv, in.fv)))
      [] in.c = "br"      -> Goto(s, IF in.cond = NoVal THEN in.t
                                     ELSE Pick(Val(s, in.cond), in.t, in.f))
      [] in.c = "cmp_branch" ->
           Goto(s, Pick(Truth(in.op, Val(s, in.lhs), Val(s, in.rhs)), in.t, in.f))
      [] in.c \in {"call", "invoke", "vmop"} -> Called(s, in)
      [] in.c = "landingpad" -> Set(s, in.ret, <<5, 6>>)
      [] in.c = "extractval" -> Set(s, in.ret, Val(s, in.val)[in.ix[1] + 1])
      [] in.c = "insertval"  ->
           Set(s, in.ret, [Val(s, in.src) EXCEPT ![in.ix[1] + 1] = Val(s, in.val)])
      [] in.c = "resume"  ->
           [s EXCEPT !.res = <<"resume", IF Len(in.vals) = 1 THEN Val(s, in.vals[1])
                                         ELSE [k \in DOMAIN in.vals |-> Val(s, in.vals[k])]>>]
      [] in.c = "ret"     -> [s EXCEPT !.res = <<"ret", Val(s, in.val)>>]

(* Blocks branch forward only, so every block runs at most once. *)
Run(c, args) ==
    LET s0 == [bb |-> 1, from |-> 0, trace |-> <<>>, res |-> <<>>,
               env |-> [t \in 1..TempMax |-> IF t \in DOMAIN args THEN args[t] ELSE Junk],
               mem |-> [a \in 0..(MemSize - 1) |-> 3 * a + 1]]
        s  == FoldLeft(LAMBDA r, b : IF r.res = <<>> THEN FoldLeft(Exec, r, c[r.bb]) ELSE r,
                       s0, c)
    IN  [mem |-> s.mem, trace |-> s.trace, res |-> s.res]

-----------------------------------------------------------------------------
(* Properties *)

(* The function computes what the parsed one computes: after every step of  *)
(* every pass it leaves the same memory, makes the same calls with the same *)
(* arguments and returns the same result, whatever its arguments are.  While*)
(* legalize_temporary_values runs, writers and readers of a struct can be   *)
(* in different forms, so the function is compared when it is through.      *)
Preserved ==
    fn0.supported /\ phase \notin {"values", "refused"} =>
        \A args \in fn0.args : Run(code, args) = Run(fn0.code, args)

(* The instructions and operands that vm_emit_instr has no code for. *)
Unsupported(in) ==
    \/ in.c \in {"gep", "extractval", "insertval"}
    \/ in.c = "load" /\ in.ret[1] = "rets"
    \/ in.c = "phi" /\ Len(in.nodes) = 1
    \/ in.c = "binop" /\ ~IsTmp(in.lhs)
    \/ in.c = "vmop" /\ \E k \in DOMAIN in.args : ~IsTmp(in.args[k])
    \/ in.c = "lea" /\ ~IsTmp(in.ptr)
    \/ \E v \in Reads(in) : v[1] \in {"aggregate", "zero"}

HasNop(c) == \E b \in DOMAIN c : \E i \in DOMAIN c[b] : IsNop(c[b][i])

(* When the passes are through nothing is left that the emitter cannot      *)
(* handle, and no instruction reads or writes a value that was taken away   *)
(* (IR_VC_DEAD; value_reg asserts that an operand has a register).  The     *)
(* instruction after a VM_NOP is not rewritten by replace_instructions: a   *)
(* function with one is left out, see ReplaceNop.                           *)
Lowered ==
    phase = "done" /\ ~HasNop(fn0.code) =>
        \A p \in Positions : /\ ~Unsupported(At(p))
                             /\ (Reads(At(p)) \cup Writes(At(p))) \cap dead = {}

(* The transformation of a function ends, and it ends in code for the VM    *)
(* exactly when the function has nothing in it that the passes have no      *)
(* rewrite for: the list of bindings that legalize_aggregate takes its work *)
(* from and adds to gets empty, and no rewrite runs into what another left. *)
TransformEnds == <>(phase = IF fn0.supported THEN "done" ELSE "refused")
=============================================================================
