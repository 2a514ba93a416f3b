------------------------------ MODULE InstrParse ------------------------------
(***************************************************************************)
(* The records of a function body (vmir_instr_parse.c): operands are       *)
(* relative to the number of the next value, and a value that is used      *)
(* before it is defined carries its type.                                  *)
(*                                                                         *)
(* An instruction is [c, ret, vals, k, paths, copy]: its class, its result *)
(* and operands as pairs of value and type, its numbers, the cases of a    *)
(* switch, and the sizes of arguments passed by value.                     *)
(***************************************************************************)
EXTENDS IrUnit, TLC

Vt(v, t) == [v |-> v, t |-> t]
NoVt     == Vt(-1, -1)

Instr(c, vals, k) == [c |-> c, ret |-> NoVt, vals |-> vals, k |-> k,
                      paths |-> <<>>, copy |-> <<>>]

-----------------------------------------------------------------------------
(* A cursor: the unit, the arguments not read yet, and what was read.       *)

Cursor(u, a)    == [u |-> u, a |-> a, got |-> <<>>]
Got(p, n)       == p.got[n]
Read(p, n, vt)  == [p EXCEPT !.a = SubSeq(@, n + 1, Len(@)), !.got = Append(@, vt)]
NoMore(p)       == [p EXCEPT !.got = Append(@, NoVt),
                             !.u = IF Ok(@) THEN ParserError(@) ELSE @]
Short(p)        == ~Ok(p.u) \/ p.a = <<>>

instr_get_uint(p) == IF Short(p) THEN NoMore(p) ELSE Read(p, 1, Vt(p.a[1], -1))

instr_get_value(p, type) ==
    IF Short(p) THEN NoMore(p)
    ELSE Read(p, 1, Vt(S32(p.u.next - p.a[1]), type))

instr_get_value_signed(p, type) ==
    IF Short(p) THEN NoMore(p)
    ELSE Read(p, 1, Vt(S32(p.u.next - read_sign_rotated(p.a[1])), type))

(* A value that is not defined yet gets an entry of class UNDEF now. *)
ForwardRef(u, val, type) ==
    LET grown == IF HasValue(u, val) THEN u.values
                 ELSE u.values \o [k \in 1 .. val + 1 - Len(u.values) |-> Null]
        old   == grown[val + 1]
    IN  [u EXCEPT !.values =
           [grown EXCEPT ![val + 1] =
              [(IF old.c = "NULL" THEN NewValue ELSE old) EXCEPT !.t = type]]]

instr_get_vtp(p) ==
    LET val == U32(p.u.next - p.a[1])
    IN  IF Short(p) THEN NoMore(p)
        ELSE IF val < p.u.next THEN Read(p, 1, Vt(val, ValueAt(p.u, val).t))
        ELSE IF Len(p.a) < 2 THEN [NoMore(p) EXCEPT !.u = Crash(@)]
        ELSE [Read(p, 2, Vt(val, p.a[2])) EXCEPT !.u = ForwardRef(@, val, p.a[2])]

RECURSIVE GetAll(_, _)
GetAll(Get(_), p) == IF Short(p) THEN p ELSE GetAll(Get, Get(p))

-----------------------------------------------------------------------------
(* instr_add puts an instruction at the end of iu_current_bb; most of them  *)
(* then get a result.                                                       *)

instr_add(u, in) ==
    IF u.curbb = 0 THEN Crash(u)
    ELSE [u EXCEPT !.funcs[u.bodies[u.cur] + 1].bbs[u.curbb] = Append(@, in)]

value_alloc_instr_ret(u, type, in) ==
    LET w == AppendAs(u, "temporary", type, 0, <<>>)
    IN  instr_add(w, [in EXCEPT !.ret = Vt(u.next, type)])

NextBb(u) ==
    LET n == Len(u.funcs[u.bodies[u.cur] + 1].bbs)
    IN  [u EXCEPT !.curbb = IF @ = 0 \/ @ = n THEN 0 ELSE @ + 1]

(* An instruction without and one with a result, from a cursor. *)
Plain(p, in)        == IF Ok(p.u) THEN instr_add(p.u, in) ELSE p.u
WithRet(p, in, type) == IF Ok(p.u) THEN value_alloc_instr_ret(p.u, type, in) ELSE p.u

-----------------------------------------------------------------------------
parse_ret(u, a) ==
    LET p == instr_get_vtp(Cursor(u, a))
    IN  IF a = <<>> THEN instr_add(u, Instr("ret", <<NoVt>>, <<>>))
                    ELSE Plain(p, Instr("ret", <<Got(p, 1)>>, <<>>))

parse_binop(u, a) ==
    LET p1 == instr_get_vtp(Cursor(u, a))
        p  == instr_get_uint(instr_get_value(p1, Got(p1, 1).t))
    IN  WithRet(p, Instr("binop", SubSeq(p.got, 1, 2), <<Got(p, 3).v>>), Got(p, 1).t)

parse_cmp2(u, a) ==
    LET p1 == instr_get_vtp(Cursor(u, a))
        p  == instr_get_uint(instr_get_value(p1, Got(p1, 1).t))
        i1 == type_find_by_code(u.types, "i1")
    IN  IF i1 < 0 THEN ParserError(u)
        ELSE WithRet(p, Instr("cmp2", SubSeq(p.got, 1, 2), <<Got(p, 3).v>>), i1)

parse_cast(u, a) ==
    LET p == instr_get_uint(instr_get_uint(instr_get_vtp(Cursor(u, a))))
    IN  WithRet(p, Instr("cast", <<Got(p, 1)>>, <<Got(p, 3).v>>), Got(p, 2).v)

parse_load(u, a) ==
    LET p  == instr_get_vtp(Cursor(u, a))
        in == Instr("load", <<Got(p, 1)>>, <<>>)
    IN  IF Len(p.a) = 3 THEN WithRet(p, in, p.a[1])
        ELSE IF Ok(p.u) /\ ~IsPointer(u.types, Got(p, 1).t) THEN ParserError(u)
        ELSE WithRet(p, in, TypeAt(u.types, Got(p, 1).t).el)

parse_store(u, a, old) ==
    LET p1 == instr_get_vtp(Cursor(u, a))
        p  == IF old THEN instr_get_value(p1, TypeAt(u.types, Got(p1, 1).t).el)
                     ELSE instr_get_vtp(p1)
    IN  IF old /\ Ok(p1.u) /\ ~IsPointer(u.types, Got(p1, 1).t) THEN ParserError(u)
        ELSE Plain(p, Instr("store", p.got, <<>>))

parse_insertval(u, a) ==
    LET p == instr_get_vtp(instr_get_vtp(Cursor(u, a)))
    IN  WithRet(p, Instr("insertval", p.got, p.a), Got(p, 1).t)

(* The type an index leads to from type t; instead of a type, how the code  *)
(* ends: it refuses an index above the last element of a struct, and reads  *)
(* in front of the elements for a negative one.                             *)
Refused == -1
Outside == -2
NoInner(u, t) == IF t = Outside THEN Crash(u) ELSE ParserError(u)

(* known: the index is a number and not a value computed at run time. *)
InnerType(u, t, known, index) ==
    LET ct == TypeAt(u.types, t)
        i  == S32(index)
    IN  CASE t < 0 -> t
          [] t >= 0 /\ ct.c = "struct" /\ known /\ i \in 0 .. Len(ct.elems) - 1 ->
               ct.elems[i + 1]
          [] t >= 0 /\ ct.c = "struct" /\ known /\ i < 0 -> Outside
          [] t >= 0 /\ ct.c = "array" -> ct.el
          [] OTHER -> Refused

parse_extractval(u, a) ==
    LET p == instr_get_vtp(Cursor(u, a))
        t == FoldLeft(LAMBDA ty, x : InnerType(u, ty, TRUE, x), Got(p, 1).t, p.a)
    IN  IF Ok(p.u) /\ t < 0 THEN NoInner(u, t)
        ELSE WithRet(p, Instr("extractval", <<Got(p, 1)>>, p.a), t)

parse_gep(u, a, new) ==
    LET p == GetAll(instr_get_vtp,
                    Cursor(u, IF new THEN SubSeq(a, 3, Len(a)) ELSE a))
        \* the type each index is applied to, and at the end the result's
        Step(ts, vt) ==
            LET t == Last(ts)  v == ValueAt(p.u, vt.v)
            IN  Append(ts, IF t >= 0 /\ TypeAt(u.types, t).c = "pointer"
                           THEN TypeAt(u.types, t).el
                           ELSE InnerType(u, t, v.c = "constant",
                                          value_get_const32(p.u, vt.v)))
        types == FoldLeft(Step, <<Got(p, 1).t>>, Tail(p.got))
        ptr   == type_make_pointer(p.u, Last(types), TRUE)
    IN  CASE ~Ok(p.u) -> p.u
          [] Ok(p.u) /\ p.got = <<>> -> ParserError(u)
          [] Ok(p.u) /\ p.got # <<>> /\ Last(types) < 0 -> NoInner(u, Last(types))
          [] OTHER -> value_alloc_instr_ret(ptr.u, ptr.r,
                         Instr("gep", p.got, Front(types)))

parse_br(u, a) ==
    LET p1 == instr_get_uint(Cursor(u, a))
        i1 == type_make(p1.u, "i1")
        p  == instr_get_value([instr_get_uint(p1) EXCEPT !.u = i1.u], i1.r)
    IN  IF Len(a) = 1 THEN Plain(p1, Instr("br", <<NoVt>>, <<a[1]>>))
        ELSE Plain(p, Instr("br", <<Got(p, 3)>>, <<Got(p, 1).v, Got(p, 2).v>>))

(* The nodes in the record, sorted by predecessor; an argument that is left *)
(* over is not read.                                                        *)
PhiNodes(u, a) ==
    LET Node(j) == <<a[2 * j + 1],
                     Got(instr_get_value_signed(Cursor(u, SubSeq(a, 2 * j, Len(a))),
                                                a[1]), 1)>>
    IN  SortSeq([j \in 1 .. (Len(a) - 1) \div 2 |-> Node(j)],
                LAMBDA x, y : x[1] < y[1])

(* A PHI in the cursor's unit. *)
AddPhi(u, nodes, type) ==
    value_alloc_instr_ret(u, type, Instr("phi", [j \in DOMAIN nodes |-> nodes[j][2]],
                                                [j \in DOMAIN nodes |-> nodes[j][1]]))

(* Mutant: a node for each edge. *)
parse_phi_edges(u, a) ==
    IF a = <<>> THEN ParserError(u) ELSE AddPhi(u, PhiNodes(u, a), a[1])

(***************************************************************************)
(* One node for each predecessor.  A PHI without nodes gets one as well,   *)
(* whatever is behind the instruction; no value and no block stand for it. *)
(***************************************************************************)
parse_phi(u, a) ==
    LET nodes  == PhiNodes(u, a)
        first  == {j \in DOMAIN nodes : j = 1 \/ nodes[j][1] # nodes[j - 1][1]}
        kept   == [j \in 1 .. Cardinality(first) |->
                     nodes[CHOOSE i \in first : Cardinality({x \in first : x <= i}) = j]]
    IN  IF a = <<>> THEN ParserError(u)
        ELSE AddPhi(u, IF nodes = <<>> THEN << <<-1, NoVt>> >> ELSE kept, a[1])

-----------------------------------------------------------------------------
(* Calls. *)

RECURSIVE Aliasee(_, _)
Aliasee(u, id) == IF HasValue(u, id) /\ ValueAt(u, id).c = "alias"
                  THEN Aliasee(u, ValueAt(u, id).n) ELSE id

(* Arguments the function type names carry no type, the others do. *)
RECURSIVE CallArgs(_, _)
CallArgs(p, params) ==
    IF Short(p) THEN p
    ELSE IF params = <<>> THEN CallArgs(instr_get_vtp(p), params)
    ELSE CallArgs(instr_get_value(p, Head(params)), Tail(params))

(* The bytes copied for each argument: set by the attributes "by value". *)
CopySizes(u, args, attrs) ==
    [j \in DOMAIN args |->
       IF \E k \in DOMAIN attrs : attrs[k].index = j /\ attrs[k].byval
       THEN type_sizeof(u.types, TypeAt(u.types, args[j].t).el) ELSE 0]

(* The instruction, from the cursor behind its arguments. *)
AddCall(p, in, attrs, rety) ==
    CASE ~Ok(p.u) -> p.u
      [] Ok(p.u) /\ \E k \in DOMAIN attrs :
                       /\ attrs[k].byval /\ attrs[k].index \in DOMAIN p.got
                       /\ ~IsPointer(p.u.types, p.got[attrs[k].index].t) ->
           ParserError(p.u)
      [] OTHER ->
           LET call == [in EXCEPT !.vals = @ \o p.got,
                                  !.copy = CopySizes(p.u, p.got, attrs)]
           IN  IF TypeAt(p.u.types, rety).c = "void" THEN instr_add(p.u, call)
               ELSE value_alloc_instr_ret(p.u, rety, call)

(* p.got: the attributes, the calling convention, an invoke's blocks, callee. *)
CallOfType(p, class, fnid, fnty) ==
    IF fnty.c # "function" \/ (Got(p, 2).v \div 16384) % 2 = 1 THEN ParserError(p.u)
    ELSE AddCall(CallArgs([p EXCEPT !.got = <<>>], fnty.elems),
                 Instr(class, <<Vt(fnid, Last(p.got).t)>>,
                       [k \in 1 .. Len(p.got) - 3 |-> Got(p, k + 2).v]),
                 IF Got(p, 1).v \in 1 .. Len(p.u.attrsets)
                 THEN p.u.attrsets[Got(p, 1).v] ELSE <<>>,
                 fnty.el)

CallOfValue(p, class, fnid, fn) ==
    LET types == p.u.types IN
    CASE fn.c = "function" ->
           LET f == p.u.funcs[fn.n + 1] IN
           CASE f.name = <<>>              -> Crash(p.u)      \* strcmp of NULL
             [] f.name \in DroppedNames    -> p.u
             [] OTHER -> CallOfType(p, class, fnid, TypeAt(types, fn.t))
      [] fn.c \in {"temporary", "regframe"} /\ IsPointer(types, fn.t) ->
           CallOfType(p, class, fnid, TypeAt(types, TypeAt(types, fn.t).el))
      [] OTHER -> ParserError(p.u)

CallOf(p, class, fnid) ==
    CASE ~Ok(p.u)                            -> p.u
      [] Ok(p.u) /\ ~HasValue(p.u, fnid)     -> ParserError(p.u)
      [] Ok(p.u) /\ HasValue(p.u, fnid)      -> CallOfValue(p, class, fnid, ValueAt(p.u, fnid))

(* The callee; a function type in front of it is skipped. *)
GetCallee(p, typebit) ==
    instr_get_vtp(IF (Got(p, 2).v \div typebit) % 2 = 1
                  THEN [p EXCEPT !.a = SubSeq(@, 2, Len(@))] ELSE p)

parse_call_or_invoke(u, a, class) ==
    LET p  == instr_get_uint(instr_get_uint(Cursor(u, a)))
        q  == IF class = "invoke"
              THEN GetCallee(instr_get_uint(instr_get_uint(p)), 8192)
              ELSE GetCallee(p, 32768)
    IN  CallOf(q, class, Aliasee(q.u, Last(q.got).v))

parse_landingpad(u, a, old) ==
    LET p1 == instr_get_uint(Cursor(u, a))
        p2 == IF old THEN instr_get_vtp(p1) ELSE p1
        p  == instr_get_uint(instr_get_uint(p2))
        n  == Last(p.got).v
    IN  IF Ok(p.u) /\ Len(p.a) < 2 * n THEN ParserError(u)
        ELSE WithRet(p, Instr("landingpad", <<>>,
                              <<p.got[Len(p.got) - 1].v>> \o SubSeq(p.a, 1, 2 * n)),
                     Got(p, 1).v)

parse_resume(u, a) ==
    LET p == instr_get_vtp(Cursor(u, a))
    IN  Plain(p, Instr("resume", p.got, <<>>))

-----------------------------------------------------------------------------
type_bitwidth(ts, id) ==
    LET it == TypeAt(ts, id) IN
    CASE it.c = "i1" -> 1   [] it.c = "i8" -> 8   [] it.c = "i16" -> 16
      [] it.c = "i32" -> 32 [] it.c = "i64" -> 64 [] it.c = "ix" -> it.n

(* v64 & mask.  The mask of a 64 bit switch is ~1. *)
CaseValue(x, width) == CASE width = 64                     -> x - (x % 2)
                         [] width # 64 /\ x = LowestInt   -> 0
                         [] width < W32 /\ x # LowestInt  -> x % 2^width
                         [] OTHER                         -> x

ULess(x, y) == IF (x < 0) = (y < 0) THEN x < y ELSE y < 0    \* as uint64_t

parse_switch(u, a) ==
    LET p1    == instr_get_uint(Cursor(u, a))
        type  == Got(p1, 1).v
        p     == instr_get_uint(instr_get_value(p1, type))
        n     == Len(p.a) \div 2
        width == type_bitwidth(u.types, type)
        Bad(v) == \/ ~HasValue(u, v) \/ ValueAt(u, v).c # "constant"
                  \/ ValueAt(u, v).t # type
        paths == [j \in 1 .. n |->
                    <<CaseValue(value_get_const64(u, p.a[2 * j - 1]), width),
                      p.a[2 * j]>>]
    IN  IF Ok(p.u) /\ (\/ TypeAt(u.types, type).c \notin IntCodes
                       \/ \E j \in 1 .. n : Bad(p.a[2 * j - 1])) THEN ParserError(u)
        ELSE Plain(p, [Instr("switch", <<Got(p, 2)>>, <<Got(p, 3).v>>)
                         EXCEPT !.paths = SortSeq(paths, LAMBDA x, y : ULess(x[1], y[1]))])

parse_alloca(u, a) ==
    LET explicit == (a[4] \div 64) % 2 = 1
        ptr      == type_make_pointer(u, a[1], TRUE)
        item     == IF explicit THEN a[1] ELSE TypeAt(u.types, a[1]).el
        in       == Instr("alloca", <<Vt(a[3], a[2])>>,
                          <<type_sizeof(u.types, item),
                            vmir_llvm_alignment(a[4] % 32, 4)>>)
    IN  IF \/ Len(a) # 4
           \/ ~explicit /\ ~IsPointer(u.types, a[1])
           \/ ~HasSize(u.types, item) THEN ParserError(u)
        ELSE IF explicit THEN value_alloc_instr_ret(ptr.u, ptr.r, in)
                         ELSE value_alloc_instr_ret(u, a[1], in)

parse_vselect(u, a) ==
    LET p1 == instr_get_vtp(Cursor(u, a))
        p  == instr_get_vtp(instr_get_value(p1, Got(p1, 1).t))
    IN  WithRet(p, Instr("select", p.got, <<>>), Got(p, 1).t)

parse_vaarg(u, a) ==
    LET p == instr_get_uint(instr_get_value(Cursor(u, Tail(a)), a[1]))
    IN  WithRet(p, Instr("vaarg", <<Got(p, 1)>>, <<>>), Got(p, 2).v)

-----------------------------------------------------------------------------
DeclareBlocks(u, n) ==
    LET f == u.bodies[u.cur] + 1 IN
    IF u.funcs[f].bbs # <<>> \/ n = 0 \/ n > 65535 THEN ParserError(u)
    ELSE [u EXCEPT !.funcs[f].bbs = [k \in 1 .. n |-> <<>>], !.curbb = 1]

(* The instructions that end a block are followed by the step to the next. *)
function_rec_handler(u, op, a) ==
    CASE op = 1           -> DeclareBlocks(u, a[1])
      [] op = 2           -> parse_binop(u, a)
      [] op = 3           -> parse_cast(u, a)
      [] op \in {4, 30}   -> parse_gep(u, a, FALSE)
      [] op = 43          -> parse_gep(u, a, TRUE)
      [] op = 10          -> NextBb(parse_ret(u, a))
      [] op = 11          -> NextBb(parse_br(u, a))
      [] op = 12          -> NextBb(parse_switch(u, a))
      [] op = 13          -> NextBb(parse_call_or_invoke(u, a, "invoke"))
      [] op = 15          -> NextBb(instr_add(u, Instr("unreachable", <<>>, <<>>)))
      [] op = 16          -> parse_phi(u, a)
      [] op = 19          -> parse_alloca(u, a)
      [] op \in {20, 41}  -> parse_load(u, a)
      [] op = 23          -> parse_vaarg(u, a)
      [] op \in {24, 42}  -> parse_store(u, a, TRUE)
      [] op \in {44, 45}  -> parse_store(u, a, FALSE)
      [] op = 26          -> parse_extractval(u, a)
      [] op = 27          -> parse_insertval(u, a)
      [] op = 28          -> parse_cmp2(u, a)
      [] op = 29          -> parse_vselect(u, a)
      [] op = 34          -> parse_call_or_invoke(u, a, "call")
      [] op = 39          -> NextBb(parse_resume(u, a))
      [] op = 40          -> parse_landingpad(u, a, TRUE)
      [] op = 47          -> parse_landingpad(u, a, FALSE)
      [] OTHER            -> ParserError(u)

(* 0 is parser_error: no type, or one that has no place in a register frame. *)
value_regframe_slots(ts, id) ==
    LET it == TypeAt(ts, id) IN
    CASE ~HasType(ts, id)                                        -> 0
      [] it.c \in {"i64", "double"}                              -> 2
      [] it.c = "ix"                                             -> IF it.n > 32 THEN 2 ELSE 1
      [] it.c \in (IntCodes \ {"i64", "ix"})
                 \cup {"float", "pointer", "function"}           -> 1
      [] OTHER                                                   -> 0

(* The parameters become the first values, at descending places. *)
function_prepare_parse(u) ==
    LET f   == u.bodies[u.cur] + 1
        Arg(w, t) ==
            LET slots == value_regframe_slots(w.types, t)
                reg   == w.funcs[f].callarg - 4 * slots
            IN  IF ~Ok(w) \/ slots = 0 THEN ParserError(w)
                ELSE [AppendAs(w, "regframe", t, reg, <<>>) EXCEPT !.funcs[f].callarg = reg]
    IN  FoldLeft(Arg, [u EXCEPT !.funcs[f].regframe = 8, !.funcs[f].callarg = 0],
                 TypeAt(u.types, u.funcs[f].type).elems)
==============================================================================
