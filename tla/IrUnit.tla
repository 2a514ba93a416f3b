-------------------------------- MODULE IrUnit --------------------------------
(***************************************************************************)
(* The tables of a unit and the handlers of the records that fill them:    *)
(* types (vmir_type.c), values and constant expressions (vmir_value.c),    *)
(* and the module, constants, symbol table and attribute records of        *)
(* vmir_bitcode_parser.c.                                                  *)
(*                                                                         *)
(* A handler takes the unit, the record's code and its arguments and gives *)
(* the unit after it.  u.st is "ok" until parser_error is called ("error") *)
(* or the program dereferences NULL, reads outside an object or fails an   *)
(* assertion ("crash").                                                    *)
(*                                                                         *)
(* uint32_t is scaled to W32 bits, enough for every address.  64 bit       *)
(* values are kept as signed integers.  Struct names, triple and data      *)
(* layout are left out: nothing reads them while loading.                  *)
(***************************************************************************)
EXTENDS Bitstream, SequencesExt, Bitwise

CONSTANTS
    W32,           \* the scaled width of uint32_t
    DataStart,     \* iu_data_ptr at the start of a load (4096)
    Garbage,       \* what a struct's size and alignment hold before layout
    DroppedNames,  \* the intrinsics parse_call_or_invoke drops
    VmopNames,     \* the names in vmop_map
    ExternNames,   \* the names the external function resolver knows
    CtorsName      \* "llvm.global_ctors"

ASSUME UnitAssumption ==
       /\ W32 \in 12 .. 24
       /\ DataStart \in Nat /\ Garbage \in Nat \ {0}
       /\ DroppedNames \cap (VmopNames \cup ExternNames) = {}

M32    == 2^W32
U32(x) == x % M32
S32(x) == LET y == U32(x) IN IF 2 * y >= M32 THEN y - M32 ELSE y

AlignUp(x, a) == ((x + a - 1) \div a) * a             \* VMIR_ALIGN

ParserError(u) == [u EXCEPT !.st = "error"]
Crash(u)       == [u EXCEPT !.st = "crash"]
Fail(u, st)    == [u EXCEPT !.st = st]
Ok(u)          == u.st = "ok"

-----------------------------------------------------------------------------
(* Types.  el is the element, pointee or return type, elems the elements of *)
(* a struct or the parameters of a function.                                *)

NewType(c) == [c |-> c, n |-> 0, el |-> 0, elems |-> <<>>, packed |-> FALSE,
               offs |-> <<>>, size |-> Garbage, align |-> Garbage,
               computed |-> FALSE]

HasType(ts, id) == id \in 0 .. Len(ts) - 1
TypeAt(ts, id)  == ts[id + 1]                          \* type_get
IntCodes        == {"i1", "i8", "i16", "i32", "i64", "ix"}

(* Both are parser_error for types without a size; see HasSize. *)
RECURSIVE type_sizeof(_, _)
type_sizeof(ts, id) ==
    LET it == TypeAt(ts, id) IN
    CASE it.c = "void"                         -> 0
      [] it.c \in {"i1", "i8"}                 -> 1
      [] it.c = "i16"                          -> 2
      [] it.c \in {"i32", "float", "pointer"}  -> 4
      [] it.c \in {"i64", "double"}            -> 8
      [] it.c = "ix"                           -> IF it.n <= 32 THEN 4 ELSE 8
      [] it.c = "struct"                       -> it.size
      [] it.c = "array"                        -> it.n * type_sizeof(ts, it.el)

RECURSIVE type_alignment(_, _)
type_alignment(ts, id) ==
    LET it == TypeAt(ts, id) IN
    CASE it.c = "struct" -> it.align
      [] it.c = "array"  -> type_alignment(ts, it.el)
      [] OTHER           -> type_sizeof(ts, id)

RECURSIVE HasSize(_, _)
HasSize(ts, id) ==
    /\ HasType(ts, id)
    /\ TypeAt(ts, id).c \notin {"function", "label", "metadata", "opaque"}
    /\ TypeAt(ts, id).c = "array" => HasSize(ts, TypeAt(ts, id).el)

(* Struct elements that are structs are laid out first; a struct inside an *)
(* array is not, and its size may then be what malloc left there.          *)
RECURSIVE type_struct_layout(_, _)
type_struct_layout(ts, id) ==
    LET it == TypeAt(ts, id)
        Place(acc, e) ==
            LET ty  == TypeAt(acc.ts, e)
                ts1 == IF ty.c = "struct" /\ ~ty.computed
                       THEN type_struct_layout(acc.ts, e) ELSE acc.ts
                a   == type_alignment(ts1, e)
                off == IF it.packed THEN acc.off ELSE AlignUp(acc.off, a)
            IN  [ts   |-> ts1, offs |-> Append(acc.offs, off),
                 off  |-> off + type_sizeof(ts1, e),
                 ba   |-> IF it.packed THEN acc.ba ELSE Max({acc.ba, a})]
        all == FoldLeft(Place, [ts |-> ts, offs |-> <<>>, off |-> 0, ba |-> 1],
                        it.elems)
    IN  [all.ts EXCEPT ![id + 1] =
            [it EXCEPT !.offs = all.offs, !.align = all.ba, !.computed = TRUE,
                       !.size = IF it.packed THEN all.off
                                             ELSE AlignUp(all.off, all.ba)]]

types_finalize(u) ==
    LET Lay(ts, id) == IF ts[id].c = "struct" /\ ~ts[id].computed
                       THEN type_struct_layout(ts, id - 1) ELSE ts
        bad == \E k \in DOMAIN u.types : /\ u.types[k].c = "struct"
                                         /\ \E j \in DOMAIN u.types[k].elems :
                                              ~HasSize(u.types, u.types[k].elems[j])
    IN  IF bad THEN ParserError(u)
        ELSE [u EXCEPT !.types =
                 FoldLeft(Lay, u.types, [k \in DOMAIN u.types |-> k])]

types_new_rec_handler(u, op, a) ==
    LET Add(it) == [u EXCEPT !.types = Append(@, it)]
        Plain   == [k \in {2, 3, 4, 5, 6, 16} |->
                      CASE k = 2 -> "void"  [] k = 3 -> "float"
                        [] k = 4 -> "double" [] k = 5 -> "label"
                        [] k = 6 -> "opaque" [] k = 16 -> "metadata"]
    IN  CASE u.created             -> Crash(u)
          [] op = 1                -> IF a = <<>> THEN ParserError(u) ELSE u
          [] op = 19               -> u
          [] op \in DOMAIN Plain   -> Add(NewType(Plain[op]))
          [] op = 7 /\ a[1] = 1    -> Add(NewType("i1"))
          [] op = 7 /\ a[1] = 8    -> Add(NewType("i8"))
          [] op = 7 /\ a[1] = 16   -> Add(NewType("i16"))
          [] op = 7 /\ a[1] = 32   -> Add(NewType("i32"))
          [] op = 7 /\ a[1] = 64   -> Add(NewType("i64"))
          [] op = 7 /\ a[1] < 64 /\ a[1] \notin {1, 8, 16, 32} ->
                 Add([NewType("ix") EXCEPT !.n = a[1]])
          [] op = 8                -> Add([NewType("pointer") EXCEPT !.el = a[1]])
          [] op = 11               -> Add([NewType("array") EXCEPT !.n = a[1],
                                                                   !.el = a[2]])
          [] op \in {18, 20}       -> Add([NewType("struct") EXCEPT
                                             !.packed = a[1] # 0,
                                             !.elems = Tail(a)])
          [] op = 21 /\ Len(a) > 1 -> Add([NewType("function") EXCEPT
                                             !.n = a[1], !.el = a[2],
                                             !.elems = SubSeq(a, 3, Len(a))])
          [] OTHER                 -> ParserError(u)

(* The first type with code c; -1 when there is none. *)
type_find_by_code(ts, c) == SelectInSeq(ts, LAMBDA it : it.c = c) - 1

(* The first pointer type to ty, made when there is none and make holds. *)
type_make_pointer(u, ty, make) ==
    LET r == SelectInSeq(u.types, LAMBDA it : it.c = "pointer" /\ it.el = ty) - 1
    IN  IF r >= 0 \/ ~make THEN [u |-> u, r |-> r]
        ELSE [u |-> [u EXCEPT !.created = TRUE,
                       !.types = Append(@, [NewType("pointer") EXCEPT !.el = ty])],
              r |-> Len(u.types)]

type_make(u, c) ==
    LET r == type_find_by_code(u.types, c)
    IN  IF r >= 0 THEN [u |-> u, r |-> r]
        ELSE [u |-> [u EXCEPT !.created = TRUE, !.types = Append(@, NewType(c))],
              r |-> Len(u.types)]

IsPointer(ts, id) == HasType(ts, id) /\ TypeAt(ts, id).c = "pointer"

-----------------------------------------------------------------------------
(* Values.  n is the union: a number, a function, a global, the aliasee.    *)
(* data is iv_data or the constant expression.                              *)

Null     == [c |-> "NULL",  t |-> 0, n |-> 0, data |-> <<>>, name |-> <<>>]
NewValue == [c |-> "undef", t |-> 0, n |-> 0, data |-> <<>>, name |-> <<>>]

HasValue(u, id) == id \in 0 .. Len(u.values) - 1        \* value_get's test
ValueAt(u, id)  == u.values[id + 1]

value_append(u) ==
    LET id == u.next
        vs == IF id = Len(u.values) THEN Append(u.values, NewValue)
              ELSE IF ValueAt(u, id).c = "NULL"
                   THEN [u.values EXCEPT ![id + 1] = NewValue]
                   ELSE u.values
    IN  [u EXCEPT !.values = vs, !.next = id + 1]

(* value_append_and_get and the assignments that follow it. *)
AppendAs(u, c, t, n, data) ==
    LET w == value_append(u)
    IN  [w EXCEPT !.values[w.next] =
           [@ EXCEPT !.c = c, !.t = t, !.n = n, !.data = data]]

(* Mutant: the entries above the new size stay. *)
value_shrink(u, size) == [u EXCEPT !.next = size]

value_resize(u, size) ==
    [u EXCEPT !.next = size,
              !.values = [k \in DOMAIN @ |-> IF k > size THEN Null ELSE @[k]]]

(* value_get_const32 is parser_error unless this holds. *)
IsConst32(u, id) ==
    /\ HasValue(u, id)
    /\ \/ ValueAt(u, id).c = "globalvar"
       \/ /\ ValueAt(u, id).c = "constant"
          /\ HasType(u.types, ValueAt(u, id).t)
          /\ TypeAt(u.types, ValueAt(u, id).t).c
               \in IntCodes \cup {"pointer", "float", "double"}

(* How value_get and value_get_const32 end for the value with this number. *)
Const32Ends(u, id) ==
    CASE IsConst32(u, id)                                    -> "ok"
      [] HasValue(u, id) /\ ValueAt(u, id).c = "NULL"        -> "crash"
      [] ~IsConst32(u, id)
         /\ (HasValue(u, id) => ValueAt(u, id).c # "NULL")   -> "error"

value_get_const32(u, id) ==
    LET v == ValueAt(u, id) IN
    CASE v.c = "globalvar"                 -> u.gvars[v.n].addr
      [] v.c # "globalvar" /\ TypeAt(u.types, v.t).c = "i1" ->
             IF v.n = 0 THEN 0 ELSE 1
      [] OTHER                             -> U32(v.n)

value_get_const64(u, id) ==
    LET v == ValueAt(u, id)
    IN  IF TypeAt(u.types, v.t).c = "i1" THEN (IF v.n = 0 THEN 0 ELSE 1) ELSE v.n

-----------------------------------------------------------------------------
(* Constant expressions: data is <<ic_code, ...>>. *)

BinopValue(op, l, r) ==
    LET Quot(x, y) == IF (x < 0) = (y < 0) THEN (IF x < 0 THEN -x ELSE x)
                                                \div (IF y < 0 THEN -y ELSE y)
                      ELSE -((IF x < 0 THEN -x ELSE x) \div
                             (IF y < 0 THEN -y ELSE y))
        sl == S32(l)  sr == S32(r)
    IN  CASE op = 0  -> l + r
          [] op = 1  -> l - r
          [] op = 2  -> sl * sr
          [] op = 3  -> l \div r
          [] op = 4  -> Quot(sl, sr)
          [] op = 5  -> l % r
          [] op = 6  -> sl - sr * Quot(sl, sr)
          [] op = 7  -> l * 2^r
          [] op = 8  -> l \div 2^r
          [] op = 9  -> sl \div 2^r
          [] op = 10 -> l & r
          [] op = 11 -> l | r
          [] op = 12 -> l ^^ r

CmpValue(pred, l, r) ==
    LET sl == S32(l)  sr == S32(r) IN
    CASE pred = 32 -> l = r   [] pred = 33 -> l # r
      [] pred = 34 -> l > r   [] pred = 35 -> l >= r
      [] pred = 36 -> l < r   [] pred = 37 -> l <= r
      [] pred = 38 -> sl > sr [] pred = 39 -> sl >= sr
      [] pred = 40 -> sl < sr [] pred = 41 -> sl <= sr

ConstantCast(u, id, op, sid) ==
    IF ~HasValue(u, sid) THEN ParserError(u) ELSE
    LET s   == ValueAt(u, sid)
        tc  == TypeAt(u.types, ValueAt(u, id).t).c
        Number(x) == [u EXCEPT !.values[id + 1] =
                         [@ EXCEPT !.c = "constant", !.n = U32(x)]]
    IN  CASE s.c = "NULL" -> Crash(u)
          [] tc = "pointer" /\ op = 10 /\ s.c = "constant" -> Number(s.n)
          [] /\ \/ tc = "pointer" /\ op = 11
                \/ tc \in {"i32", "i8"} /\ op = 9
             /\ s.c \in {"globalvar", "constant"} ->
               IF IsConst32(u, sid) THEN Number(value_get_const32(u, sid))
                                    ELSE ParserError(u)
          [] tc = "pointer" /\ op = 11 /\ s.c = "function" ->
               [u EXCEPT !.values[id + 1] =
                  [@ EXCEPT !.c = "function", !.n = s.n, !.t = s.t]]
          [] tc = "i32" /\ op = 9 /\ s.c = "function" -> Number(s.n)
          [] OTHER -> ParserError(u)

(* The address a GEP computes from base through the index values.  Only an *)
(* index above the last element of a struct is refused.                     *)
ConstantGep(u, id, base, indices) ==
    LET Index(acc, x) ==
            LET ct == TypeAt(u.types, acc.t)
                k  == value_get_const32(u, x)
            IN  IF ~Ok(acc) THEN acc
                ELSE IF Const32Ends(u, x) # "ok" THEN Fail(acc, Const32Ends(u, x))
                ELSE CASE ct.c \in {"pointer", "array"} ->
                            [st |-> "ok", t |-> ct.el,
                             addr |-> acc.addr + S32(k) * type_sizeof(u.types, ct.el)]
                       [] ct.c = "struct" /\ S32(k) \in 0 .. Len(ct.elems) - 1 ->
                            [st |-> "ok", t |-> ct.elems[k + 1],
                             addr |-> acc.addr + ct.offs[k + 1]]
                       [] ct.c = "struct" /\ S32(k) < 0 -> Crash(acc)
                       [] OTHER -> ParserError(acc)
        r == FoldLeft(Index, [st |-> "ok", t |-> ValueAt(u, base).t,
                              addr |-> value_get_const32(u, base)], indices)
        p == type_make_pointer(u, r.t, TRUE)
    IN  IF ~Ok(r) THEN Fail(u, r.st)
        ELSE [p.u EXCEPT !.values[id + 1] =
                 [@ EXCEPT !.c = "constant", !.t = p.r, !.n = U32(r.addr)]]

(***************************************************************************)
(* Only the source of a cast and the base of a GEP are evaluated first;    *)
(* the operands of the others must be constants by the time they are       *)
(* needed.                                                                 *)
(***************************************************************************)
RECURSIVE eval_constexpr(_, _)
eval_constexpr(u, id) ==
    LET ic   == ValueAt(u, id).data
        sub  == IF ic[1] = 11 THEN ic[3] ELSE ic[2]
        w    == IF ValueAt(u, sub).c = "ce" THEN eval_constexpr(u, sub) ELSE u
        s    == ValueAt(w, sub)
        tc   == TypeAt(u.types, ValueAt(u, id).t).c
        Number(x) == [u EXCEPT !.values[id + 1] =
                         [@ EXCEPT !.c = "constant", !.n = U32(x)]]
        cast == ic[1] = 11
        gep  == ic[1] \in {12, 20}
        read == ~(gep /\ Len(ic) = 1)          \* a GEP may come without values
        \* the operands of a binop or a comparison; both are looked up first
        l    == value_get_const32(u, ic[3])
        r    == value_get_const32(u, ic[4])
        typed == \/ ic[1] = 10 /\ tc \in {"i8", "i32", "pointer"}
                 \/ /\ ic[1] = 17 /\ HasType(u.types, ic[2])
                    /\ TypeAt(u.types, ic[2]).c \in {"i32", "pointer"}
        ends == CASE \/ ~typed
                     \/ ~HasValue(u, ic[3]) \/ ~HasValue(u, ic[4]) -> "error"
                  [] OTHER -> IF Const32Ends(u, ic[3]) # "ok"
                              THEN Const32Ends(u, ic[3]) ELSE Const32Ends(u, ic[4])
    IN  CASE ~read                                 -> Crash(u)
          [] read /\ (cast \/ gep) /\ ~HasValue(u, sub) -> ParserError(u)
          [] read /\ (cast \/ gep) /\ HasValue(u, sub) /\ ~Ok(w) -> w
          [] cast /\ HasValue(u, sub) /\ Ok(w) ->
               ConstantCast(w, id, ic[2], IF s.c = "alias" THEN s.n ELSE sub)
          [] gep /\ read /\ HasValue(u, sub) /\ Ok(w) ->
               IF Const32Ends(w, sub) = "ok"
               THEN ConstantGep(w, id, sub, SubSeq(ic, 3, Len(ic)))
               ELSE Fail(u, Const32Ends(w, sub))
          [] ic[1] \in {10, 17} /\ ends # "ok" -> Fail(u, ends)
          [] ic[1] = 10 /\ ends = "ok" ->
               CASE ic[2] \notin 0 .. 12         -> ParserError(u)
                 [] ic[2] \in 3 .. 6 /\ r = 0    -> Crash(u)
                 [] OTHER                        -> Number(BinopValue(ic[2], l, r))
          [] ic[1] = 17 /\ ends = "ok" ->
               IF ic[5] \in 32 .. 41
               THEN Number(IF CmpValue(ic[5], l, r) THEN 1 ELSE 0)
               ELSE ParserError(u)

eval_constexprs(u) ==
    LET Eval(w, k) == IF Ok(w) /\ w.values[k].c = "ce" THEN eval_constexpr(w, k - 1)
                                                      ELSE w
    IN  FoldLeft(Eval, u, [k \in 1 .. u.next |-> k])

-----------------------------------------------------------------------------
(* CONSTANTS records. *)

(* The bytes of x, size of them; x is a signed number. *)
Bytes(x, size) ==
    [k \in 1 .. size |-> IF x = LowestInt THEN (IF k = 8 THEN 128 ELSE 0)
                         ELSE IF k > 4 THEN (IF x < 0 THEN 255 ELSE 0)
                                  ELSE IF k = 4 THEN (x \div 16777216) % 256
                                  ELSE (x \div 256^(k - 1)) % 256]

constants_rec_handler(u, op, a) ==
    LET t        == u.curtype
        it       == TypeAt(u.types, t)
        elsize   == type_sizeof(u.types, it.el)
        As(c, n, data) == AppendAs(u, c, t, n, data)
        Scalar   == IntCodes \cup {"pointer", "float", "double"}
    IN  CASE op = 1 -> IF a = <<>> THEN ParserError(u)
                                   ELSE [u EXCEPT !.curtype = a[1]]
          [] op \in {2, 3} ->
               CASE ~HasType(u.types, t)                -> ParserError(u)
                 [] HasType(u.types, t) /\ it.c \in Scalar -> As("constant", 0, <<>>)
                 [] HasType(u.types, t) /\ it.c \in {"array", "struct"} ->
                      As("zero", 0, <<>>)
                 [] OTHER                               -> ParserError(u)
          [] op \in {4, 6} /\ a = <<>> -> Crash(u)
          [] op = 4 /\ a # <<>> ->
               IF HasType(u.types, t) /\ it.c \in IntCodes
               THEN LET x == read_sign_rotated(a[1])
                    IN  As("constant", IF it.c \in {"i64", "ix"} THEN x ELSE U32(x),
                           <<>>)
               ELSE ParserError(u)
          [] op = 6 /\ a # <<>> ->
               IF HasType(u.types, t) /\ it.c \in {"float", "double"}
               THEN As("constant", a[1], <<>>) ELSE ParserError(u)
          [] op = 7 ->
               LET w   == As("aggregate", Len(a), a)
                   bad == SelectInSeq(a, LAMBDA x :
                             HasValue(w, x) => ValueAt(w, x).c = "NULL")
               IN  CASE bad = 0 -> w
                     [] bad # 0 /\ HasValue(w, a[bad]) -> Crash(u)
                     [] OTHER -> ParserError(u)
          [] op \in {8, 9} -> As("data", 0, Append([k \in DOMAIN a |-> a[k] % 256], 0))
          [] op = 10 -> IF Len(a) < 3 THEN ParserError(u)
                        ELSE As("ce", 0, <<10, a[1], a[2], a[3]>>)
          [] op = 11 -> IF Len(a) < 3 THEN Crash(u)
                        ELSE As("ce", 0, <<11, a[1], a[3]>>)
          [] op \in {12, 20} ->
               \* an odd number of arguments starts with the explicit type
               LET b == IF Len(a) % 2 = 1 THEN Tail(a) ELSE a
               IN  As("ce", 0, <<op>> \o [k \in 1 .. Len(b) \div 2 |-> b[2 * k]])
          [] op = 17 -> IF Len(a) < 4 THEN ParserError(u)
                        ELSE As("ce", 0, <<17, a[1], a[2], a[3], a[4]>>)
          [] op = 22 ->
               IF /\ HasType(u.types, t) /\ it.c = "array"
                  /\ TypeAt(u.types, it.el).c
                       \in {"i16", "i32", "i64", "float", "double"}
               THEN As("data", 0, FlattenSeq([k \in DOMAIN a |-> Bytes(a[k], elsize)]))
               ELSE ParserError(u)
          [] OTHER -> ParserError(u)     \* block addresses, inline assembler

-----------------------------------------------------------------------------
(* MODULE records. *)

vmir_llvm_alignment(align, default) ==
    IF align = 0 THEN default ELSE IF align > 9 THEN 256 ELSE 2^align \div 2

(* Mutant: a global starts where the one before it ends. *)
module_globalvar_packed(u, a) ==
    LET explicit == (a[2] \div 2) % 2 = 1
        type     == IF explicit THEN type_make_pointer(u, a[1], FALSE).r ELSE a[1]
        pointee  == IF explicit THEN a[1] ELSE TypeAt(u.types, a[1]).el
        size     == type_sizeof(u.types, pointee)
        g        == [addr |-> u.dataptr, size |-> size, type |-> pointee, name |-> <<>>]
        w        == AppendAs(u, "globalvar", type, Len(u.gvars) + 1, <<>>)
    IN  [w EXCEPT !.gvars = Append(@, g), !.dataptr = u.dataptr + size,
                  !.inits = IF a[3] > 0 THEN Append(@, <<u.next, a[3] - 1>>) ELSE @]

module_globalvar(u, a) ==
    LET explicit == (a[2] \div 2) % 2 = 1
        type     == IF explicit THEN type_make_pointer(u, a[1], FALSE).r ELSE a[1]
        pointee  == IF explicit THEN a[1] ELSE TypeAt(u.types, a[1]).el
        addr     == AlignUp(u.dataptr, vmir_llvm_alignment(a[5], 4))
        size     == type_sizeof(u.types, pointee)
        g        == [addr |-> addr, size |-> size, type |-> pointee, name |-> <<>>]
        w        == AppendAs(u, "globalvar", type, Len(u.gvars) + 1, <<>>)
    IN  IF \/ Len(a) < 6
           \/ explicit /\ type = -1
           \/ ~explicit /\ ~IsPointer(u.types, a[1])
           \/ ~HasSize(u.types, pointee)
        THEN ParserError(u)
        ELSE [w EXCEPT !.gvars = Append(@, g), !.dataptr = addr + size,
                       !.inits = IF a[3] > 0 THEN Append(@, <<u.next, a[3] - 1>>)
                                             ELSE @]

module_function(u, a) ==
    LET it   == TypeAt(u.types, a[1])
        type == IF it.c = "pointer" THEN it.el ELSE a[1]
        f    == [type |-> type, proto |-> a[3] # 0, name |-> <<>>, ext |-> FALSE,
                 vmop |-> FALSE, used |-> FALSE, bbs |-> <<>>, text |-> <<>>,
                 regframe |-> 0, callarg |-> 0]
        gfid == Len(u.funcs)
        w    == AppendAs(u, "function", type, gfid, <<>>)
    IN  IF Len(a) < 8 \/ ~HasType(u.types, a[1]) THEN ParserError(u)
        ELSE [w EXCEPT !.funcs  = Append(@, f),
                       !.bodies = IF f.proto THEN @ ELSE Append(@, gfid)]

module_alias(u, a) ==
    IF Len(a) < 3 THEN ParserError(u) ELSE AppendAs(u, "alias", a[1], a[2], <<>>)

module_rec_handler(u, op, a) ==
    CASE op \in {1, 2, 3, 12, 15} -> u      \* version, triple, data layout, comdat
      [] op = 7  -> module_globalvar(u, a)
      [] op = 8  -> module_function(u, a)
      [] op = 9  -> module_alias(u, a)
      [] op = 13 -> IF Len(a) # 1 THEN ParserError(u) ELSE [u EXCEPT !.vst = a[1]]
      [] OTHER   -> ParserError(u)

(* The names of functions and globals; a function of the host, or one that *)
(* is an instruction of the machine, is found by its name.                 *)
set_value_name(u, vid, str) ==
    LET v     == ValueAt(u, vid)
        named == [u EXCEPT !.values[vid + 1].name = str]
        f     == u.funcs[v.n + 1]
        vmop  == str \in VmopNames
    IN  CASE ~HasValue(u, vid) -> ParserError(u)
          [] HasValue(u, vid) /\ v.c = "NULL" -> Crash(u)
          [] HasValue(u, vid) /\ v.c = "function" ->
               [named EXCEPT !.funcs[v.n + 1] =
                  IF f.ext THEN [f EXCEPT !.name = str]
                  ELSE [f EXCEPT !.name = str, !.vmop = vmop,
                                 !.ext = ~vmop /\ str \in ExternNames]]
          [] HasValue(u, vid) /\ v.c = "globalvar" ->
               [named EXCEPT !.gvars[v.n].name = str]
          [] HasValue(u, vid)
             /\ v.c \in {"constant", "zero", "temporary", "regframe", "alias"} -> named
          [] OTHER -> ParserError(u)

value_symtab_rec_handler(u, op, a) ==
    CASE op = 1 -> IF Len(a) < 2 THEN ParserError(u)
                   ELSE set_value_name(u, a[1], Tail(a))
      [] op = 2 -> u
      [] op = 3 -> IF Len(a) < 3 THEN ParserError(u)
                   ELSE set_value_name(u, a[1], SubSeq(a, 3, Len(a)))
      [] OTHER  -> ParserError(u)

-----------------------------------------------------------------------------
(* Attributes: only "by value" (kind 3) has an effect.                      *)

(* Where the zero terminated string at the start of a ends, 0 if it does not. *)
ZstrEnd(a) == SelectInSeq(a, LAMBDA x : x = 0)
AfterZstr(a) == SubSeq(a, ZstrEnd(a) + 1, Len(a))

(* The count of the arguments of an integer attribute wraps when its value *)
(* is missing: the loop reads on behind the record.                        *)
RECURSIVE AttrKinds(_, _)
AttrKinds(a, kinds) ==
    LET type == a[1]  rest == Tail(a)
    IN  CASE a = <<>> -> [st |-> "ok", kinds |-> kinds]
          [] Len(a) > 1 /\ type = 0 -> AttrKinds(Tail(rest), kinds \cup {rest[1]})
          [] Len(a) > 2 /\ type = 1 -> AttrKinds(Tail(Tail(rest)), kinds)
          [] Len(a) = 2 /\ type = 1 -> [st |-> "crash", kinds |-> kinds]
          [] Len(a) > 1 /\ type = 3 /\ ZstrEnd(rest) > 0 ->
               AttrKinds(AfterZstr(rest), kinds)
          [] Len(a) > 1 /\ type = 4 /\ ZstrEnd(rest) > 0
                        /\ ZstrEnd(AfterZstr(rest)) > 0 ->
               AttrKinds(AfterZstr(AfterZstr(rest)), kinds)
          [] OTHER -> [st |-> "error", kinds |-> kinds]

paramattr_group_rec_handler(u, op, a) ==
    LET x == AttrKinds(SubSeq(a, 3, Len(a)), {}) IN
    IF op # 3 \/ Len(a) < 3 THEN ParserError(u)
    ELSE IF ~Ok(x) THEN Fail(u, x.st)
    ELSE [u EXCEPT !.groups = <<[id |-> a[1], index |-> a[2],
                                 byval |-> 3 \in x.kinds]>> \o @]

paramattr_rec_handler(u, op, a) ==
    LET Find(id) == SelectInSeq(u.groups, LAMBDA g : g.id = id) IN
    IF op # 2 \/ \E k \in DOMAIN a : Find(a[k]) = 0 THEN ParserError(u)
    ELSE [u EXCEPT !.attrsets =
             Append(@, [k \in DOMAIN a |-> u.groups[Find(a[k])]])]

-----------------------------------------------------------------------------
(* The initial contents of the globals.                                     *)

Write(mem, addr, bytes) ==
    [x \in DOMAIN mem |-> IF x \in addr .. addr + Len(bytes) - 1
                          THEN bytes[x - addr + 1] ELSE mem[x]]

(* m.st is "ok" until parser_error is called or the program crashes. *)
RECURSIVE initialize_global(_, _, _, _, _)
initialize_global(u, m, addr, ty, vid) ==
    LET it      == TypeAt(u.types, ty)
        c       == ValueAt(u, vid)
        bad     == ParserError(m)
        Put(bytes) == [m EXCEPT !.mem = Write(@, addr, bytes)]
        size    == type_sizeof(u.types, ty)
        zero    == Put([k \in 1 .. size |-> 0])
        Element(acc, k) ==
            IF ~Ok(acc) THEN acc
            ELSE IF it.c = "array"
                 THEN initialize_global(u, acc, addr + (k - 1) *
                          type_sizeof(u.types, it.el), it.el, c.data[k])
                 ELSE initialize_global(u, acc, addr + it.offs[k], it.elems[k],
                                        c.data[k])
        n       == IF it.c = "array" THEN it.n ELSE Len(it.elems)
    IN  CASE ~HasValue(u, vid) -> bad
          [] HasValue(u, vid) /\ c.c = "NULL" -> Crash(m)
          [] HasValue(u, vid) /\ it.c \in {"i1", "i8", "i16", "i32", "float"} ->
               IF IsConst32(u, vid) THEN Put(Bytes(S32(value_get_const32(u, vid)), size))
                                    ELSE bad
          [] HasValue(u, vid) /\ it.c \in {"i64", "double"} ->
               IF c.c # "constant" THEN Crash(m)
               ELSE IF IsConst32(u, vid) /\ TypeAt(u.types, c.t).c # "float"
                    THEN Put(Bytes(value_get_const64(u, vid), 8))
                    ELSE bad
          [] HasValue(u, vid) /\ it.c = "pointer" ->
               CASE c.c \in {"globalvar", "constant"} ->
                      Put(Bytes(S32(value_get_const32(u, vid)), 4))
                 [] c.c = "function" -> Put(Bytes(c.n, 4))
                 [] OTHER -> bad
          [] HasValue(u, vid) /\ it.c \in {"array", "struct"} ->
               CASE c.c = "data" /\ it.c = "array" -> Put(SubSeq(c.data, 1, size))
                 [] c.c = "zero" -> zero
                 [] c.c = "aggregate" /\ c.n # n -> Crash(m)
                 [] c.c = "aggregate" /\ c.n = n ->
                      FoldLeft(Element, m, [k \in 1 .. n |-> k])
                 [] OTHER -> bad
          [] OTHER -> bad

initialize_globals(u, mem) ==
    LET One(m, ii) ==
            LET g == u.gvars[ValueAt(u, ii[1]).n]
            IN  IF Ok(m) THEN initialize_global(u, m, g.addr, g.type, ii[2]) ELSE m
    IN  FoldLeft(One, [st |-> "ok", mem |-> mem], u.inits)
==============================================================================
