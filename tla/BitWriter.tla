------------------------------ MODULE BitWriter ------------------------------
(***************************************************************************)
(* A writer of bitcode files, the counterpart the loader is checked        *)
(* against: it follows the layout LLVM's writer gives a module and has     *)
(* nothing in common with the reader.  A program is a record of types,     *)
(* globals, functions, constants and bodies whose operands are absolute    *)
(* value numbers; Encode gives the bytes of the file.                      *)
(***************************************************************************)
EXTENDS Integers, Sequences, SequencesExt, FiniteSetsExt

CONSTANT UintBits      \* the scaled width of a relative operand

-----------------------------------------------------------------------------
(* Bits, least significant first. *)

FixedBits(x, w) == [k \in 1 .. w |-> IF k > 30 THEN 0 ELSE (x \div 2^(k - 1)) % 2]

(* The sequences of s one after the other, joined half by half. *)
RECURSIVE Joined(_)
Joined(s) == LET h == Len(s) \div 2 IN
             IF Len(s) < 2 THEN (IF s = <<>> THEN <<>> ELSE s[1])
             ELSE Joined(SubSeq(s, 1, h)) \o Joined(SubSeq(s, h + 1, Len(s)))

RECURSIVE VbrBits(_, _)
VbrBits(x, w) == LET half == 2^(w - 1)
                 IN  IF x < half THEN FixedBits(x, w)
                     ELSE FixedBits(half + (x % half), w) \o VbrBits(x \div half, w)

Padded(bits) == bits \o [k \in 1 .. (-Len(bits)) % 32 |-> 0]

ToBytes(bits) == [k \in 1 .. Len(bits) \div 8 |->
                    MapThenSumSet(LAMBDA j : bits[8 * (k - 1) + j + 1] * 2^j, 0 .. 7)]

-----------------------------------------------------------------------------
(* Items of a block: records, abbreviations, blocks. *)

Rec(code, args)   == [i |-> "rec", id |-> code, width |-> 0, args |-> args, sub |-> <<>>]
Blk(id, width, s) == [i |-> "blk", id |-> id, width |-> width, args |-> <<>>, sub |-> s]
Def(ops)          == [i |-> "def", id |-> 0, width |-> 0, args |-> ops, sub |-> <<>>]
\* a record written with abbreviation number n of its block
Abb(n, ops, args) == [i |-> "abb", id |-> n, width |-> 0, args |-> args, sub |-> ops]

Lit(x)  == <<0, x>>
Fix(w)  == <<1, w>>
Vbr(w)  == <<2, w>>
Arr     == <<3, 0>>
Chr6    == <<4, 0>>

Char6Code(c) == CASE c \in 97 .. 122 -> c - 97
                  [] c \in 65 .. 90  -> c - 65 + 26
                  [] c \in 48 .. 57  -> c - 48 + 52
                  [] c = 46 -> 62
                  [] c = 95 -> 63
IsChar6(c) == c \in (97 .. 122) \cup (65 .. 90) \cup (48 .. 57) \cup {46, 95}

OperandBits(op, x) == CASE op[1] = 0 -> <<>>
                        [] op[1] = 1 -> FixedBits(x, op[2])
                        [] op[1] = 2 -> VbrBits(x, op[2])
                        [] op[1] = 4 -> FixedBits(Char6Code(x), 6)

RecordBits(ops, args) ==
    LET n     == IF \E k \in DOMAIN ops : ops[k][1] = 3 THEN Len(ops) - 2 ELSE Len(ops)
        head  == Joined([k \in 1 .. n |-> OperandBits(ops[k], args[k])])
        rest  == SubSeq(args, n + 1, Len(args))
    IN  IF n = Len(ops) THEN head
        ELSE head \o VbrBits(Len(rest), 6)
                  \o Joined([k \in DOMAIN rest |-> OperandBits(Last(ops), rest[k])])

DefBits(ops) ==
    VbrBits(Len(ops), 5) \o Joined([k \in DOMAIN ops |->
        CASE ops[k][1] = 0 -> <<1>> \o VbrBits(ops[k][2], 8)
          [] ops[k][1] \in {1, 2} -> <<0>> \o FixedBits(ops[k][1], 3)
                                       \o VbrBits(ops[k][2], 5)
          [] OTHER -> <<0>> \o FixedBits(ops[k][1], 3)])

RECURSIVE AddItem(_, _, _), AddItems(_, _, _)
AddItem(bits, it, width) ==
    CASE it.i = "rec" -> bits \o FixedBits(3, width) \o VbrBits(it.id, 6)
                           \o VbrBits(Len(it.args), 6)
                           \o Joined([k \in DOMAIN it.args |-> VbrBits(it.args[k], 6)])
      [] it.i = "def" -> bits \o FixedBits(2, width) \o DefBits(it.args)
      [] it.i = "abb" -> bits \o FixedBits(it.id + 3, width) \o RecordBits(it.sub, it.args)
      [] it.i = "blk" ->
           LET inner == Padded(AddItems(<<>>, it.sub, it.width)
                               \o FixedBits(0, it.width))
           IN  Padded(bits \o FixedBits(1, width) \o VbrBits(it.id, 8)
                           \o VbrBits(it.width, 4))
               \o FixedBits(Len(inner) \div 32, 32) \o inner

(* Half by half; the first half is done before the second is looked at. *)
AddItems(bits, items, width) ==
    LET h == Len(items) \div 2
    IN  IF Len(items) < 2 THEN (IF items = <<>> THEN bits ELSE AddItem(bits, items[1], width))
        ELSE CHOOSE r \in {AddItems(b, SubSeq(items, h + 1, Len(items)), width) :
                              b \in {AddItems(bits, SubSeq(items, 1, h), width)}} : TRUE

MagicNumber == FixedBits(66, 8) \o FixedBits(67, 8) \o FixedBits(192, 8) \o FixedBits(222, 8)

FileBits(blocks) == AddItems(MagicNumber, blocks, 2)

(* The word at which the next item of the last block would start. *)
WordsBefore(blocks) ==
    LET outer == FileBits(Front(blocks))  m == Last(blocks)
        head  == Padded(outer \o FixedBits(1, 2) \o VbrBits(m.id, 8) \o VbrBits(m.width, 4))
        body  == AddItems(<<>>, m.sub, m.width)
    IN  (Len(head) + 32 + Len(body)) \div 32

-----------------------------------------------------------------------------
(* Abbreviations: the first one of the table a record fits is used. *)

Fits(ops, args) ==
    LET arr == \E k \in DOMAIN ops : ops[k][1] = 3
        n   == IF arr THEN Len(ops) - 2 ELSE Len(ops)
    IN  /\ IF arr THEN Len(args) >= n ELSE Len(args) = n
        /\ \A k \in 1 .. n : /\ ops[k][1] = 0 => args[k] = ops[k][2]
                             /\ ops[k][1] = 1 /\ ops[k][2] < 31 => args[k] < 2^ops[k][2]
        /\ arr => \A k \in n + 1 .. Len(args) :
                     CASE Last(ops)[1] = 4 -> IsChar6(args[k])
                       [] Last(ops)[1] = 1 -> args[k] < 2^Last(ops)[2]
                       [] OTHER -> TRUE

Shorten(table, r) ==
    LET all == <<r.id>> \o r.args
        k   == SelectInSeq(table, LAMBDA ops : Fits(ops, all))
    IN  IF r.i # "rec" \/ k = 0 THEN r ELSE Abb(k, table[k], all)

ShortenAll(table, items) == [k \in DOMAIN items |-> Shorten(table, items[k])]

ConstantAbbrevs == << <<Lit(1), Fix(5)>>, <<Lit(4), Vbr(8)>>, <<Lit(2)>>,
                      <<Lit(7), Arr, Fix(6)>>, <<Lit(9), Arr, Fix(7)>> >>
FunctionAbbrevs == << <<Lit(20), Vbr(6), Fix(5), Vbr(4), Fix(1)>>,
                      <<Lit(2), Vbr(6), Vbr(6), Fix(4)>>, <<Lit(10)>>,
                      <<Lit(10), Vbr(6)>>, <<Lit(3), Vbr(6), Fix(5), Fix(4)>>,
                      <<Lit(43), Fix(1), Fix(5), Arr, Vbr(6)>> >>
SymtabAbbrevs   == << <<Lit(1), Vbr(8), Arr, Chr6>>, <<Lit(1), Vbr(8), Arr, Fix(8)>>,
                      <<Lit(3), Vbr(8), Fix(32), Arr, Chr6>> >>
TypeAbbrevs     == << <<Lit(8), Fix(5)>>, <<Lit(21), Fix(1), Arr, Fix(5)>>,
                      <<Lit(18), Fix(1), Arr, Fix(5)>>, <<Lit(11), Vbr(8), Fix(5)>> >>

BlockInfo ==
    LET Table(id, t) == <<Rec(1, <<id>>)>> \o [k \in DOMAIN t |-> Def(t[k])]
    IN  Blk(0, 2, Table(14, SymtabAbbrevs) \o Table(11, ConstantAbbrevs)
                  \o Table(12, FunctionAbbrevs))

-----------------------------------------------------------------------------
(* Programs.  A type is <<kind, number, types...>>. *)

TypeRec(t) ==
    CASE t[1] = "void"   -> Rec(2, <<>>)
      [] t[1] = "float"  -> Rec(3, <<>>)
      [] t[1] = "double" -> Rec(4, <<>>)
      [] t[1] = "label"  -> Rec(5, <<>>)
      [] t[1] = "meta"   -> Rec(16, <<>>)
      [] t[1] = "opaque" -> Rec(6, <<>>)
      [] t[1] = "vector" -> Rec(12, <<t[2], t[3]>>)
      [] t[1] = "int"    -> Rec(7, <<t[2]>>)
      [] t[1] = "ptr"    -> Rec(8, <<t[3], 0>>)
      [] t[1] = "array"  -> Rec(11, <<t[2], t[3]>>)
      [] t[1] = "struct" -> Rec(18, SubSeq(t, 2, Len(t)))
      [] t[1] = "fn"     -> Rec(21, SubSeq(t, 2, Len(t)))     \* varargs, ret, params

Lowest64   == -(2^30)      \* stands for the lowest number of 64 bits
SignRot(x) == CASE x >= 0                   -> 2 * x
                [] x < 0 /\ x # Lowest64    -> 2 * (-x) + 1
                [] x = Lowest64             -> 1

(* A constant is [t, k, x]. *)
ConstRec(c) ==
    CASE c.k = "null"  -> Rec(2, <<>>)
      [] c.k = "undef" -> Rec(3, <<>>)
      [] c.k = "int"   -> Rec(4, <<SignRot(c.x[1])>>)
      [] c.k = "fp"    -> Rec(6, c.x)
      [] c.k = "aggr"  -> Rec(7, c.x)
      [] c.k = "str"   -> Rec(8, c.x)
      [] c.k = "cstr"  -> Rec(9, Front(c.x))              \* the zero is not written
      [] c.k = "data"  -> Rec(22, c.x)
      [] c.k = "binop" -> Rec(10, c.x)
      [] c.k = "cast"  -> Rec(11, c.x)                     \* op, type, value
      [] c.k = "gep"   -> Rec(20, c.x)                     \* [type,] (type, value)...
      [] c.k = "cmp"   -> Rec(17, c.x)
      [] c.k = "asm"   -> Rec(23, c.x)

ConstItems(cs) ==
    Joined([k \in DOMAIN cs |->
      (IF k > 1 /\ cs[k].t = cs[k - 1].t THEN <<>> ELSE <<Rec(1, <<cs[k].t>>)>>)
      \o <<ConstRec(cs[k])>>])

-----------------------------------------------------------------------------
(* Functions.  An instruction is [c, a, w, k, x, copy, drop, ty]: its class, *)
(* the values it uses, the values the record names (they differ where the   *)
(* loader looks through an alias), numbers, further fields of the record,   *)
(* the bytes copied for arguments passed by value, whether it is a call the *)
(* loader drops, and the type of its result or -1.                          *)

I(c, a, k, ty) == [c |-> c, a |-> a, w |-> a, k |-> k, x |-> <<>>,
                   copy |-> <<>>, drop |-> FALSE, ty |-> ty]

(* The types of all values of a module, and of those seen by function f. *)
ModuleTypes(P) == [g \in DOMAIN P.globals |-> P.globals[g].ptr]
                  \o [f \in DOMAIN P.funcs |-> P.funcs[f].ty]
                  \o [a \in DOMAIN P.aliases |-> P.aliases[a].ty]
                  \o [c \in DOMAIN P.consts |-> P.consts[c].t]

Params(P, f) == LET t == P.types[P.funcs[f].ty + 1] IN SubSeq(t, 4, Len(t))

ValueTypes(P, f) ==
    LET b == P.funcs[f].body
    IN  ModuleTypes(P) \o Params(P, f) \o [c \in DOMAIN b.consts |-> b.consts[c].t]
        \o [k \in DOMAIN SelectSeq(Joined(b.bbs), LAMBDA in : in.ty >= 0) |->
              SelectSeq(Joined(b.bbs), LAMBDA in : in.ty >= 0)[k].ty]

(* Operands, relative to the next value, as 32 bit numbers. *)
Rel(next, id)      == (next - id) % 2^UintBits
Typed(ts, next, id) == IF id < next THEN <<next - id>> ELSE <<Rel(next, id), ts[id + 1]>>
Pairs(s)           == Joined([j \in DOMAIN s |-> <<s[j][1], s[j][2]>>])

(* The record of an instruction; new says whether types are explicit. *)
InstrRec(P, ts, next, in, new) ==
    LET T(j)  == Typed(ts, next, in.w[j])
        R(j)  == Rel(next, in.w[j])
        All(lo) == Joined([j \in 1 .. Len(in.w) - lo + 1 |-> T(j + lo - 1)])
        fnty  == P.types[in.x[2] + 1]            \* calls: x = <<attributes, type>>
        fixed == Len(fnty) - 3
        Args  == Joined([j \in 1 .. Len(in.w) - 1 |->
                    IF j > fixed THEN T(j + 1) ELSE <<R(j + 1)>>])
    IN  CASE in.c = "ret"   -> Rec(10, All(1))
          [] in.c = "unreachable" -> Rec(15, <<>>)
          [] in.c = "binop" -> Rec(2, T(1) \o <<R(2)>> \o in.k)
          [] in.c = "cmp2"  -> Rec(28, T(1) \o <<R(2)>> \o in.k)
          [] in.c = "cast"  -> Rec(3, T(1) \o <<in.ty>> \o in.k)
          [] in.c = "load"  -> Rec(20, T(1) \o (IF new THEN <<in.ty, 3, 0>> ELSE <<3, 0>>))
          [] in.c = "store" -> IF new THEN Rec(44, T(1) \o T(2) \o <<3, 0>>)
                                      ELSE Rec(24, T(1) \o <<R(2), 3, 0>>)
          [] in.c = "gep"   -> IF new THEN Rec(43, <<1, in.k[2]>> \o All(1))
                                      ELSE Rec(30, All(1))
          [] in.c = "insertval"  -> Rec(27, T(1) \o T(2) \o in.k)
          [] in.c = "extractval" -> Rec(26, T(1) \o in.k)
          [] in.c = "select" -> Rec(29, T(1) \o <<R(2)>> \o T(3))
          [] in.c = "br"    -> IF in.w = <<>> THEN Rec(11, in.k)
                                              ELSE Rec(11, in.k \o <<R(1)>>)
          [] in.c = "switch" -> Rec(12, <<ts[in.w[1] + 1], R(1)>> \o in.k \o Pairs(in.x))
          [] in.c = "phi"   -> Rec(16, <<in.ty>> \o Joined([j \in DOMAIN in.w |->
                                 <<SignRot(next - in.w[j]), in.k[j]>>]) \o in.x)
          [] in.c = "call"  -> Rec(34, <<in.x[1], IF new THEN 32768 ELSE 0>>
                                 \o (IF new THEN <<in.x[2]>> ELSE <<>>) \o T(1) \o Args)
          [] in.c = "invoke" -> Rec(13, <<in.x[1], IF new THEN 8192 ELSE 0>> \o in.k
                                 \o (IF new THEN <<in.x[2]>> ELSE <<>>) \o T(1) \o Args)
          [] in.c = "landingpad" ->
               IF new THEN Rec(47, <<in.ty, in.k[1], (Len(in.k) - 1) \div 2>> \o Tail(in.k))
               ELSE Rec(40, <<in.ty>> \o Typed(ts, next, in.x[1])
                            \o <<in.k[1], (Len(in.k) - 1) \div 2>> \o Tail(in.k))
          [] in.c = "resume" -> Rec(39, T(1))
          [] in.c = "alloca" -> Rec(19, <<IF new THEN in.x[1] ELSE in.ty, ts[in.w[1] + 1],
                                         in.w[1], in.x[2] + (IF new THEN 64 ELSE 0)>>)
          [] in.c = "vaarg"  -> Rec(23, <<ts[in.w[1] + 1], R(1), in.ty>>)

ConstBlock(cs, short) ==
    Blk(11, 4, IF short THEN ShortenAll(ConstantAbbrevs, ConstItems(cs)) ELSE ConstItems(cs))

FunctionBlock(P, f, enc) ==
    LET b     == P.funcs[f].body
        ts    == ValueTypes(P, f)
        start == Len(ModuleTypes(P)) + Len(Params(P, f)) + Len(b.consts)
        code  == Joined(b.bbs)
        Next1(k) == start + Cardinality({j \in 1 .. k - 1 : code[j].ty >= 0})
        recs  == <<Rec(1, <<Len(b.bbs)>>)>>
                 \o [k \in DOMAIN code |-> InstrRec(P, ts, Next1(k), code[k], enc.new)]
        locals == [p \in DOMAIN Params(P, f) |->
                     Rec(1, <<Len(ModuleTypes(P)) + p - 1, 120, 48 + p>>)]
                  \o <<Rec(2, <<0, 98>>)>>
        body  == IF enc.short THEN ShortenAll(FunctionAbbrevs, recs) ELSE recs
    IN  Blk(12, 4, <<Head(body)>>
                   \o (IF b.consts = <<>> THEN <<>> ELSE <<ConstBlock(b.consts, enc.short)>>)
                   \o Tail(body)
                   \o <<Blk(14, 4, IF enc.short THEN ShortenAll(SymtabAbbrevs, locals)
                                                ELSE locals)>>)

-----------------------------------------------------------------------------
(* Modules. *)

TypeBlock(P, short) ==
    LET recs == <<Rec(1, <<Len(P.types)>>)>> \o [k \in DOMAIN P.types |-> TypeRec(P.types[k])]
    IN  Blk(17, 4, IF short THEN [k \in DOMAIN TypeAbbrevs |-> Def(TypeAbbrevs[k])]
                                 \o ShortenAll(TypeAbbrevs, recs)
                   ELSE recs)

GlobalRec(g, new) ==
    Rec(7, <<IF new THEN g.ty ELSE g.ptr, IF new THEN 2 ELSE 0, g.init, 0, g.al, 0>>)
FunctionRec(f, new) ==
    Rec(8, <<IF new THEN f.ty ELSE f.ptr, 0, IF f.proto THEN 1 ELSE 0, 0, 0, 0, 0, 0>>)

Names(P, fnentry) ==
    [g \in DOMAIN P.globals |-> Rec(1, <<g - 1>> \o P.globals[g].name)]
    \o [f \in DOMAIN P.funcs |->
          IF fnentry /\ ~P.funcs[f].proto
          THEN Rec(3, <<Len(P.globals) + f - 1, 77>> \o P.funcs[f].name)
          ELSE Rec(1, <<Len(P.globals) + f - 1>> \o P.funcs[f].name)]

(* enc.short: with abbreviations; enc.late: the symbol table comes last, its *)
(* place is in the module; enc.new: types are explicit.                      *)
ModuleBlock(P, enc, vst, upto) ==
    LET symtab == Blk(14, 4, IF enc.short THEN ShortenAll(SymtabAbbrevs, Names(P, enc.late))
                                          ELSE Names(P, enc.late))
        bodies == SelectSeq([f \in DOMAIN P.funcs |-> f], LAMBDA f : ~P.funcs[f].proto)
        place  == <<Lit(13), Fix(32)>>
        items  == <<Rec(1, <<1>>)>> \o (IF enc.short THEN <<BlockInfo>> ELSE <<>>)
           \o (IF P.groups = <<>> THEN <<>>
               ELSE <<Blk(10, 3, [k \in DOMAIN P.groups |-> Rec(3, P.groups[k])]),
                      Blk(9, 3, [k \in DOMAIN P.sets |-> Rec(2, P.sets[k])])>>)
           \o <<TypeBlock(P, enc.short), Rec(2, <<120>>)>>
           \o [g \in DOMAIN P.globals |-> GlobalRec(P.globals[g], enc.new)]
           \o [f \in DOMAIN P.funcs |-> FunctionRec(P.funcs[f], enc.new)]
           \o [a \in DOMAIN P.aliases |-> Rec(9, <<P.aliases[a].ty, P.aliases[a].to, 0>>)]
           \o (IF enc.late THEN <<Def(place), Abb(1, place, <<13, vst>>)>> ELSE <<>>)
           \o (IF P.consts = <<>> THEN <<>> ELSE <<ConstBlock(P.consts, enc.short)>>)
           \o <<Blk(15, 3, <<Rec(1, <<109, 101>>)>>)>>
           \o (IF enc.late THEN <<>> ELSE <<symtab>>)
           \o [k \in DOMAIN bodies |-> FunctionBlock(P, bodies[k], enc)]
           \o P.extra
    IN  Blk(8, 3, IF enc.late /\ upto = "end" THEN Append(items, symtab) ELSE items)

Encode(P, enc) ==
    LET ident == Blk(13, 3, <<Rec(1, <<76>>)>>)
        vst   == WordsBefore(<<ident, ModuleBlock(P, enc, 0, "symtab")>>)
    IN  ToBytes(CHOOSE b \in {FileBits(<<ident, ModuleBlock(P, enc, v, "end")>>) :
                                 v \in {IF enc.late THEN vst ELSE 0}} : TRUE)
==============================================================================
