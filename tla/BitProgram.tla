------------------------------ MODULE BitProgram ------------------------------
(***************************************************************************)
(* What a program written by BitWriter says: how its types are laid out,   *)
(* what its globals hold, and its functions with every value absolute.     *)
(* Want is the record the loader's properties are stated with.             *)
(***************************************************************************)
EXTENDS BitWriter

RECURSIVE RSize(_, _), RAlign(_, _), ROffset(_, _, _)

(* Size, alignment and the place of element i, from the type's description. *)
RSize(ts, t) ==
    LET d == ts[t + 1]  n == Len(d) - 2 IN
    CASE d[1] = "int"    -> CASE d[2] <= 8 -> 1 [] d[2] = 16 -> 2
                              [] d[2] > 32 -> 8 [] OTHER -> 4
      [] d[1] \in {"float", "ptr"} -> 4
      [] d[1] = "double" -> 8
      [] d[1] = "array"  -> d[2] * RSize(ts, d[3])
      [] d[1] = "struct" -> LET end == ROffset(ts, t, n) + RSize(ts, d[n + 2])
                                a   == RAlign(ts, t)
                            IN  CHOOSE s \in end .. end + a - 1 : s % a = 0

RAlign(ts, t) ==
    LET d == ts[t + 1] IN
    CASE d[1] = "array" -> RAlign(ts, d[3])
      [] d[1] = "struct" /\ d[2] = 1 -> 1
      [] d[1] = "struct" /\ d[2] = 0 -> Max({RAlign(ts, d[k]) : k \in 3 .. Len(d)})
      [] OTHER -> RSize(ts, t)

ROffset(ts, t, i) ==
    LET d   == ts[t + 1]
        end == ROffset(ts, t, i - 1) + RSize(ts, d[i + 1])
        a   == IF d[2] = 1 THEN 1 ELSE RAlign(ts, d[i + 2])
    IN  IF i = 1 THEN 0 ELSE CHOOSE s \in end .. end + a - 1 : s % a = 0

Layout(ts) ==
    [k \in DOMAIN ts |->
       IF ts[k][1] # "struct" THEN <<>>
       ELSE <<RSize(ts, k - 1), RAlign(ts, k - 1)>>
            \o [i \in 1 .. Len(ts[k]) - 2 |-> ROffset(ts, k - 1, i)]]

-----------------------------------------------------------------------------
(* Constants.  A scalar is [base, x]: a number, or x bytes from a global.   *)

ConstAt(P, id) == P.consts[id + 1 - (Len(P.globals) + Len(P.funcs) + Len(P.aliases))]

RECURSIVE Scalar(_, _)
Scalar(P, id) ==
    LET ng == Len(P.globals)
        c  == ConstAt(P, id)
        \* the bytes the indices of a GEP skip, the first one in whole objects
        Skip(acc, k) ==
            LET d == P.types[acc.t + 1]  i == Scalar(P, c.x[2 * k + 1]).x
            IN  IF d[1] = "struct" THEN [t |-> d[i + 3], x |-> acc.x + ROffset(P.types, acc.t, i + 1)]
                ELSE [t |-> d[3], x |-> acc.x + i * RSize(P.types, d[3])]
        base == Scalar(P, c.x[3])
    IN  CASE id < ng -> [base |-> id + 1, x |-> 0]
          [] id \in ng .. ng + Len(P.funcs) - 1 -> [base |-> 0, x |-> id - ng]
          [] id \in ng + Len(P.funcs) .. ng + Len(P.funcs) + Len(P.aliases) - 1 ->
               Scalar(P, P.aliases[id + 1 - ng - Len(P.funcs)].to)
          [] OTHER ->
               CASE c.k \in {"null", "undef"} -> [base |-> 0, x |-> 0]
                 [] c.k \in {"int", "fp"}     ->
                      [base |-> 0, x |-> IF P.types[c.t + 1] = <<"int", 1>> /\ c.x[1] # 0
                                         THEN 1 ELSE c.x[1]]
                 [] c.k \in {"binop", "cmp"}  -> [base |-> 0, x |-> c.v]
                 [] c.k = "cast"              -> Scalar(P, c.x[3])
                 [] c.k = "gep" -> [base EXCEPT !.x = @ +
                      FoldLeft(Skip, [t |-> c.x[2], x |-> 0],
                               [k \in 1 .. (Len(c.x) - 3) \div 2 |-> k + 1]).x]

(* The cells a global of type t initialised with id consists of. *)
RECURSIVE Cells(_, _, _, _)
Cells(P, at, t, id) ==
    LET d  == P.types[t + 1]
        c  == ConstAt(P, id)
        Cell(o, n, s) == [at |-> at + o, n |-> n, base |-> s.base, x |-> s.x]
        inner == RSize(P.types, d[3])
    IN  CASE d[1] \notin {"array", "struct"} -> {Cell(0, RSize(P.types, t), Scalar(P, id))}
          [] d[1] \in {"array", "struct"} /\ c.k = "null" ->
               {Cell(o, 1, [base |-> 0, x |-> 0]) : o \in 0 .. RSize(P.types, t) - 1}
          [] d[1] = "array" /\ c.k \in {"str", "cstr", "data"} ->
               {Cell((k - 1) * inner, inner, [base |-> 0, x |-> c.x[k]]) : k \in DOMAIN c.x}
          [] d[1] = "array" /\ c.k = "aggr" ->
               UNION {Cells(P, at + (k - 1) * inner, d[3], c.x[k]) : k \in DOMAIN c.x}
          [] d[1] = "struct" /\ c.k = "aggr" ->
               UNION {Cells(P, at + ROffset(P.types, t, k), d[k + 2], c.x[k]) : k \in DOMAIN c.x}

-----------------------------------------------------------------------------
(* An instruction as the document means it. *)

Paths(P, f, in) ==
    LET start == Len(ModuleTypes(P)) + Len(Params(P, f))
        c(id) == IF id >= start THEN P.funcs[f].body.consts[id - start + 1] ELSE ConstAt(P, id)
        bits  == P.types[c(in.x[1][1]).t + 1][2]
        Unsigned(x) == IF bits = 64 THEN x ELSE x % 2^Min({bits, UintBits})
    IN  {<<Unsigned(c(x[1]).x[1]), x[2]>> : x \in Range(in.x)}

Meant(P, f, in, id) ==
    LET ts == ValueTypes(P, f)
        V(v, t) == [v |-> v, t |-> t]
        params  == IF in.c \in {"call", "invoke"}
                   THEN SubSeq(P.types[in.x[2] + 1], 4, Len(P.types[in.x[2] + 1])) ELSE <<>>
        Type(j) == IF j - 1 \in DOMAIN params THEN params[j - 1] ELSE ts[in.w[j] + 1]
    IN  [c     |-> in.c,
         ret   |-> IF in.ty >= 0 THEN V(id, in.ty) ELSE V(-1, -1),
         vals  |-> IF in.c = "phi" THEN <<>> ELSE IF in.c \in {"ret", "br"} /\ in.a = <<>> THEN <<V(-1, -1)>>
                   ELSE [j \in DOMAIN in.a |-> V(in.a[j], Type(j))],
         k     |-> IF in.c = "phi" THEN <<>> ELSE in.k,
         nodes |-> IF in.c = "phi" THEN {<<in.k[j], in.a[j]>> : j \in DOMAIN in.a} ELSE {},
         paths |-> IF in.c = "switch" THEN Paths(P, f, in) ELSE {},
         copy  |-> in.copy]

MeantBody(P, f) ==
    LET b     == P.funcs[f].body
        start == Len(ModuleTypes(P)) + Len(Params(P, f)) + Len(b.consts)
        rets(s) == Cardinality({j \in DOMAIN s : s[j].ty >= 0})
        Before(bb, j) == rets(FlattenSeq(SubSeq(b.bbs, 1, bb - 1))) + rets(SubSeq(b.bbs[bb], 1, j - 1))
        kept(bb) == SelectSeq([j \in DOMAIN b.bbs[bb] |-> j],
                              LAMBDA j : b.bbs[bb][j].c # "call" \/ ~b.bbs[bb][j].drop)
    IN  IF P.funcs[f].proto THEN <<>>
        ELSE [bb \in DOMAIN b.bbs |-> [n \in DOMAIN kept(bb) |->
                LET j == kept(bb)[n]
                IN  Meant(P, f, b.bbs[bb][j], start + Before(bb, j))]]

-----------------------------------------------------------------------------
(* result is how the load must end, ctors the functions that must run. *)

Refuse(P, result) ==
    [result |-> result, ctors |-> <<>>, layout |-> <<>>, mtypes |-> ModuleTypes(P),
     ftypes |-> [f \in DOMAIN P.funcs |-> IF P.funcs[f].proto THEN <<>> ELSE ValueTypes(P, f)],
     gvars |-> <<>>, funcs |-> <<>>]

Want(P, result, ctors) ==
    [Refuse(P, result) EXCEPT
     !.ctors  = ctors,
     !.layout = Layout(P.types),
     !.gvars  = [g \in DOMAIN P.globals |->
                   LET v == P.globals[g] IN
                   [size  |-> RSize(P.types, v.ty), name |-> v.name,
                    align |-> IF v.al = 0 THEN 4 ELSE 2^(v.al - 1),
                    cells |-> IF v.init = 0 THEN {} ELSE Cells(P, 0, v.ty, v.init - 1)]],
     !.funcs  = [f \in DOMAIN P.funcs |->
                   [name |-> P.funcs[f].name, kind |-> P.funcs[f].kind,
                    text |-> MeantBody(P, f)]]]
==============================================================================
