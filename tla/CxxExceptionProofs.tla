------------------------- MODULE CxxExceptionProofs -------------------------
(***************************************************************************)
(* Proofs about C++ exceptions, for any number of exceptions and any depth *)
(* of nesting, for a guest that does not use "throw;".                     *)
(***************************************************************************)
EXTENDS CxxException, VmCallProofs, SeqLemmas, FiniteSetTheorems, FunctionTheorems

-----------------------------------------------------------------------------
(* What the activations r hold *)

Entry  == [role : {"pad", "handler"}, exc : Addresses, meant : Addresses]
Reg    == [new : Addresses, open : Seq(Entry)]
Header == [alloc : BOOLEAN, handlers : Int, next : Addresses]

(* <<i, 0>> is where activation i holds an object that is not thrown yet,  *)
(* <<i, j>> where it holds its j-th open exception.                        *)
IsPlace(r, i, j) ==
  /\ i \in 1..Len(r)
  /\ j \in 0..Len(r[i].open)
  /\ j = 0 => r[i].new # NULL

At(r, i, j)     == IF j = 0 THEN r[i].new ELSE r[i].open[j].exc
Caught(r, i, j) == j # 0 /\ r[i].open[j].role = "handler"

(* Place <<k, l>> was taken before <<i, j>>. *)
Outer(k, l, i, j) == k < i \/ (k = i /\ l < j)

Fresh(r, e) == \A i, j : IsPlace(r, i, j) => At(r, i, j) # e

(* No exception is in two places. *)
Unique(r) ==
  \A i, j, k, l : IsPlace(r, i, j) /\ IsPlace(r, k, l) /\ At(r, i, j) = At(r, k, l) => i = k /\ j = l

(* What is held is allocated; it counts a handler when it is handled. *)
Fits(r, h) ==
  \A i, j : IsPlace(r, i, j) => /\ At(r, i, j) \in Exceptions
                                /\ h[At(r, i, j)].alloc
                                /\ h[At(r, i, j)].handlers = IF Caught(r, i, j) THEN 1 ELSE 0

(* The exceptions f in flight are held by no activation. *)
Flies(r, h, f) ==
  \A e \in f : e \in Exceptions /\ h[e].alloc /\ h[e].handlers = 0 /\ Fresh(r, e)

(* The list that starts at top and goes on with next is c: allocated       *)
(* exceptions with one handler each.                                       *)
Chain(c, h, top) ==
  /\ Distinct(c)
  /\ top = IF c = <<>> THEN NULL ELSE c[1]
  /\ \A i \in 1..Len(c) : /\ h[c[i]].next = IF i = Len(c) THEN NULL ELSE c[i+1]
                          /\ h[c[i]].alloc /\ h[c[i]].handlers = 1

(* What is being handled is on the list c, the innermost first; the others *)
(* on it were left there by stopped calls.                                 *)
Ordered(r, c) ==
  /\ \A i, j : IsPlace(r, i, j) /\ Caught(r, i, j) => \E p \in 1..Len(c) : c[p] = At(r, i, j)
  /\ \A i, j, k, l : \A p, q \in 1..Len(c) :
       /\ IsPlace(r, i, j) /\ Caught(r, i, j) /\ c[p] = At(r, i, j)
       /\ IsPlace(r, k, l) /\ Caught(r, k, l) /\ c[q] = At(r, k, l)
       /\ Outer(k, l, i, j)
       => p < q

Listed(r, h, top) == \E c \in Seq(Exceptions) : Chain(c, h, top) /\ Ordered(r, c)

-----------------------------------------------------------------------------
(* The inductive invariant *)

CxxTypeOK ==
  /\ regs \in Seq(Reg) /\ Len(regs) = Len(stack)
  /\ header \in [Addresses -> Header]
  /\ iu_exception \in [exception : Addresses, uncaught : Int, caught : Addresses]
  /\ carried \in Addresses
  /\ lost \in [thrown : Nat, other : Nat]

(* Only guest code holds exceptions, and what it holds while it waits is   *)
(* what its call instruction allows: of activations s that hold r.         *)
HeldWell(s, r) ==
  /\ \A i \in 1..Len(s) : s[i].kind # "exec" => s[i].site = "none" /\ r[i] = Idle
  /\ \A i \in 1..Len(s) : s[i].site \in {"jsr", "jsr_r_ext"} => r[i].open = <<>>
  /\ \A i \in 1..Len(s) : \A j \in 1..Len(s) :
       i + 1 = j /\ s[i].site = "jsr" /\ s[j].kind = "exec" => r[i] = Idle

Waits ==
  /\ HeldWell(stack, regs)
  /\ pending = RUN /\ stack # <<>> => Top.site = "none"
  /\ pending = 1 /\ ~jumped /\ Top.site = "jsr" => Mine = Idle

Flight == IF flying THEN {iu_exception.exception} ELSE {}

Placed ==
  /\ Unique(regs)
  /\ Fits(regs, header)
  /\ Flies(regs, header, Flight)
  /\ Listed(regs, header, iu_exception.caught)

Counted ==
  /\ Cardinality({e \in Exceptions : header[e].alloc})
       = Held(1, "pad") + Held(1, "handler") + New(1) + (IF flying THEN 1 ELSE 0)
           + lost.thrown + lost.other
  /\ iu_exception.uncaught = Held(1, "pad") + (IF flying THEN 1 ELSE 0) + lost.thrown

CxxInv == CxxTypeOK /\ Waits /\ Placed /\ Counted
-----------------------------------------------------------------------------
(* Places *)

(* Every place of t is a place of r, with the same in it. *)
Within(t, r) ==
  \A i, j : IsPlace(t, i, j) => /\ IsPlace(r, i, j)
                                /\ At(t, i, j) = At(r, i, j)
                                /\ Caught(t, i, j) <=> Caught(r, i, j)

LEMMA WithinKeeps ==
  ASSUME NEW r, NEW t, Within(t, r)
  PROVE  /\ Unique(r) => Unique(t)
         /\ \A h : Fits(r, h) => Fits(t, h)
         /\ \A h, f : Flies(r, h, f) => Flies(t, h, f)
         /\ \A c : Ordered(r, c) => Ordered(t, c)
         /\ \A e : Fresh(r, e) => Fresh(t, e)
<1>1. Unique(r) => Unique(t)
  BY DEF Within, Unique
<1>2. ASSUME NEW h, Fits(r, h) PROVE Fits(t, h)
  BY <1>2 DEF Within, Fits
<1>3. ASSUME NEW e, Fresh(r, e) PROVE Fresh(t, e)
  BY <1>3 DEF Within, Fresh
<1>4. ASSUME NEW h, NEW f, Flies(r, h, f) PROVE Flies(t, h, f)
  BY <1>3, <1>4 DEF Flies
<1>5. ASSUME NEW c, Ordered(r, c) PROVE Ordered(t, c)
  <2>1. ASSUME NEW i, NEW j, IsPlace(t, i, j), Caught(t, i, j)
        PROVE  IsPlace(r, i, j) /\ Caught(r, i, j) /\ At(t, i, j) = At(r, i, j)
    BY <2>1 DEF Within
  <2>2. ASSUME NEW i, NEW j, IsPlace(t, i, j), Caught(t, i, j)
        PROVE  \E p \in 1..Len(c) : c[p] = At(t, i, j)
    BY <2>1, <2>2, <1>5 DEF Ordered
  <2>3. ASSUME NEW i, NEW j, NEW k, NEW l, NEW p \in 1..Len(c), NEW q \in 1..Len(c),
               IsPlace(t, i, j), Caught(t, i, j), c[p] = At(t, i, j),
               IsPlace(t, k, l), Caught(t, k, l), c[q] = At(t, k, l),
               Outer(k, l, i, j)
        PROVE  p < q
    BY <2>1, <2>3, <1>5 DEF Ordered
  <2> QED BY <2>2, <2>3 DEF Ordered
<1> QED BY <1>1, <1>2, <1>3, <1>4, <1>5

(* What was taken out of its place is nowhere else. *)
LEMMA TakenOut ==
  ASSUME NEW r, NEW t, Within(t, r), Unique(r), NEW i, NEW j, IsPlace(r, i, j), ~IsPlace(t, i, j)
  PROVE  Fresh(t, At(r, i, j))
BY DEF Within, Unique, Fresh

LEMMA AppendReg ==
  ASSUME NEW S, NEW r \in Seq(S), NEW x \in S
  PROVE  /\ Append(r, x) \in Seq(S) /\ Len(r) \in Nat /\ Len(Append(r, x)) = Len(r) + 1
         /\ Append(r, x)[Len(r) + 1] = x
         /\ \A i \in 1..Len(r) : Append(r, x)[i] = r[i] /\ i \in 1..(Len(r) + 1) /\ i # Len(r) + 1
         /\ \A i \in 1..(Len(r) + 1) : i = Len(r) + 1 \/ i \in 1..Len(r)
         /\ Len(r) + 1 \in 1..(Len(r) + 1)
<1>1. Append(r, x) \in Seq(S) /\ Len(r) \in Nat /\ Len(Append(r, x)) = Len(r) + 1
  OBVIOUS
<1>2. Append(r, x)[Len(r) + 1] = x /\ \A i \in 1..Len(r) : Append(r, x)[i] = r[i]
  OBVIOUS
<1> QED BY <1>1, <1>2

LEMMA RegFields ==
  /\ \A r \in Seq(Reg) : \A i \in 1..Len(r) :
       /\ r[i] \in Reg /\ r[i].new \in Addresses /\ r[i].open \in Seq(Entry)
       /\ Len(r[i].open) \in Nat
  /\ Idle \in Reg /\ Idle.new = NULL /\ Idle.open = <<>> /\ Len(Idle.open) = 0
<1>1. ASSUME NEW r \in Seq(Reg), NEW i \in 1..Len(r)
      PROVE  /\ r[i] \in Reg /\ r[i].new \in Addresses /\ r[i].open \in Seq(Entry)
             /\ Len(r[i].open) \in Nat
  <2>1. r[i] \in Reg
    BY ElementOfSeq, Zenon
  <2>2. r[i].new \in Addresses /\ r[i].open \in Seq(Entry)
    BY <2>1 DEF Reg
  <2> QED BY <2>1, <2>2, LenProperties
<1>2. Idle.new = NULL /\ Idle.open = <<>>
  BY DEF Idle
<1>3. <<>> \in Seq(Entry) /\ NULL \in Addresses
  BY EmptySeq DEF Addresses
<1>4. Idle \in Reg
  BY <1>3 DEF Idle, Reg
<1> QED BY <1>1, <1>2, <1>4

(* Pushing an activation that holds nothing. *)
LEMMA PushIdle ==
  ASSUME NEW r \in Seq(Reg)
  PROVE  Within(Append(r, Idle), r)
<1> DEFINE t == Append(r, Idle)
<1>1. /\ Len(r) \in Nat /\ Len(t) = Len(r) + 1 /\ t[Len(r) + 1] = Idle
      /\ \A i \in 1..Len(r) : t[i] = r[i]
      /\ \A i \in 1..(Len(r) + 1) : i = Len(r) + 1 \/ i \in 1..Len(r)
  BY AppendReg, RegFields
<1> HIDE DEF t
<1>2. ASSUME NEW i, NEW j, IsPlace(t, i, j) PROVE i \in 1..Len(r)
  <2>1. i \in 1..(Len(r) + 1) /\ j \in 0..Len(t[i].open) /\ (j = 0 => t[i].new # NULL)
    BY <1>1, <1>2 DEF IsPlace
  <2>2. i # Len(r) + 1
    BY <2>1, <1>1, RegFields
  <2> QED BY <2>1, <2>2, <1>1
<1>3. ASSUME NEW i, NEW j, IsPlace(t, i, j)
      PROVE  /\ IsPlace(r, i, j) /\ At(t, i, j) = At(r, i, j) /\ (Caught(t, i, j) <=> Caught(r, i, j))
  <2>1. i \in 1..Len(r) /\ t[i] = r[i]
    BY <1>1, <1>2, <1>3
  <2> QED BY <2>1, <1>3 DEF IsPlace, At, Caught
<1> QED BY <1>3 DEF Within, t

(* t is what is left of r once activations have ended. *)
LEMMA PrefixWithin ==
  ASSUME NEW r \in Seq(Reg), NEW n \in Nat, n <= Len(r)
  PROVE  Within(SubSeq(r, 1, n), r)
<1> DEFINE t == SubSeq(r, 1, n)
<1>1. Len(r) \in Nat /\ Len(t) = n /\ \A i \in 1..n : t[i] = r[i] /\ i \in 1..Len(r)
  OBVIOUS
<1> HIDE DEF t
<1>2. ASSUME NEW i, NEW j, IsPlace(t, i, j)
      PROVE  /\ IsPlace(r, i, j) /\ At(t, i, j) = At(r, i, j) /\ (Caught(t, i, j) <=> Caught(r, i, j))
  BY <1>1, <1>2 DEF IsPlace, At, Caught
<1> QED BY <1>2 DEF Within, t
(* t holds e at place <<i, j>>, and what r holds elsewhere. *)
Grown(t, r, i, j, e) ==
  /\ ~IsPlace(r, i, j)
  /\ \A k, l : IsPlace(t, k, l) =>
       \/ k = i /\ l = j /\ At(t, k, l) = e
       \/ IsPlace(r, k, l) /\ At(t, k, l) = At(r, k, l) /\ (Caught(t, k, l) <=> Caught(r, k, l))

LEMMA GrownKeeps ==
  ASSUME NEW r, NEW t, NEW i, NEW j, NEW e \in Exceptions, Grown(t, r, i, j, e), Fresh(r, e)
  PROVE  /\ Unique(r) => Unique(t)
         /\ \A h : Fits(r, h) /\ h[e].alloc /\ h[e].handlers = (IF Caught(t, i, j) THEN 1 ELSE 0)
                     => Fits(t, h)
         /\ \A h, f : Flies(r, h, f) /\ e \notin f => Flies(t, h, f)
         /\ \A c : Ordered(r, c) /\ ~Caught(t, i, j) => Ordered(t, c)
<1>1. ASSUME NEW k, NEW l, IsPlace(t, k, l), ~(k = i /\ l = j)
      PROVE  IsPlace(r, k, l) /\ At(t, k, l) = At(r, k, l) /\ (Caught(t, k, l) <=> Caught(r, k, l))
  BY <1>1 DEF Grown
<1>2. ASSUME IsPlace(t, i, j) PROVE At(t, i, j) = e
  BY <1>2 DEF Grown
<1>3. ASSUME NEW k, NEW l, IsPlace(t, k, l), ~(k = i /\ l = j) PROVE At(t, k, l) # e
  BY <1>1, <1>3 DEF Fresh
<1>4. Unique(r) => Unique(t)
  BY <1>1, <1>2, <1>3 DEF Unique
<1>5. ASSUME NEW h, Fits(r, h), h[e].alloc, h[e].handlers = (IF Caught(t, i, j) THEN 1 ELSE 0)
      PROVE  Fits(t, h)
  BY <1>1, <1>2, <1>5 DEF Fits
<1>6. ASSUME NEW h, NEW f, Flies(r, h, f), e \notin f PROVE Flies(t, h, f)
  <2>1. ASSUME NEW d, d # e, Fresh(r, d) PROVE Fresh(t, d)
    BY <2>1, <1>1, <1>2 DEF Fresh
  <2> QED BY <2>1, <1>6 DEF Flies
<1>7. ASSUME NEW c, Ordered(r, c), ~Caught(t, i, j) PROVE Ordered(t, c)
  <2>1. ASSUME NEW k, NEW l, IsPlace(t, k, l), Caught(t, k, l)
        PROVE  IsPlace(r, k, l) /\ Caught(r, k, l) /\ At(t, k, l) = At(r, k, l)
    BY <2>1, <1>1, <1>7
  <2>2. ASSUME NEW k, NEW l, IsPlace(t, k, l), Caught(t, k, l)
        PROVE  \E p \in 1..Len(c) : c[p] = At(t, k, l)
    BY <2>1, <2>2, <1>7 DEF Ordered
  <2>3. ASSUME NEW m, NEW n, NEW k, NEW l, NEW p \in 1..Len(c), NEW q \in 1..Len(c),
               IsPlace(t, m, n), Caught(t, m, n), c[p] = At(t, m, n),
               IsPlace(t, k, l), Caught(t, k, l), c[q] = At(t, k, l),
               Outer(k, l, m, n)
        PROVE  p < q
    BY <2>1, <2>3, <1>7 DEF Ordered
  <2> QED BY <2>2, <2>3 DEF Ordered
<1> QED BY <1>4, <1>5, <1>6, <1>7

LEMMA ConsFacts ==
  ASSUME NEW c \in Seq(Exceptions), NEW e \in Exceptions
  PROVE  /\ <<e>> \o c \in Seq(Exceptions) /\ Len(<<e>> \o c) = Len(c) + 1 /\ Len(c) \in Nat
         /\ (<<e>> \o c)[1] = e
         /\ \A p \in 1..Len(c) : (<<e>> \o c)[p + 1] = c[p] /\ p + 1 \in 1..(Len(c) + 1)
         /\ \A p \in 1..(Len(c) + 1) : p # 1 => p - 1 \in 1..Len(c) /\ (<<e>> \o c)[p] = c[p - 1]
<1>1. <<e>> \in Seq(Exceptions) /\ Len(<<e>>) = 1 /\ <<e>>[1] = e /\ Len(c) \in Nat
  OBVIOUS
<1>2. /\ <<e>> \o c \in Seq(Exceptions) /\ Len(<<e>> \o c) = 1 + Len(c)
      /\ \A p \in 1..(1 + Len(c)) : (<<e>> \o c)[p] = IF p <= 1 THEN <<e>>[p] ELSE c[p - 1]
  <2> DEFINE s == <<e>>
  <2>1. s \in Seq(Exceptions) /\ Len(s) = 1
    BY <1>1
  <2> HIDE DEF s
  <2>2. /\ s \o c \in Seq(Exceptions) /\ Len(s \o c) = 1 + Len(c)
        /\ \A p \in 1..(1 + Len(c)) : (s \o c)[p] = IF p <= 1 THEN s[p] ELSE c[p - 1]
    <3>1. /\ s \o c \in Seq(Exceptions) /\ Len(s \o c) = Len(s) + Len(c)
          /\ \A p \in 1..(Len(s) + Len(c)) : (s \o c)[p] = IF p <= Len(s) THEN s[p] ELSE c[p - Len(s)]
      BY <2>1, ConcatProperties, Zenon
    <3> QED BY <3>1, <2>1
  <2> QED BY <2>2 DEF s
<1> DEFINE d == <<e>> \o c
<1> HIDE DEF d
<1>3. d \in Seq(Exceptions) /\ Len(d) = 1 + Len(c) /\ d[1] = e
      /\ \A p \in 2..(1 + Len(c)) : d[p] = c[p - 1]
  BY <1>1, <1>2 DEF d
<1>4. \A p \in 1..Len(c) : p + 1 \in 2..(1 + Len(c)) /\ (p + 1) - 1 = p
  BY <1>1
<1>5. \A p \in 1..(Len(c) + 1) : p # 1 => p \in 2..(1 + Len(c)) /\ p - 1 \in 1..Len(c)
  BY <1>1
<1>6. \A p \in 1..Len(c) : d[p + 1] = c[p] /\ p + 1 \in 1..(Len(c) + 1)
  BY <1>1, <1>3, <1>4
<1> QED BY <1>1, <1>3, <1>5, <1>6 DEF d

(* The exception e is caught innermost: it goes to the head of the list. *)
LEMMA GrownCaught ==
  ASSUME NEW r, NEW t, NEW i, NEW j, NEW e \in Exceptions, Grown(t, r, i, j, e), Fresh(r, e),
         NEW c \in Seq(Exceptions), Ordered(r, c), \A p \in 1..Len(c) : c[p] # e,
         \A k, l : IsPlace(r, k, l) => ~Outer(i, j, k, l), ~Outer(i, j, i, j)
  PROVE  Ordered(t, <<e>> \o c)
<1> DEFINE d == <<e>> \o c
<1>1. /\ d \in Seq(Exceptions) /\ Len(d) = Len(c) + 1 /\ Len(c) \in Nat /\ d[1] = e
      /\ \A p \in 1..Len(c) : d[p + 1] = c[p] /\ p + 1 \in 1..Len(d)
      /\ \A p \in 1..Len(d) : p # 1 => p - 1 \in 1..Len(c) /\ d[p] = c[p - 1]
      /\ 1 \in 1..Len(d)
  BY ConsFacts
<1> HIDE DEF d
<1>2. ASSUME NEW k, NEW l, IsPlace(t, k, l), ~(k = i /\ l = j)
      PROVE  IsPlace(r, k, l) /\ At(t, k, l) = At(r, k, l) /\ (Caught(t, k, l) <=> Caught(r, k, l))
             /\ At(t, k, l) # e
  BY <1>2 DEF Grown, Fresh
<1>3. ASSUME NEW k, NEW l, IsPlace(t, k, l), k = i, l = j PROVE At(t, k, l) = e
  BY <1>3 DEF Grown
<1>4. ASSUME NEW k, NEW l, IsPlace(t, k, l), Caught(t, k, l)
      PROVE  \E p \in 1..Len(d) : d[p] = At(t, k, l)
  <2>1. CASE k = i /\ l = j
    BY <1>1, <1>3, <1>4, <2>1
  <2>2. CASE ~(k = i /\ l = j)
    <3>1. PICK p \in 1..Len(c) : c[p] = At(t, k, l)
      BY <1>2, <1>4, <2>2 DEF Ordered
    <3> QED BY <3>1, <1>1
  <2> QED BY <2>1, <2>2
<1>5. ASSUME NEW m, NEW n, NEW k, NEW l, NEW p \in 1..Len(d), NEW q \in 1..Len(d),
             IsPlace(t, m, n), Caught(t, m, n), d[p] = At(t, m, n),
             IsPlace(t, k, l), Caught(t, k, l), d[q] = At(t, k, l),
             Outer(k, l, m, n)
      PROVE  p < q
  <2>1. ~(k = i /\ l = j)
    BY <1>2, <1>5
  <2>2. q # 1 /\ q - 1 \in 1..Len(c) /\ c[q - 1] = At(r, k, l)
    BY <2>1, <1>1, <1>2, <1>5
  <2>3. CASE m = i /\ n = j
    <3>1. d[p] = e
      BY <2>3, <1>3, <1>5
    <3>2. p = 1
      BY <3>1, <1>1
    <3> QED BY <3>2, <2>2, <1>1
  <2>4. CASE ~(m = i /\ n = j)
    <3>1. p # 1 /\ p - 1 \in 1..Len(c) /\ c[p - 1] = At(r, m, n)
      BY <2>4, <1>1, <1>2, <1>5
    <3>2. /\ IsPlace(r, m, n) /\ Caught(r, m, n) /\ IsPlace(r, k, l) /\ Caught(r, k, l)
      BY <2>1, <2>4, <1>2, <1>5
    <3>3. p - 1 < q - 1
      BY <3>1, <3>2, <2>2, <1>5 DEF Ordered
    <3> QED BY <3>3, <1>1
  <2> QED BY <2>3, <2>4
<1> QED BY <1>4, <1>5 DEF Ordered, d

(* The header of an exception that is not in use changes. *)
LEMMA HeaderElse ==
  ASSUME NEW r, NEW h, NEW g, NEW e, \A a \in Exceptions : a # e => g[a] = h[a]
  PROVE  /\ Fits(r, h) /\ Fresh(r, e) => Fits(r, g)
         /\ \A f : Flies(r, h, f) /\ e \notin f => Flies(r, g, f)
         /\ \A c \in Seq(Exceptions) : \A top :
              Chain(c, h, top) /\ (\A p \in 1..Len(c) : c[p] # e) => Chain(c, g, top)
<1>1. ASSUME Fits(r, h), Fresh(r, e) PROVE Fits(r, g)
  BY <1>1 DEF Fits, Fresh
<1>2. ASSUME NEW f, Flies(r, h, f), e \notin f PROVE Flies(r, g, f)
  BY <1>2 DEF Flies
<1>3. ASSUME NEW c \in Seq(Exceptions), NEW top, Chain(c, h, top), \A p \in 1..Len(c) : c[p] # e
      PROVE  Chain(c, g, top)
  <2>1. \A p \in 1..Len(c) : g[c[p]] = h[c[p]]
    BY <1>3, ElementOfSeq
  <2> QED BY <1>3, <2>1 DEF Chain
<1> QED BY <1>1, <1>2, <1>3
-----------------------------------------------------------------------------
(* The last activation, from holding x to holding y *)

LEMMA TopShrinks ==
  ASSUME NEW b \in Seq(Reg), NEW x \in Reg, NEW y \in Reg, y.new = x.new \/ y.new = NULL,
         Len(y.open) <= Len(x.open), \A j \in 1..Len(y.open) : y.open[j] = x.open[j]
  PROVE  Within(Append(b, y), Append(b, x))
<1> DEFINE r == Append(b, x)  t == Append(b, y)  n == Len(b) + 1
<1>1. /\ Len(r) = n /\ r[n] = x /\ Len(t) = n /\ t[n] = y
      /\ \A i \in 1..Len(b) : r[i] = b[i] /\ t[i] = b[i]
      /\ \A i \in 1..n : i = n \/ i \in 1..Len(b)
  BY AppendReg
<1>2. Len(x.open) \in Nat /\ Len(y.open) \in Nat
  BY LenProperties DEF Reg
<1> HIDE DEF r, t, n
<1>3. ASSUME NEW i, NEW j, IsPlace(t, i, j)
      PROVE  /\ IsPlace(r, i, j) /\ At(t, i, j) = At(r, i, j) /\ (Caught(t, i, j) <=> Caught(r, i, j))
  <2>0. i \in 1..n /\ j \in 0..Len(t[i].open) /\ (j = 0 => t[i].new # NULL)
    BY <1>1, <1>3 DEF IsPlace
  <2>1. CASE i \in 1..Len(b)
    BY <2>0, <2>1, <1>1 DEF IsPlace, At, Caught
  <2>2. CASE i = n
    <3>1. j \in 0..Len(y.open) /\ (j = 0 => y.new # NULL /\ y.new = x.new) /\ r[i] = x /\ t[i] = y
      BY <2>0, <2>2, <1>1
    <3>2. j \in 0..Len(x.open) /\ (j # 0 => j \in 1..Len(y.open))
      BY <3>1, <1>2
    <3>3. j # 0 => y.open[j] = x.open[j]
      BY <3>2
    <3> QED BY <2>0, <3>1, <3>2, <3>3, <1>1 DEF IsPlace, At, Caught
  <2> QED BY <2>0, <2>1, <2>2, <1>1
<1> QED BY <1>3 DEF Within, r, t

LEMMA TopGrowsNew ==
  ASSUME NEW b \in Seq(Reg), NEW x \in Reg, NEW y \in Reg, x.new = NULL, y.open = x.open
  PROVE  /\ Grown(Append(b, y), Append(b, x), Len(b) + 1, 0, y.new)
         /\ ~Caught(Append(b, y), Len(b) + 1, 0)
<1> DEFINE r == Append(b, x)  t == Append(b, y)  n == Len(b) + 1
<1>1. /\ Len(r) = n /\ r[n] = x /\ Len(t) = n /\ t[n] = y
      /\ \A i \in 1..Len(b) : r[i] = b[i] /\ t[i] = b[i]
      /\ \A i \in 1..n : i = n \/ i \in 1..Len(b)
  BY AppendReg
<1> HIDE DEF r, t, n
<1>2. ~IsPlace(r, n, 0) /\ ~Caught(t, n, 0)
  BY <1>1 DEF IsPlace, Caught
<1>3. ASSUME NEW i, NEW j, IsPlace(t, i, j)
      PROVE  \/ i = n /\ j = 0 /\ At(t, i, j) = y.new
             \/ IsPlace(r, i, j) /\ At(t, i, j) = At(r, i, j) /\ (Caught(t, i, j) <=> Caught(r, i, j))
  <2>1. CASE i \in 1..Len(b)
    BY <2>1, <1>1, <1>3 DEF IsPlace, At, Caught
  <2>2. CASE i = n /\ j = 0
    BY <2>2, <1>1 DEF At
  <2>3. CASE i = n /\ j # 0
    BY <2>3, <1>1, <1>3 DEF IsPlace, At, Caught
  <2> QED BY <2>1, <2>2, <2>3, <1>1, <1>3 DEF IsPlace
<1> QED BY <1>2, <1>3 DEF Grown, r, t, n

LEMMA TopGrowsOpen ==
  ASSUME NEW b \in Seq(Reg), NEW x \in Reg, NEW y \in Reg, NEW e \in Entry,
         y.new = x.new, y.open = Append(x.open, e)
  PROVE  /\ Grown(Append(b, y), Append(b, x), Len(b) + 1, Len(x.open) + 1, e.exc)
         /\ Caught(Append(b, y), Len(b) + 1, Len(x.open) + 1) <=> e.role = "handler"
         /\ \A k, l : IsPlace(Append(b, x), k, l) => ~Outer(Len(b) + 1, Len(x.open) + 1, k, l)
         /\ ~Outer(Len(b) + 1, Len(x.open) + 1, Len(b) + 1, Len(x.open) + 1)
<1> DEFINE r == Append(b, x)  t == Append(b, y)  n == Len(b) + 1  m == Len(x.open) + 1
<1>1. /\ Len(r) = n /\ r[n] = x /\ Len(t) = n /\ t[n] = y
      /\ \A i \in 1..Len(b) : r[i] = b[i] /\ t[i] = b[i]
      /\ \A i \in 1..n : i = n \/ i \in 1..Len(b)
      /\ n \in Nat
  BY AppendReg
<1>2. /\ x.open \in Seq(Entry) /\ Len(x.open) \in Nat
  BY LenProperties DEF Reg
<1>3. /\ Len(y.open) = m /\ y.open[m] = e /\ m \in Nat /\ m # 0 /\ m \notin 0..Len(x.open)
      /\ \A j \in 1..Len(x.open) : y.open[j] = x.open[j]
      /\ \A j \in 0..m : j # 0 /\ j # m => j \in 1..Len(x.open)
  BY <1>2
<1>4. \A j \in 0..Len(x.open) : ~(m < j)
  BY <1>2
<1>5. \A i \in 1..n : ~(n < i)
  BY <1>1
<1>6. ~(n < n) /\ ~(m < m)
  BY <1>1, <1>2
<1>7. \A j \in 1..Len(x.open) : j \in 0..Len(x.open)
  BY <1>2
<1> HIDE DEF r, t, n, m
<1>8. ~IsPlace(r, n, m) /\ (Caught(t, n, m) <=> e.role = "handler")
  BY <1>1, <1>3 DEF IsPlace, Caught
<1>9. ASSUME NEW i, NEW j, IsPlace(t, i, j)
      PROVE  \/ i = n /\ j = m /\ At(t, i, j) = e.exc
             \/ IsPlace(r, i, j) /\ At(t, i, j) = At(r, i, j) /\ (Caught(t, i, j) <=> Caught(r, i, j))
  <2>1. CASE i \in 1..Len(b)
    BY <2>1, <1>1, <1>9 DEF IsPlace, At, Caught
  <2>2. CASE i = n /\ j = m
    BY <2>2, <1>1, <1>3 DEF At
  <2>3. CASE i = n /\ j # m
    <3>1. j \in 0..m /\ (j = 0 => x.new # NULL)
      BY <2>3, <1>1, <1>3, <1>9 DEF IsPlace
    <3>2. CASE j = 0
      BY <3>1, <3>2, <2>3, <1>1, <1>2, <1>9 DEF IsPlace, At, Caught
    <3>3. CASE j # 0
      <4>1. j \in 1..Len(x.open) /\ y.open[j] = x.open[j] /\ j \in 0..Len(x.open)
        BY <3>1, <3>3, <2>3, <1>3, <1>7
      <4> QED BY <4>1, <3>3, <2>3, <1>1, <1>9 DEF IsPlace, At, Caught
    <3> QED BY <3>2, <3>3
  <2> QED BY <2>1, <2>2, <2>3, <1>1, <1>9 DEF IsPlace
<1>10. ASSUME NEW k, NEW l, IsPlace(r, k, l) PROVE ~Outer(n, m, k, l)
  <2>1. k \in 1..n /\ l \in 0..Len(r[k].open)
    BY <1>1, <1>10 DEF IsPlace
  <2>2. k = n => l \in 0..Len(x.open)
    BY <2>1, <1>1
  <2> QED BY <2>1, <2>2, <1>4, <1>5 DEF Outer
<1>11. ~Outer(n, m, n, m)
  BY <1>6 DEF Outer
<1> QED BY <1>8, <1>9, <1>10, <1>11 DEF Grown, r, t, n, m

-----------------------------------------------------------------------------
(* Counting *)

LEMMA HeldMember ==
  ASSUME NEW r, NEW k, NEW role, NEW s
  PROVE  s \in HeldBy(r, k, role) <=>
           \E i \in k..Len(r) : \E j \in 1..Len(r[i].open) : s = <<i, j>> /\ r[i].open[j].role = role
BY DEF HeldBy

RoleCount(o, role) == Cardinality({n \in 1..Len(o) : o[n].role = role})

LEMMA RoleFinite ==
  ASSUME NEW o \in Seq(Entry), NEW role
  PROVE  IsFiniteSet({n \in 1..Len(o) : o[n].role = role}) /\ RoleCount(o, role) \in Nat
<1> DEFINE S == {n \in 1..Len(o) : o[n].role = role}
<1>1. Len(o) \in Nat /\ S \in SUBSET (1..Len(o))
  OBVIOUS
<1>2. IsFiniteSet(1..Len(o))
  BY <1>1, FS_Interval
<1>3. IsFiniteSet(S)
  BY <1>1, <1>2, FS_Subset
<1> QED BY <1>3, FS_CardinalityType DEF RoleCount

LEMMA RoleAppend ==
  ASSUME NEW o \in Seq(Entry), NEW e \in Entry, NEW role
  PROVE  RoleCount(Append(o, e), role) = RoleCount(o, role) + (IF e.role = role THEN 1 ELSE 0)
<1> DEFINE p == Append(o, e)  m == Len(o) + 1
           S == {n \in 1..Len(o) : o[n].role = role}  T == {n \in 1..Len(p) : p[n].role = role}
<1>1. /\ Len(p) = m /\ p[m] = e /\ m \in 1..m
      /\ \A i \in 1..Len(o) : p[i] = o[i] /\ i \in 1..m /\ i # m
      /\ \A i \in 1..m : i = m \/ i \in 1..Len(o)
  BY AppendReg
<1>2. IsFiniteSet(S) /\ RoleCount(o, role) \in Nat
  BY RoleFinite
<1> HIDE DEF p, m
<1>3. m \notin S
  BY <1>1
<1>4. CASE e.role = role
  <2>1. T = S \cup {m}
    BY <1>1, <1>4
  <2> HIDE DEF S, T
  <2>2. Cardinality(T) = Cardinality(S) + 1
    BY <2>1, <1>2, <1>3, FS_AddElement
  <2> QED BY <2>2, <1>4 DEF RoleCount, S, T, p
<1>5. CASE e.role # role
  <2>1. T = S
    BY <1>1, <1>5
  <2>2. RoleCount(p, role) = RoleCount(o, role)
    BY <2>1 DEF RoleCount
  <2> QED BY <2>2, <1>2, <1>5 DEF p
<1> QED BY <1>4, <1>5

LEMMA RoleEmpty ==
  ASSUME NEW role
  PROVE  RoleCount(<<>>, role) = 0
<1>1. {n \in 1..Len(<<>>) : <<>>[n].role = role} = {}
  OBVIOUS
<1> QED BY <1>1, FS_EmptySet DEF RoleCount
LEMMA DisjointUnion ==
  ASSUME NEW S, NEW T, NEW U, IsFiniteSet(S), IsFiniteSet(T), S \cap T = {}, U = S \cup T
  PROVE  /\ IsFiniteSet(U) /\ Cardinality(U) = Cardinality(S) + Cardinality(T)
         /\ Cardinality(S) \in Nat /\ Cardinality(T) \in Nat
<1>1. Cardinality(S) \in Nat /\ Cardinality(T) \in Nat
  BY FS_CardinalityType
<1>2. IsFiniteSet(S \cup T) /\ Cardinality(S \cup T) = Cardinality(S) + Cardinality(T) - Cardinality({})
  BY FS_Union
<1> QED BY <1>1, <1>2, FS_EmptySet

LEMMA PairsOf ==
  ASSUME NEW J, IsFiniteSet(J), NEW i
  PROVE  /\ IsFiniteSet({<<i, j>> : j \in J})
         /\ Cardinality({<<i, j>> : j \in J}) = Cardinality(J)
<1> DEFINE P == {<<i, j>> : j \in J}  f == [j \in J |-> <<i, j>>]
<1>1. f \in Bijection(J, P)
  <2>1. f \in [J -> P]
    OBVIOUS
  <2>2. \A j, k \in J : f[j] = f[k] => j = k
    OBVIOUS
  <2>3. \A s \in P : \E j \in J : f[j] = s
    OBVIOUS
  <2> QED BY <2>1, <2>2, <2>3, Fun_IsBij
<1>2. ExistsBijection(J, P)
  BY <1>1 DEF ExistsBijection
<1> QED BY <1>2, FS_Bijection

(* What one more activation adds. *)
LEMMA HeldAppend ==
  ASSUME NEW r \in Seq(Reg), NEW x \in Reg, NEW role, IsFiniteSet(HeldBy(r, 1, role))
  PROVE  /\ IsFiniteSet(HeldBy(Append(r, x), 1, role))
         /\ Cardinality(HeldBy(Append(r, x), 1, role))
              = Cardinality(HeldBy(r, 1, role)) + RoleCount(x.open, role)
<1> DEFINE t == Append(r, x)  m == Len(r) + 1
           J == {n \in 1..Len(x.open) : x.open[n].role = role}
           P == {<<m, j>> : j \in J}
<1>1. /\ Len(t) = m /\ t[m] = x /\ m \in 1..m /\ Len(r) \in Nat
      /\ \A i \in 1..Len(r) : t[i] = r[i] /\ i \in 1..m /\ i # m
      /\ \A i \in 1..m : i = m \/ i \in 1..Len(r)
  BY AppendReg
<1>2. IsFiniteSet(J) /\ Cardinality(J) = RoleCount(x.open, role)
  BY RoleFinite DEF RoleCount, Reg
<1> HIDE DEF t, m
<1>3. HeldBy(t, 1, role) = HeldBy(r, 1, role) \cup P
  <2>1. ASSUME NEW s \in HeldBy(t, 1, role) PROVE s \in HeldBy(r, 1, role) \/ s \in P
    <3>1. PICK i \in 1..Len(t) : \E j \in 1..Len(t[i].open) : s = <<i, j>> /\ t[i].open[j].role = role
      BY <2>1, HeldMember
    <3>2. PICK j \in 1..Len(t[i].open) : s = <<i, j>> /\ t[i].open[j].role = role
      BY <3>1
    <3>3. CASE i = m
      BY <3>2, <3>3, <1>1
    <3>4. CASE i \in 1..Len(r)
      <4>1. j \in 1..Len(r[i].open) /\ s = <<i, j>> /\ r[i].open[j].role = role
        BY <3>2, <3>4, <1>1
      <4> QED BY <4>1, <3>4, HeldMember
    <3> QED BY <3>1, <3>3, <3>4, <1>1
  <2>2. ASSUME NEW s \in HeldBy(r, 1, role) PROVE s \in HeldBy(t, 1, role)
    <3>1. PICK i \in 1..Len(r) : \E j \in 1..Len(r[i].open) : s = <<i, j>> /\ r[i].open[j].role = role
      BY <2>2, HeldMember
    <3>2. i \in 1..Len(t) /\ t[i] = r[i]
      BY <3>1, <1>1
    <3> QED BY <3>1, <3>2, HeldMember
  <2>3. ASSUME NEW s \in P PROVE s \in HeldBy(t, 1, role)
    <3>1. PICK j \in J : s = <<m, j>>
      OBVIOUS
    <3>2. j \in 1..Len(t[m].open) /\ t[m].open[j].role = role /\ m \in 1..Len(t)
      BY <3>1, <1>1
    <3> QED BY <3>1, <3>2, HeldMember
  <2> HIDE DEF P
  <2> QED BY <2>1, <2>2, <2>3
<1>4. HeldBy(r, 1, role) \cap P = {}
  <2> SUFFICES ASSUME NEW s \in HeldBy(r, 1, role), s \in P PROVE FALSE
    OBVIOUS
  <2>1. PICK i \in 1..Len(r) : \E j \in 1..Len(r[i].open) : s = <<i, j>>
    BY HeldMember
  <2>2. i = m
    BY <2>1
  <2> QED BY <2>1, <2>2, <1>1
<1>5. IsFiniteSet(P) /\ Cardinality(P) = RoleCount(x.open, role)
  <2> HIDE DEF J
  <2> QED BY <1>2, PairsOf
<1> HIDE DEF P, J
<1>6. /\ IsFiniteSet(HeldBy(t, 1, role))
      /\ Cardinality(HeldBy(t, 1, role)) = Cardinality(HeldBy(r, 1, role)) + Cardinality(P)
  BY <1>3, <1>4, <1>5, DisjointUnion
<1> QED BY <1>5, <1>6 DEF t

LEMMA SplitLast ==
  ASSUME NEW S, NEW r \in Seq(S), Len(r) > 0
  PROVE  /\ SubSeq(r, 1, Len(r) - 1) \in Seq(S) /\ Len(SubSeq(r, 1, Len(r) - 1)) = Len(r) - 1
         /\ r[Len(r)] \in S
         /\ r = Append(SubSeq(r, 1, Len(r) - 1), r[Len(r)])
<1> DEFINE b == SubSeq(r, 1, Len(r) - 1)  n == Len(r)
<1>1. n \in Nat /\ n \in 1..n /\ r[n] \in S
  BY ElementOfSeq
<1>2. b \in Seq(S) /\ Len(b) = n - 1 /\ \A i \in 1..(n-1) : b[i] = r[i]
  BY <1>1
<1>3. Append(b, r[n]) \in Seq(S) /\ Len(Append(b, r[n])) = n
  BY <1>1, <1>2
<1>4. \A i \in 1..n : Append(b, r[n])[i] = r[i]
  <2> HIDE DEF b
  <2> QED BY <1>1, <1>2
<1> HIDE DEF b, n
<1>5. r = Append(b, r[n])
  BY <1>3, <1>4, SeqEqual DEF n
<1> QED BY <1>1, <1>2, <1>5 DEF b, n

LEMMA HeldFinite ==
  ASSUME NEW r \in Seq(Reg), NEW role
  PROVE  IsFiniteSet(HeldBy(r, 1, role)) /\ Cardinality(HeldBy(r, 1, role)) \in Nat
<1> DEFINE S == {n \in Nat : \A s \in Seq(Reg) : Len(s) = n => IsFiniteSet(HeldBy(s, 1, role))}
<1>1. 0 \in S
  <2> SUFFICES ASSUME NEW s \in Seq(Reg), Len(s) = 0 PROVE IsFiniteSet(HeldBy(s, 1, role))
    OBVIOUS
  <2>1. HeldBy(s, 1, role) = {}
    BY HeldMember
  <2> QED BY <2>1, FS_EmptySet
<1>2. ASSUME NEW n \in Nat, n \in S PROVE n + 1 \in S
  <2> SUFFICES ASSUME NEW s \in Seq(Reg), Len(s) = n + 1 PROVE IsFiniteSet(HeldBy(s, 1, role))
    OBVIOUS
  <2> DEFINE b == SubSeq(s, 1, Len(s) - 1)
  <2>1. b \in Seq(Reg) /\ Len(b) = n /\ s[Len(s)] \in Reg /\ s = Append(b, s[Len(s)])
    BY SplitLast
  <2> HIDE DEF b
  <2>2. IsFiniteSet(HeldBy(b, 1, role))
    BY <1>2, <2>1
  <2> QED BY <2>1, <2>2, HeldAppend, Zenon
<1> HIDE DEF S
<1>3. Len(r) \in S
  BY <1>1, <1>2, NatSetInduction, LenProperties
<1>4. IsFiniteSet(HeldBy(r, 1, role))
  BY <1>3 DEF S
<1> QED BY <1>4, FS_CardinalityType

(* The counts of an activation on top of others. *)
LEMMA HeldTop ==
  ASSUME NEW r \in Seq(Reg), NEW x \in Reg, NEW role
  PROVE  /\ Cardinality(HeldBy(Append(r, x), 1, role))
              = Cardinality(HeldBy(r, 1, role)) + RoleCount(x.open, role)
         /\ Cardinality(HeldBy(r, 1, role)) \in Nat /\ RoleCount(x.open, role) \in Nat
BY HeldFinite, HeldAppend, RoleFinite DEF Reg

LEMMA NewFinite ==
  ASSUME NEW r \in Seq(Reg), NEW k \in Nat
  PROVE  IsFiniteSet(NewBy(r, k)) /\ Cardinality(NewBy(r, k)) \in Nat
<1>1. Len(r) \in Nat /\ NewBy(r, k) \in SUBSET (k..Len(r))
  BY DEF NewBy
<1>2. IsFiniteSet(k..Len(r))
  BY <1>1, FS_Interval
<1> QED BY <1>1, <1>2, FS_Subset, FS_CardinalityType

LEMMA NewTop ==
  ASSUME NEW r \in Seq(Reg), NEW x \in Reg
  PROVE  /\ Cardinality(NewBy(Append(r, x), 1))
              = Cardinality(NewBy(r, 1)) + (IF x.new # NULL THEN 1 ELSE 0)
         /\ Cardinality(NewBy(r, 1)) \in Nat
<1> DEFINE t == Append(r, x)  m == Len(r) + 1
<1>1. /\ Len(t) = m /\ t[m] = x /\ m \in 1..m
      /\ \A i \in 1..Len(r) : t[i] = r[i] /\ i \in 1..m /\ i # m
      /\ \A i \in 1..m : i = m \/ i \in 1..Len(r)
  BY AppendReg
<1>2. IsFiniteSet(NewBy(r, 1)) /\ Cardinality(NewBy(r, 1)) \in Nat
  BY NewFinite
<1> HIDE DEF t, m
<1>3. m \notin NewBy(r, 1)
  BY <1>1 DEF NewBy
<1>4. CASE x.new # NULL
  <2>1. NewBy(t, 1) = NewBy(r, 1) \cup {m}
    BY <1>1, <1>4 DEF NewBy
  <2>2. Cardinality(NewBy(t, 1)) = Cardinality(NewBy(r, 1)) + 1
    BY <2>1, <1>2, <1>3, FS_AddElement
  <2> QED BY <2>2, <1>2, <1>4 DEF t
<1>5. CASE x.new = NULL
  <2>1. NewBy(t, 1) = NewBy(r, 1)
    BY <1>1, <1>5 DEF NewBy
  <2> QED BY <2>1, <1>2, <1>5 DEF t
<1> QED BY <1>4, <1>5

(* What a stopped call cuts off was counted. *)
LEMMA HeldSplit ==
  ASSUME NEW r \in Seq(Reg), NEW m \in 1..Len(r), NEW role
  PROVE  /\ Cardinality(HeldBy(r, 1, role))
              = Cardinality(HeldBy(SubSeq(r, 1, m), 1, role)) + Cardinality(HeldBy(r, m + 1, role))
         /\ Cardinality(HeldBy(r, m + 1, role)) \in Nat
<1> DEFINE t == SubSeq(r, 1, m)
<1>1. Len(r) \in Nat /\ m \in Nat /\ t \in Seq(Reg) /\ Len(t) = m /\ \A i \in 1..m : t[i] = r[i]
  OBVIOUS
<1>2. /\ \A i \in 1..Len(r) : i \in 1..m \/ i \in (m+1)..Len(r)
      /\ \A i \in 1..m : i \in 1..Len(r) /\ i \notin (m+1)..Len(r)
      /\ \A i \in (m+1)..Len(r) : i \in 1..Len(r)
  BY <1>1
<1> HIDE DEF t
<1>3. HeldBy(r, 1, role) = HeldBy(t, 1, role) \cup HeldBy(r, m + 1, role)
  <2>1. ASSUME NEW s \in HeldBy(r, 1, role)
        PROVE  s \in HeldBy(t, 1, role) \/ s \in HeldBy(r, m + 1, role)
    <3>1. PICK i \in 1..Len(r) : \E j \in 1..Len(r[i].open) : s = <<i, j>> /\ r[i].open[j].role = role
      BY <2>1, HeldMember
    <3>2. CASE i \in 1..m
      BY <3>1, <3>2, <1>1, HeldMember
    <3>3. CASE i \in (m+1)..Len(r)
      BY <3>1, <3>3, HeldMember
    <3> QED BY <3>2, <3>3, <1>2
  <2>2. ASSUME NEW s \in HeldBy(t, 1, role) PROVE s \in HeldBy(r, 1, role)
    <3>1. PICK i \in 1..m : \E j \in 1..Len(t[i].open) : s = <<i, j>> /\ t[i].open[j].role = role
      BY <2>2, <1>1, HeldMember
    <3> QED BY <3>1, <1>1, <1>2, HeldMember
  <2>3. ASSUME NEW s \in HeldBy(r, m + 1, role) PROVE s \in HeldBy(r, 1, role)
    <3>1. PICK i \in (m+1)..Len(r) : \E j \in 1..Len(r[i].open) : s = <<i, j>> /\ r[i].open[j].role = role
      BY <2>3, HeldMember
    <3> QED BY <3>1, <1>2, HeldMember
  <2> QED BY <2>1, <2>2, <2>3
<1>4. HeldBy(t, 1, role) \cap HeldBy(r, m + 1, role) = {}
  <2> SUFFICES ASSUME NEW s \in HeldBy(t, 1, role), s \in HeldBy(r, m + 1, role) PROVE FALSE
    OBVIOUS
  <2>1. PICK i \in 1..m : \E j \in 1..Len(t[i].open) : s = <<i, j>>
    BY <1>1, HeldMember
  <2>2. PICK k \in (m+1)..Len(r) : \E j \in 1..Len(r[k].open) : s = <<k, j>>
    BY HeldMember
  <2>3. i = k
    BY <2>1, <2>2
  <2> QED BY <2>3, <1>2
<1>5. IsFiniteSet(HeldBy(r, 1, role)) /\ IsFiniteSet(HeldBy(t, 1, role))
  BY <1>1, HeldFinite
<1>6. IsFiniteSet(HeldBy(r, m + 1, role))
  BY <1>3, <1>5, FS_Subset
<1> QED BY <1>3, <1>4, <1>5, <1>6, DisjointUnion DEF t

LEMMA NewSplit ==
  ASSUME NEW r \in Seq(Reg), NEW m \in 1..Len(r)
  PROVE  /\ Cardinality(NewBy(r, 1)) = Cardinality(NewBy(SubSeq(r, 1, m), 1)) + Cardinality(NewBy(r, m + 1))
         /\ Cardinality(NewBy(r, m + 1)) \in Nat
<1> DEFINE t == SubSeq(r, 1, m)
<1>1. Len(r) \in Nat /\ m \in Nat /\ t \in Seq(Reg) /\ Len(t) = m /\ \A i \in 1..m : t[i] = r[i]
  OBVIOUS
<1> HIDE DEF t
<1>2. NewBy(r, 1) = NewBy(t, 1) \cup NewBy(r, m + 1) /\ NewBy(t, 1) \cap NewBy(r, m + 1) = {}
  BY <1>1 DEF NewBy
<1>3. IsFiniteSet(NewBy(t, 1)) /\ IsFiniteSet(NewBy(r, m + 1))
  BY <1>1, NewFinite
<1>4. /\ Cardinality(NewBy(r, 1)) = Cardinality(NewBy(t, 1)) + Cardinality(NewBy(r, m + 1))
      /\ Cardinality(NewBy(r, m + 1)) \in Nat
  <2> DEFINE U == NewBy(r, 1)  A == NewBy(t, 1)  B == NewBy(r, m + 1)
  <2>1. IsFiniteSet(A) /\ IsFiniteSet(B) /\ A \cap B = {} /\ U = A \cup B
    BY <1>2, <1>3
  <2> HIDE DEF U, A, B
  <2>2. Cardinality(U) = Cardinality(A) + Cardinality(B) /\ Cardinality(B) \in Nat
    BY <2>1, DisjointUnion
  <2> QED BY <2>2 DEF U, A, B
<1> QED BY <1>4 DEF t
-----------------------------------------------------------------------------
(* Calls: every step is a step of VmCall or leaves its variables alone. *)

LEMMA CxxStepIsCall == [CxxStep]_cxxvars => [Next]_vars
<1> SUFFICES ASSUME [CxxStep]_cxxvars PROVE [Next]_vars
  OBVIOUS
<1>1. CASE CxxEnter
  BY <1>1 DEF CxxEnter, Next
<1>2. CASE CxxCalls
  BY <1>2 DEF CxxCalls, Next
<1>3. CASE CxxReturns \/ CxxPropagates \/ CxxContinues \/ CxxCallReturns
  BY <1>3 DEF CxxReturns, CxxPropagates, CxxContinues, CxxCallReturns, Next
<1>4. CASE CxxStop
  BY <1>4 DEF CxxStop, Next
<1>5. CASE (\E again \in Rethrows, e \in Addresses : Throw(again, e)) \/ LandingPad \/ Resume
  BY <1>5 DEF Throw, LandingPad, Resume, Next
<1>6. CASE (\E e \in Exceptions : Allocate(e)) \/ FreeNew \/ BeginCatch \/ EndCatch
  BY <1>6 DEF Allocate, FreeNew, BeginCatch, EndCatch
<1>7. CASE UNCHANGED cxxvars
  BY <1>7 DEF cxxvars
<1> QED BY <1>1, <1>2, <1>3, <1>4, <1>5, <1>6, <1>7 DEF CxxStep

(* A process that ends takes no step of its own any more. *)
LEMMA CxxNextIsStep == [CxxNext]_allvars => [CxxStep]_cxxvars
BY DEF CxxNext, Crash, allvars

(* Every step is one of the calls or leaves them alone, by the form of the *)
(* actions: what is proved of VmCall may be used here.                     *)
LEMMA CxxCalling == CxxSpec => Spec
<1>1. CxxInit => Init
  BY DEF CxxInit
<1> QED BY <1>1, CxxStepIsCall, CxxNextIsStep, PTL DEF CxxSpec, Spec

-----------------------------------------------------------------------------
(* The last activation *)

LEMMA SetNew ==
  ASSUME NEW x \in Reg, NEW e \in Addresses
  PROVE  /\ [x EXCEPT !.new = e] \in Reg
         /\ [x EXCEPT !.new = e].new = e /\ [x EXCEPT !.new = e].open = x.open
BY DEF Reg

LEMMA SetOpen ==
  ASSUME NEW x \in Reg, NEW o \in Seq(Entry)
  PROVE  /\ [x EXCEPT !.open = o] \in Reg
         /\ [x EXCEPT !.open = o].new = x.new /\ [x EXCEPT !.open = o].open = o
BY DEF Reg

LEMMA EntryFields ==
  ASSUME NEW o \in Seq(Entry), NEW j \in 1..Len(o)
  PROVE  /\ o[j] \in Entry /\ o[j].exc \in Addresses /\ o[j].meant \in Addresses
         /\ o[j].role = "pad" \/ o[j].role = "handler"
         /\ [o[j] EXCEPT !.role = "handler"] \in Entry
         /\ [o[j] EXCEPT !.role = "handler"].exc = o[j].exc
         /\ [o[j] EXCEPT !.role = "handler"].meant = o[j].meant
         /\ [o[j] EXCEPT !.role = "handler"].role = "handler"
<1>1. o[j] \in Entry
  BY ElementOfSeq, Zenon
<1> QED BY <1>1 DEF Entry

LEMMA OpenedEntry ==
  ASSUME NEW e \in Addresses, NEW d \in Addresses
  PROVE  /\ Open("pad", e, d) \in Entry /\ Open("pad", e, d).role = "pad"
         /\ Open("pad", e, d).exc = e /\ Open("pad", e, d).meant = d
BY DEF Open, Entry

(* A sequence with its last element replaced. *)
LEMMA ReplaceLast ==
  ASSUME NEW S, NEW r \in Seq(S), Len(r) > 0, NEW y \in S
  PROVE  [r EXCEPT ![Len(r)] = y] = Append(SubSeq(r, 1, Len(r) - 1), y)
<1> DEFINE b == SubSeq(r, 1, Len(r) - 1)  n == Len(r)
<1>0. n \in Nat /\ n \in 1..n
  OBVIOUS
<1>1. b \in Seq(S) /\ Len(b) = n - 1 /\ \A i \in 1..(n-1) : b[i] = r[i]
  <2>1. b \in Seq(S) /\ Len(b) = n - 1
    BY SplitLast
  <2>2. \A i \in 1..(n-1) : b[i] = r[i]
    BY <1>0
  <2> QED BY <2>1, <2>2
<1>2. /\ [r EXCEPT ![n] = y] \in Seq(S) /\ Len([r EXCEPT ![n] = y]) = n
      /\ \A i \in 1..n : [r EXCEPT ![n] = y][i] = IF i = n THEN y ELSE r[i]
  BY <1>0, ExceptSeq
<1> HIDE DEF b, n
<1>3. Append(b, y) \in Seq(S) /\ Len(Append(b, y)) = n
  BY <1>0, <1>1
<1>4. \A i \in 1..n : Append(b, y)[i] = IF i = n THEN y ELSE r[i]
  BY <1>0, <1>1
<1>5. [r EXCEPT ![n] = y] = Append(b, y)
  BY <1>2, <1>3, <1>4, SeqEqual
<1> QED BY <1>5 DEF b, n

(* The registers of the running activation, on top of the others. *)
LEMMA MineFacts ==
  ASSUME CallInv, CxxTypeOK, stack # <<>>
  PROVE  /\ Len(regs) \in Nat /\ Len(regs) = Len(stack) /\ Len(regs) > 0
         /\ Below \in Seq(Reg) /\ Len(Below) = Len(regs) - 1 /\ Mine \in Reg
         /\ Mine.new \in Addresses /\ Mine.open \in Seq(Entry) /\ Len(Mine.open) \in Nat
         /\ regs = Append(Below, Mine)
         /\ \A y \in Reg : [regs EXCEPT ![Len(regs)] = y] = Append(Below, y)
<1>1. stack \in Seq(Activation) /\ regs \in Seq(Reg) /\ Len(regs) = Len(stack)
  BY DEF CallInv, TypeOK, CxxTypeOK
<1>2. Len(stack) \in Nat /\ Len(stack) > 0
  BY <1>1, EmptySeq
<1>3. Below \in Seq(Reg) /\ Len(Below) = Len(regs) - 1 /\ Mine \in Reg /\ regs = Append(Below, Mine)
  BY <1>1, <1>2, SplitLast DEF Below, Mine
<1>4. \A y \in Reg : [regs EXCEPT ![Len(regs)] = y] = Append(Below, y)
  BY <1>1, <1>2, ReplaceLast DEF Below
<1>5. Mine.new \in Addresses /\ Mine.open \in Seq(Entry) /\ Len(Mine.open) \in Nat
  BY <1>3, LenProperties DEF Reg
<1> QED BY <1>1, <1>2, <1>3, <1>4, <1>5

(* A function that handles an exception or cleans up after one. *)
LEMMA LastOpenFacts ==
  ASSUME NEW x \in Reg, x.open # <<>>
  PROVE  /\ Len(x.open) \in Nat /\ Len(x.open) > 0 /\ Len(x.open) \in 1..Len(x.open)
         /\ x.open[Len(x.open)] \in Entry
         /\ SubSeq(x.open, 1, Len(x.open) - 1) \in Seq(Entry)
         /\ Len(SubSeq(x.open, 1, Len(x.open) - 1)) = Len(x.open) - 1
         /\ x.open = Append(SubSeq(x.open, 1, Len(x.open) - 1), x.open[Len(x.open)])
<1>1. x.open \in Seq(Entry)
  BY DEF Reg
<1>2. Len(x.open) \in Nat /\ Len(x.open) > 0
  BY <1>1, EmptySeq
<1> QED BY <1>1, <1>2, SplitLast
-----------------------------------------------------------------------------
(* What each action does to the registers *)

LEMMA EnterRegs ==
  ASSUME CallInv, CxxTypeOK, CxxEnter
  PROVE  /\ regs' = Append(Append(regs, Idle), Idle)
         /\ regs' \in Seq(Reg) /\ Len(regs') = Len(stack')
         /\ UNCHANGED <<iu_exception, header, carried, lost, flying>>
<1>0. stack \in Seq(Activation) /\ regs \in Seq(Reg) /\ Len(regs) = Len(stack) /\ Idle \in Reg
  BY RegFields DEF CallInv, TypeOK, CxxTypeOK
<1>1. PICK c, e : stack' = stack \o <<c, e>>
  BY DEF CxxEnter, CallWithStash, CallWithNewStack, Enter
<1>2. Len(stack') = Len(stack) + 2
  BY <1>0, <1>1
<1>3. regs' = regs \o <<Idle, Idle>> /\ UNCHANGED <<iu_exception, header, carried, lost, flying>>
  BY DEF CxxEnter, CallWithStash, CallWithNewStack, Enter
<1>4. \A x, y \in Reg : regs \o <<x, y>> = Append(Append(regs, x), y)
  BY <1>0
<1>5. regs' = Append(Append(regs, Idle), Idle)
  BY <1>0, <1>3, <1>4
<1>6. regs' \in Seq(Reg) /\ Len(regs') = Len(regs) + 2
  BY <1>0, <1>5
<1> QED BY <1>0, <1>2, <1>3, <1>5, <1>6

LEMMA WaitingLen ==
  ASSUME CallInv, NEW site
  PROVE  Len(Waiting(site)) = Len(stack) /\ Len(stack) \in Nat /\ DOMAIN Waiting(site) = 1..Len(stack)
<1>1. stack \in Seq(Activation)
  BY DEF CallInv, TypeOK
<1> QED BY <1>1 DEF Waiting

LEMMA CallsRegs ==
  ASSUME CallInv, CxxTypeOK, CxxCalls
  PROVE  /\ regs' = Append(regs, Idle)
         /\ regs' \in Seq(Reg) /\ Len(regs') = Len(stack')
         /\ UNCHANGED <<iu_exception, header, carried, lost, flying>>
<1>0. stack \in Seq(Activation) /\ regs \in Seq(Reg) /\ Len(regs) = Len(stack) /\ Idle \in Reg
  BY RegFields DEF CallInv, TypeOK, CxxTypeOK
<1>1. PICK site, kind : /\ Running("exec") /\ site \in Sites /\ kind \in {"exec", "ext"}
                        /\ stack' = Append(Waiting(site), Act(kind, "none", Top.hi, Top.hi, Top.block, NULL))
  BY DEF CxxCalls, ExecCalls, ExecCallsExt, CalleeAlloca, Sites
<1>2. Waiting(site) \in Seq(Activation) /\ Len(Waiting(site)) = Len(stack)
  BY <1>0, <1>1, WaitingShape DEF Running, SameShape
<1>3. Len(stack') = Len(stack) + 1
  BY <1>1, <1>2
<1>4. regs' = Append(regs, Idle) /\ UNCHANGED <<iu_exception, header, carried, lost, flying>>
  BY DEF CxxCalls, ExecCalls, ExecCallsExt
<1>5. regs' \in Seq(Reg) /\ Len(regs') = Len(regs) + 1
  BY <1>0, <1>4
<1> QED BY <1>0, <1>3, <1>4, <1>5

(* The end of an activation. *)
LEMMA PopRegs ==
  ASSUME CallInv, CxxTypeOK, stack # <<>>, stack' = Pop, regs' = Below
  PROVE  /\ regs' \in Seq(Reg) /\ Len(regs') = Len(stack') /\ Within(regs', regs)
<1>1. /\ Below \in Seq(Reg) /\ Len(Below) = Len(regs) - 1 /\ Len(regs) = Len(stack)
      /\ Len(regs) \in Nat /\ Len(regs) > 0 /\ regs \in Seq(Reg)
  BY MineFacts DEF CxxTypeOK
<1>2. Len(stack') = Len(stack) - 1
  <2>1. stack \in Seq(Activation)
    BY DEF CallInv, TypeOK
  <2> QED BY <1>1, <2>1 DEF Pop
<1>3. Len(regs) - 1 \in Nat /\ Len(regs) - 1 <= Len(regs)
  BY <1>1
<1>4. Within(Below, regs)
  BY <1>1, <1>3, PrefixWithin DEF Below
<1> QED BY <1>1, <1>2, <1>4

LEMMA ContinuesFacts ==
  ASSUME CallInv, CxxTypeOK, CxxContinues
  PROVE  /\ UNCHANGED cxx /\ Len(stack') = Len(stack) /\ UNCHANGED flying
         /\ stack' = Waiting("none") /\ stack # <<>> /\ pending' = RUN
         /\ pending # RUN /\ Top.kind = "exec" /\ UNCHANGED jumped
<1>1. pending # RUN => stack # <<>>
  BY DEF CallInv, Nesting
<1>2. UNCHANGED flying
  <2>1. CASE JsrContinues
    BY <2>1 DEF JsrContinues
  <2>2. CASE InvokeContinues /\ pending = 0
    <3>1. pending # 1 /\ flying' = IF pending = 1 THEN FALSE ELSE flying
      BY <2>2 DEF InvokeContinues
    <3> QED BY <3>1, Zenon
  <2> QED BY <2>1, <2>2 DEF CxxContinues
<1> QED BY <1>1, <1>2, WaitingLen DEF CxxContinues, JsrContinues, InvokeContinues

LEMMA StopRegs ==
  ASSUME CallInv, CxxTypeOK, CxxStop
  PROVE  /\ iu_err_jmpbuf \in 1..Len(regs) /\ regs' = SubSeq(regs, 1, iu_err_jmpbuf)
         /\ regs' \in Seq(Reg) /\ Len(regs') = Len(stack') /\ Within(regs', regs)
         /\ UNCHANGED <<iu_exception, header, carried, flying>>
         /\ lost' = [thrown |-> lost.thrown + Held(iu_err_jmpbuf + 1, "pad"),
                     other  |-> lost.other + Held(iu_err_jmpbuf + 1, "handler") + New(iu_err_jmpbuf + 1)]
         /\ stack' = SubSeq(stack, 1, iu_err_jmpbuf) /\ pending = RUN /\ stack # <<>>
         /\ pending' # RUN /\ jumped' = TRUE
<1>0. stack \in Seq(Activation) /\ regs \in Seq(Reg) /\ Len(regs) = Len(stack)
  BY DEF CallInv, TypeOK, CxxTypeOK
<1>1. /\ iu_err_jmpbuf \in 1..Len(stack) /\ stack' = SubSeq(stack, 1, iu_err_jmpbuf)
      /\ pending = RUN /\ stack # <<>> /\ pending' # RUN /\ jumped' = TRUE /\ UNCHANGED flying
  BY StopReasonsNotRun DEF CxxStop, Stop
<1>2. regs' = SubSeq(regs, 1, iu_err_jmpbuf)
  BY DEF CxxStop
<1> DEFINE m == iu_err_jmpbuf
<1>3. m \in 1..Len(regs) /\ m \in Nat /\ m <= Len(regs)
  BY <1>0, <1>1
<1> HIDE DEF m
<1>4. SubSeq(regs, 1, m) \in Seq(Reg) /\ Len(SubSeq(regs, 1, m)) = m /\ Len(SubSeq(stack, 1, m)) = m
  BY <1>0, <1>3
<1>5. Within(SubSeq(regs, 1, m), regs)
  BY <1>0, <1>3, PrefixWithin
<1> QED BY <1>0, <1>1, <1>2, <1>3, <1>4, <1>5 DEF CxxStop, m

(* __cxa_throw of an object that the caller has allocated. *)
LEMMA ThrowRegs ==
  ASSUME CallInv, CxxTypeOK, NEW again, NEW e, Throw(again, e)
  PROVE  /\ stack # <<>> /\ stack' = Pop /\ Top.kind = "ext" /\ pending = RUN
         /\ Len(regs) >= 2 /\ regs[Len(regs) - 1] \in Reg
         /\ SubSeq(Below, 1, Len(Below) - 1) \in Seq(Reg)
         /\ Len(SubSeq(Below, 1, Len(Below) - 1)) = Len(regs) - 2
         /\ Below = Append(SubSeq(Below, 1, Len(Below) - 1), regs[Len(regs) - 1])
         /\ Below \in Seq(Reg) /\ Len(Below) = Len(regs) - 1 /\ regs = Append(Below, Mine)
         /\ stack[Len(stack) - 1].kind = "exec"
         /\ again = FALSE =>
              /\ regs' = Append(SubSeq(Below, 1, Len(Below) - 1), [regs[Len(regs) - 1] EXCEPT !.new = NULL])
              /\ e # NULL /\ regs[Len(regs) - 1].new = e /\ carried' = e
         /\ again = TRUE => regs' = Below
         /\ iu_exception' = [iu_exception EXCEPT !.exception = e, !.uncaught = @ + 1]
         /\ flying' = TRUE /\ UNCHANGED <<header, lost>>
<1>1. /\ stack # <<>> /\ stack' = Pop /\ Top.kind = "ext" /\ stack[Len(stack) - 1].kind = "exec"
      /\ pending = RUN /\ flying' = TRUE
  BY DEF Throw, Throws
<1>2. /\ Len(regs) \in Nat /\ Len(regs) = Len(stack) /\ Len(regs) > 0
      /\ Below \in Seq(Reg) /\ Len(Below) = Len(regs) - 1 /\ regs = Append(Below, Mine)
      /\ regs \in Seq(Reg)
  BY <1>1, MineFacts DEF CxxTypeOK
<1>3. Len(stack) # 1
  BY <1>1, <1>2 DEF CallInv, Nesting, Top
<1>4. Len(regs) >= 2 /\ Len(regs) - 1 \in 1..Len(regs) /\ Len(Below) > 0 /\ Len(Below) = Len(regs) - 1
  BY <1>2, <1>3
<1> DEFINE caller == regs[Len(regs) - 1]  bb == SubSeq(Below, 1, Len(Below) - 1)
<1>5. Below[Len(Below)] = caller
  BY <1>2, <1>4 DEF Below
<1>6. bb \in Seq(Reg) /\ Len(bb) = Len(regs) - 2 /\ caller \in Reg /\ Below = Append(bb, caller)
  BY <1>2, <1>4, <1>5, SplitLast
<1>7. \A y \in Reg : [Below EXCEPT ![Len(Below)] = y] = Append(bb, y)
  BY <1>2, <1>4, ReplaceLast
<1>8. regs' = [Below EXCEPT ![Len(Below)] = [caller EXCEPT !.new = IF again THEN caller.new ELSE NULL]]
  BY <1>5 DEF Throw
<1>9. again = FALSE => regs' = Append(bb, [caller EXCEPT !.new = NULL])
  <2>1. [caller EXCEPT !.new = NULL] \in Reg
    BY <1>6, SetNew DEF Addresses
  <2> QED BY <2>1, <1>7, <1>8
<1>10. again = TRUE => regs' = Below
  <2>1. [caller EXCEPT !.new = caller.new] = caller
    BY <1>6 DEF Reg
  <2> QED BY <2>1, <1>6, <1>7, <1>8
<1> QED BY <1>1, <1>2, <1>4, <1>6, <1>9, <1>10 DEF Throw
LEMMA AllocateRegs ==
  ASSUME CallInv, CxxTypeOK, NEW e \in Exceptions, Allocate(e)
  PROVE  /\ stack # <<>> /\ pending = RUN /\ Top.kind = "exec" /\ Mine.new = NULL
         /\ [Mine EXCEPT !.new = e] \in Reg
         /\ regs' = Append(Below, [Mine EXCEPT !.new = e])
<1>1. stack # <<>> /\ pending = RUN /\ Top.kind = "exec"
  BY DEF Allocate, Running
<1>2. [Mine EXCEPT !.new = e] \in Reg
  BY <1>1, MineFacts, SetNew DEF Addresses
<1> QED BY <1>1, <1>2, MineFacts DEF Allocate, MineIs

LEMMA FreeNewRegs ==
  ASSUME CallInv, CxxTypeOK, FreeNew
  PROVE  /\ stack # <<>> /\ pending = RUN /\ Top.kind = "exec" /\ Mine.new # NULL
         /\ [Mine EXCEPT !.new = NULL] \in Reg
         /\ regs' = Append(Below, [Mine EXCEPT !.new = NULL])
<1>1. stack # <<>> /\ pending = RUN /\ Top.kind = "exec"
  BY DEF FreeNew, Running
<1>2. [Mine EXCEPT !.new = NULL] \in Reg
  BY <1>1, MineFacts, SetNew DEF Addresses
<1> QED BY <1>1, <1>2, MineFacts DEF FreeNew, MineIs

(* What a landing pad finds. *)
Landed == Open("pad", iu_exception.exception, carried)

LEMMA LandingPadRegs ==
  ASSUME CallInv, CxxTypeOK, LandingPad
  PROVE  /\ stack # <<>> /\ pending = 1 /\ Top.kind = "exec" /\ Top.site = "invoke"
         /\ stack' = Waiting("none") /\ pending' = RUN /\ flying' = FALSE /\ UNCHANGED jumped
         /\ Landed \in Entry /\ Landed.role = "pad" /\ Landed.exc = iu_exception.exception
         /\ Landed.meant = carried
         /\ [Mine EXCEPT !.open = Append(Mine.open, Landed)] \in Reg
         /\ [Mine EXCEPT !.open = Append(Mine.open, Landed)].new = Mine.new
         /\ [Mine EXCEPT !.open = Append(Mine.open, Landed)].open = Append(Mine.open, Landed)
         /\ regs' = Append(Below, [Mine EXCEPT !.open = Append(Mine.open, Landed)])
<1>1. /\ pending = 1 /\ Top.kind = "exec" /\ Top.site = "invoke" /\ pending # RUN
      /\ stack' = Waiting("none") /\ pending' = RUN /\ flying' = FALSE /\ UNCHANGED jumped
  BY DEF LandingPad, InvokeContinues
<1>2. stack # <<>>
  BY <1>1 DEF CallInv, Nesting
<1>3. /\ Landed \in Entry /\ Landed.role = "pad" /\ Landed.exc = iu_exception.exception
      /\ Landed.meant = carried
  <2>1. iu_exception.exception \in Addresses /\ carried \in Addresses
    BY DEF CxxTypeOK
  <2> QED BY <2>1, OpenedEntry DEF Landed
<1>4. Append(Mine.open, Landed) \in Seq(Entry) /\ Mine \in Reg
  BY <1>2, <1>3, MineFacts
<1>5. [Mine EXCEPT !.open = Append(Mine.open, Landed)] \in Reg
  BY <1>4, SetOpen
<1>6. regs' = [regs EXCEPT ![Len(regs)] = [Mine EXCEPT !.open = Append(Mine.open, Landed)]]
  BY DEF LandingPad, MineIs, Landed
<1>7. regs' = Append(Below, [Mine EXCEPT !.open = Append(Mine.open, Landed)])
  BY <1>2, <1>5, <1>6, MineFacts
<1> QED BY <1>1, <1>2, <1>3, <1>4, <1>5, <1>7, SetOpen

LEMMA ResumeRegs ==
  ASSUME CallInv, CxxTypeOK, Resume
  PROVE  /\ stack # <<>> /\ pending = RUN /\ Top.kind = "exec" /\ Mine.new = NULL
         /\ Len(Mine.open) = 1 /\ Mine.open[1].role = "pad" /\ Mine.open[1] \in Entry
         /\ iu_exception' = [iu_exception EXCEPT !.exception = Mine.open[1].exc]
         /\ carried' = Mine.open[1].meant
         /\ stack' = Pop /\ regs' = Below /\ flying' = TRUE /\ pending' = 1
<1>1. stack # <<>> /\ pending = RUN /\ Top.kind = "exec" /\ stack' = Pop /\ flying' = TRUE /\ pending' = 1
  BY DEF Resume, Throws
<1>2. Mine \in Reg /\ Mine.open # <<>> /\ Len(Mine.open) = 1 /\ Mine.open[1].role = "pad"
  BY <1>1, MineFacts DEF Resume, TopIs
<1>3. Mine.open[1] \in Entry
  BY <1>2, LastOpenFacts
<1> QED BY <1>1, <1>2, <1>3 DEF Resume, Resumed, LastOpen

(* The innermost landing pad's exception becomes a handled one. *)
Handling == [Mine EXCEPT !.open =
               Append(SubSeq(@, 1, Len(@) - 1), [@[Len(@)] EXCEPT !.role = "handler"])]

LEMMA BeginCatchRegs ==
  ASSUME CallInv, CxxTypeOK, BeginCatch
  PROVE  /\ stack # <<>> /\ pending = RUN /\ Top.kind = "exec" /\ Mine.new = NULL
         /\ Mine.open # <<>> /\ Mine.open[Len(Mine.open)].role = "pad"
         /\ Handling \in Reg /\ Handling.new = NULL
         /\ Handling.open = Append(SubSeq(Mine.open, 1, Len(Mine.open) - 1),
                                   [Mine.open[Len(Mine.open)] EXCEPT !.role = "handler"])
         /\ regs' = Append(Below, Handling)
<1>1. /\ stack # <<>> /\ pending = RUN /\ Top.kind = "exec" /\ Mine.new = NULL
      /\ Mine.open # <<>> /\ Mine.open[Len(Mine.open)].role = "pad"
  BY DEF BeginCatch, Running, TopIs
<1> DEFINE o == Mine.open  n == Len(o)  l == [o[n] EXCEPT !.role = "handler"]
           f == SubSeq(o, 1, n - 1)  y == [Mine EXCEPT !.open = Append(f, l)]
<1>2. /\ Mine \in Reg /\ o \in Seq(Entry) /\ n \in Nat /\ n > 0 /\ n \in 1..n
      /\ f \in Seq(Entry) /\ l \in Entry
  BY <1>1, MineFacts, LastOpenFacts, EntryFields
<1>3. [o EXCEPT ![n] = l] = Append(f, l)
  <2> HIDE DEF l
  <2> QED BY <1>2, ReplaceLast
<1>4. Append(f, l) \in Seq(Entry)
  <2> HIDE DEF f, l
  <2> QED BY <1>2
<1>5. y \in Reg /\ y.new = Mine.new /\ y.open = Append(f, l)
  <2> HIDE DEF f, l
  <2> QED BY <1>2, <1>4, SetOpen
<1>6. Handling = y
  BY <1>2 DEF Handling, Reg
<1>7. regs' = [regs EXCEPT ![Len(regs)] = [Mine EXCEPT !.open = [o EXCEPT ![n] = l]]]
  BY DEF BeginCatch, MineIs
<1>8. regs' = [regs EXCEPT ![Len(regs)] = y]
  BY <1>3, <1>7
<1> HIDE DEF y
<1>9. regs' = Append(Below, y)
  BY <1>1, <1>5, <1>8, MineFacts
<1> QED BY <1>1, <1>5, <1>6, <1>9

(* Which open exception end_catch closes: the innermost that is handled. *)
Closing == IF TopIs("pad") THEN Len(Mine.open) - 1 ELSE Len(Mine.open)

Closed == [Mine EXCEPT !.open = RemoveAt(@, Closing)]

LEMMA EndCatchRegs ==
  ASSUME CallInv, CxxTypeOK, EndCatch
  PROVE  /\ stack # <<>> /\ pending = RUN /\ Top.kind = "exec" /\ Mine.new = NULL
         /\ Closing \in 1..Len(Mine.open) /\ Mine.open[Closing].role = "handler"
         /\ Closed \in Reg /\ Closed.new = NULL
         /\ regs' = Append(Below, Closed)
         /\ \/ Closing = Len(Mine.open) /\ Closed.open = SubSeq(Mine.open, 1, Closing - 1)
            \/ /\ Closing = Len(Mine.open) - 1 /\ Mine.open[Len(Mine.open)].role = "pad"
               /\ Closed.open = Append(SubSeq(Mine.open, 1, Closing - 1), Mine.open[Len(Mine.open)])
<1> DEFINE o == Mine.open  n == Len(o)  k == Closing
<1>1. stack # <<>> /\ pending = RUN /\ Top.kind = "exec" /\ Mine.new = NULL
  BY DEF EndCatch, Running
<1>2. Mine \in Reg /\ o \in Seq(Entry) /\ n \in Nat
  BY <1>1, MineFacts
<1>3. k > 0 /\ o[k].role = "handler" /\ MineIs([Mine EXCEPT !.open = RemoveAt(@, k)])
  BY DEF EndCatch, Closing
<1>4. k = n \/ (k = n - 1 /\ o[n].role = "pad")
  BY DEF Closing, TopIs
<1> HIDE DEF k, o, n
<1>5. k \in 1..n
  BY <1>2, <1>3, <1>4
<1> DEFINE q == RemoveAt(o, k)  y == [Mine EXCEPT !.open = q]
<1>6. q \in Seq(Entry) /\ Len(q) = n - 1 /\ \A j \in 1..(n-1) : q[j] = IF j < k THEN o[j] ELSE o[j+1]
  BY <1>2, <1>5, RemoveAtFacts DEF n
<1> HIDE DEF q
<1>7. y \in Reg /\ y.new = Mine.new /\ y.open = q
  BY <1>2, <1>6, SetOpen
<1>8. Closed = y
  BY DEF Closed, q, o, k
<1>9. regs' = Append(Below, y)
  <2>1. regs' = [regs EXCEPT ![Len(regs)] = y]
    BY <1>3 DEF MineIs, q, o
  <2> QED BY <2>1, <1>1, <1>7, MineFacts
<1> HIDE DEF y
<1> DEFINE f == SubSeq(o, 1, k - 1)
<1>10. f \in Seq(Entry) /\ Len(f) = k - 1 /\ \A j \in 1..(k-1) : f[j] = o[j]
  BY <1>2, <1>5 DEF n
<1> HIDE DEF f
<1>11. CASE k = n
  <2>1. \A j \in 1..Len(q) : q[j] = f[j]
    BY <1>11, <1>2, <1>6, <1>10
  <2>2. q = f
    BY <2>1, <1>11, <1>2, <1>6, <1>10, SeqEqual
  <2> QED BY <2>2, <1>11, <1>1, <1>3, <1>5, <1>7, <1>8, <1>9 DEF f, o, k, n
<1>12. CASE k = n - 1 /\ o[n].role = "pad"
  <2>1. o[n] \in Entry
    BY <1>2, <1>5, EntryFields DEF n
  <2>2. Append(f, o[n]) \in Seq(Entry) /\ Len(Append(f, o[n])) = n - 1
    BY <2>1, <1>12, <1>2, <1>10
  <2>3. \A j \in 1..Len(q) : q[j] = Append(f, o[n])[j]
    BY <2>1, <1>12, <1>2, <1>5, <1>6, <1>10
  <2>4. q = Append(f, o[n])
    BY <2>2, <2>3, <1>12, <1>6, SeqEqual
  <2> QED BY <2>4, <1>12, <1>1, <1>3, <1>5, <1>7, <1>8, <1>9 DEF f, o, k, n
<1> QED BY <1>4, <1>11, <1>12
-----------------------------------------------------------------------------
(* What each action does to the headers *)

(* The header of e is z from now on. *)
HeaderIs(e, z) == header' = [header EXCEPT ![e] = z]

LEMMA HeaderType ==
  ASSUME CxxTypeOK, NEW a \in Addresses
  PROVE  /\ header[a] \in Header /\ header[a].alloc \in BOOLEAN /\ header[a].handlers \in Int
         /\ header[a].next \in Addresses
<1>1. header[a] \in Header
  BY DEF CxxTypeOK
<1> QED BY <1>1 DEF Header

LEMMA HeaderUpdate ==
  ASSUME CxxTypeOK, NEW e \in Addresses, NEW z \in Header, HeaderIs(e, z)
  PROVE  /\ header' \in [Addresses -> Header] /\ header'[e] = z
         /\ \A a \in Addresses : a # e => header'[a] = header[a]
BY DEF CxxTypeOK, HeaderIs

FreshHeader == [alloc |-> TRUE, handlers |-> 0, next |-> NULL]

LEMMA FreshHeaderType ==
  FreshHeader \in Header /\ FreshHeader.alloc = TRUE /\ FreshHeader.handlers = 0
BY DEF FreshHeader, Header, Addresses

LEMMA AllocateHeader ==
  ASSUME CxxTypeOK, NEW e \in Exceptions, Allocate(e)
  PROVE  HeaderIs(e, FreshHeader) /\ ~header[e].alloc /\ UNCHANGED <<iu_exception, carried, lost, flying>>
BY DEF Allocate, HeaderIs, FreshHeader, vars

FreedHeader(a) == [header[a] EXCEPT !.alloc = FALSE]

LEMMA FreedHeaderType ==
  ASSUME CxxTypeOK, NEW a \in Addresses
  PROVE  FreedHeader(a) \in Header /\ FreedHeader(a).alloc = FALSE
<1>1. header[a] \in Header
  BY HeaderType
<1> QED BY <1>1 DEF FreedHeader, Header

LEMMA FreeNewHeader ==
  ASSUME CxxTypeOK, FreeNew
  PROVE  HeaderIs(Mine.new, FreedHeader(Mine.new)) /\ UNCHANGED <<iu_exception, carried, lost, flying>>
BY DEF FreeNew, HeaderIs, FreedHeader, vars

(* begin_catch links the exception into the list. *)
CaughtHeader(e) ==
  [header[e] EXCEPT !.handlers = IF header[e].handlers < 0 THEN 1 - header[e].handlers
                                                           ELSE header[e].handlers + 1,
                    !.next = iu_exception.caught]

LEMMA CaughtHeaderType ==
  ASSUME CxxTypeOK, NEW e \in Addresses
  PROVE  /\ CaughtHeader(e) \in Header /\ CaughtHeader(e).alloc = header[e].alloc
         /\ CaughtHeader(e).next = iu_exception.caught
         /\ header[e].handlers = 0 => CaughtHeader(e).handlers = 1
<1> DEFINE z == header[e]  hs == IF z.handlers < 0 THEN 1 - z.handlers ELSE z.handlers + 1
           c == iu_exception.caught
<1>1. z \in Header /\ z.handlers \in Int
  BY HeaderType
<1>2. c \in Addresses
  BY DEF CxxTypeOK
<1>3. hs \in Int /\ (z.handlers = 0 => hs = 1)
  BY <1>1
<1>4. CaughtHeader(e) = [z EXCEPT !.handlers = hs, !.next = c]
  BY DEF CaughtHeader
<1> HIDE DEF z, hs, c
<1>5. /\ CaughtHeader(e) \in Header /\ CaughtHeader(e).alloc = z.alloc
      /\ CaughtHeader(e).next = c /\ CaughtHeader(e).handlers = hs
  BY <1>1, <1>2, <1>3, <1>4 DEF Header
<1> QED BY <1>3, <1>5 DEF z, c

LEMMA BeginCatchHeader ==
  ASSUME CxxTypeOK, BeginCatch, LastOpen.exc \in Addresses
  PROVE  /\ HeaderIs(LastOpen.exc, CaughtHeader(LastOpen.exc))
         /\ iu_exception' = [iu_exception EXCEPT !.caught = LastOpen.exc,
                               !.uncaught = IF header[LastOpen.exc].handlers < 0 THEN @ ELSE @ - 1]
         /\ UNCHANGED <<carried, lost, flying>>
<1> DEFINE e == LastOpen.exc
<1>1. header' = [header EXCEPT ![e].handlers = IF header[e].handlers < 0 THEN 1 - header[e].handlers
                                                                        ELSE header[e].handlers + 1,
                               ![e].next = iu_exception.caught]
  BY DEF BeginCatch
<1>2. header' = [header EXCEPT ![e] = CaughtHeader(e)]
  BY <1>1 DEF CaughtHeader, CxxTypeOK
<1> QED BY <1>2 DEF HeaderIs, BeginCatch, vars

(* end_catch ends a handler and frees the exception after the last. *)
EndedHeader(a) ==
  [header[a] EXCEPT !.handlers = header[a].handlers - 1,
                    !.alloc = @ /\ header[a].handlers - 1 # 0]

LEMMA EndedHeaderType ==
  ASSUME CxxTypeOK, NEW a \in Addresses
  PROVE  EndedHeader(a) \in Header /\ (header[a].handlers = 1 => EndedHeader(a).alloc = FALSE)
<1> DEFINE z == header[a]  hs == z.handlers - 1  al == z.alloc /\ hs # 0
<1>1. z \in Header /\ z.handlers \in Int
  BY HeaderType
<1>2. hs \in Int /\ al \in BOOLEAN /\ (z.handlers = 1 => al = FALSE)
  BY <1>1
<1>3. EndedHeader(a) = [z EXCEPT !.handlers = hs, !.alloc = al]
  BY DEF EndedHeader
<1> HIDE DEF z, hs, al
<1>4. EndedHeader(a) \in Header /\ EndedHeader(a).alloc = al
  BY <1>1, <1>2, <1>3 DEF Header
<1> QED BY <1>2, <1>4 DEF z

LEMMA EndCatchHeader ==
  ASSUME CxxTypeOK, EndCatch
  PROVE  /\ iu_exception.caught \in Addresses
         /\ HeaderIs(iu_exception.caught, EndedHeader(iu_exception.caught))
         /\ iu_exception' = [iu_exception EXCEPT !.caught =
                               IF header[iu_exception.caught].handlers = 1
                               THEN header[iu_exception.caught].next ELSE @]
         /\ UNCHANGED <<carried, lost, flying>>
<1> DEFINE a == iu_exception.caught
<1>1. a \in Addresses
  BY DEF CxxTypeOK
<1>2. header' = [header EXCEPT ![a].handlers = header[a].handlers - 1,
                               ![a].alloc = @ /\ header[a].handlers - 1 # 0]
  BY DEF EndCatch
<1>3. header' = [header EXCEPT ![a] = EndedHeader(a)]
  BY <1>1, <1>2 DEF EndedHeader, CxxTypeOK
<1>4. header[a].handlers \in Int
  BY <1>1, HeaderType
<1>5. header[a].handlers - 1 = 0 <=> header[a].handlers = 1
  BY <1>4
<1>6. iu_exception' = [iu_exception EXCEPT !.caught =
                         IF header[a].handlers - 1 = 0 THEN header[a].next ELSE @]
  BY DEF EndCatch, Unlinked
<1> QED BY <1>1, <1>3, <1>5, <1>6 DEF HeaderIs, EndCatch, vars
-----------------------------------------------------------------------------
(* Types *)

UnitState == [exception : Addresses, uncaught : Int, caught : Addresses]

LEMMA UnitFields ==
  ASSUME CxxTypeOK
  PROVE  /\ iu_exception \in UnitState /\ iu_exception.exception \in Addresses
         /\ iu_exception.uncaught \in Int /\ iu_exception.caught \in Addresses
<1>1. iu_exception \in UnitState
  BY DEF CxxTypeOK, UnitState
<1> QED BY <1>1 DEF UnitState

LEMMA LostFields ==
  ASSUME CxxTypeOK
  PROVE  lost.thrown \in Nat /\ lost.other \in Nat
BY DEF CxxTypeOK

LEMMA TypeFrom ==
  ASSUME regs' \in Seq(Reg), Len(regs') = Len(stack'), header' \in [Addresses -> Header],
         iu_exception' \in UnitState, carried' \in Addresses, lost' \in [thrown : Nat, other : Nat]
  PROVE  CxxTypeOK'
BY DEF CxxTypeOK, UnitState

(* An activation changes what it holds while it runs. *)
LEMMA TopType ==
  ASSUME CallInv, CxxTypeOK, stack # <<>>, NEW y \in Reg, regs' = Append(Below, y), Len(stack') = Len(stack)
  PROVE  regs' \in Seq(Reg) /\ Len(regs') = Len(stack')
BY MineFacts

LEMMA NextCxxType == CallInv /\ CxxTypeOK /\ [CxxStep]_cxxvars => CxxTypeOK'
<1> SUFFICES ASSUME CallInv, CxxTypeOK, [CxxStep]_cxxvars PROVE CxxTypeOK'
  OBVIOUS
<1>0. /\ regs \in Seq(Reg) /\ Len(regs) = Len(stack) /\ header \in [Addresses -> Header]
      /\ iu_exception \in UnitState /\ carried \in Addresses /\ lost \in [thrown : Nat, other : Nat]
  BY DEF CxxTypeOK, UnitState
<1>a. /\ lost.thrown \in Nat /\ lost.other \in Nat /\ iu_exception.uncaught \in Int
      /\ NULL \in Addresses
  BY LostFields, UnitFields DEF Addresses
<1>1. CASE CxxEnter
  BY <1>1, <1>0, EnterRegs, TypeFrom
<1>2. CASE CxxCalls
  BY <1>2, <1>0, CallsRegs, TypeFrom
<1>3. CASE CxxReturns
  <2>1. /\ stack # <<>> /\ stack' = Pop /\ regs' = Below
        /\ UNCHANGED <<iu_exception, header, carried, lost>>
    BY <1>3 DEF CxxReturns, Returns
  <2> QED BY <2>1, <1>0, PopRegs, TypeFrom
<1>4. CASE CxxPropagates
  <2>1. /\ stack # <<>> /\ stack' = Pop /\ regs' = Below
        /\ UNCHANGED <<iu_exception, header, carried, lost>>
    BY <1>4 DEF CxxPropagates, JsrPropagates, CallInv, Nesting, RUN
  <2> QED BY <2>1, <1>0, PopRegs, TypeFrom
<1>5. CASE CxxContinues
  BY <1>5, <1>0, ContinuesFacts, TypeFrom DEF cxx
<1>6. CASE CxxCallReturns
  <2>1. /\ stack # <<>> /\ stack' = Pop /\ regs' = Below
        /\ UNCHANGED <<iu_exception, header, carried>>
        /\ lost' = IF flying THEN [lost EXCEPT !.thrown = @ + 1] ELSE lost
    BY <1>6 DEF CxxCallReturns, CallReturns, CallInv, Nesting
  <2>2. [lost EXCEPT !.thrown = @ + 1] \in [thrown : Nat, other : Nat]
    BY <1>0, <1>a
  <2>3. lost' \in [thrown : Nat, other : Nat]
    BY <2>1, <2>2, <1>0, Zenon
  <2> QED BY <2>1, <2>3, <1>0, PopRegs, TypeFrom
<1>7. CASE CxxStop
  <2> DEFINE m == iu_err_jmpbuf
  <2>1. /\ m \in 1..Len(regs) /\ regs' \in Seq(Reg) /\ Len(regs') = Len(stack')
        /\ UNCHANGED <<iu_exception, header, carried>>
        /\ lost' = [thrown |-> lost.thrown + Held(m + 1, "pad"),
                    other  |-> lost.other + Held(m + 1, "handler") + New(m + 1)]
    BY <1>7, StopRegs
  <2>2. Held(m + 1, "pad") \in Nat /\ Held(m + 1, "handler") \in Nat /\ New(m + 1) \in Nat
    BY <2>1, <1>0, HeldSplit, NewSplit DEF Held, New
  <2>3. lost' \in [thrown : Nat, other : Nat]
    BY <2>1, <2>2, <1>a
  <2> QED BY <2>1, <2>3, <1>0, TypeFrom
<1>8. ASSUME NEW e \in Exceptions, Allocate(e) PROVE CxxTypeOK'
  <2>0. e \in Addresses /\ stack' = stack
    BY <1>8 DEF Addresses, Allocate, vars
  <2>1. regs' \in Seq(Reg) /\ Len(regs') = Len(stack')
    BY <2>0, <1>8, AllocateRegs, TopType
  <2>2. header' \in [Addresses -> Header]
    BY <2>0, <1>8, AllocateHeader, FreshHeaderType, HeaderUpdate
  <2> QED BY <2>1, <2>2, <1>0, <1>8, AllocateHeader, TypeFrom
<1>9. CASE FreeNew
  <2>0. stack' = stack /\ stack # <<>> /\ Mine.new \in Addresses
    BY <1>9, FreeNewRegs, MineFacts DEF FreeNew, vars
  <2>1. regs' \in Seq(Reg) /\ Len(regs') = Len(stack')
    BY <2>0, <1>9, FreeNewRegs, TopType
  <2>2. header' \in [Addresses -> Header]
    BY <2>0, <1>9, FreeNewHeader, FreedHeaderType, HeaderUpdate
  <2> QED BY <2>1, <2>2, <1>0, <1>9, FreeNewHeader, TypeFrom
<1>10. ASSUME NEW again \in Rethrows, NEW e \in Addresses, Throw(again, e) PROVE CxxTypeOK'
  <2>1. again \in BOOLEAN
    BY CxxAssumption
  <2>2. /\ stack # <<>> /\ stack' = Pop /\ Len(regs) >= 2 /\ regs[Len(regs) - 1] \in Reg
        /\ Below \in Seq(Reg) /\ Len(Below) = Len(regs) - 1
        /\ iu_exception' = [iu_exception EXCEPT !.exception = e, !.uncaught = @ + 1]
        /\ UNCHANGED <<header, lost>>
    BY <1>10, ThrowRegs
  <2>3. Len(stack') = Len(Below)
    <3>1. stack \in Seq(Activation) /\ Len(stack) \in Nat /\ Len(stack) >= 2
      BY <2>2, <1>0 DEF CallInv, TypeOK
    <3> QED BY <3>1, <2>2, <1>0 DEF Pop
  <2>4. regs' \in Seq(Reg) /\ Len(regs') = Len(Below)
    <3>1. CASE again = TRUE
      BY <3>1, <2>2, <1>10, ThrowRegs
    <3>2. CASE again = FALSE
      <4> DEFINE bb == SubSeq(Below, 1, Len(Below) - 1)  y == [regs[Len(regs) - 1] EXCEPT !.new = NULL]
      <4>1. regs' = Append(bb, y) /\ bb \in Seq(Reg) /\ Len(bb) = Len(regs) - 2
        BY <3>2, <1>10, ThrowRegs
      <4>2. y \in Reg
        BY <2>2, <1>a, SetNew
      <4> HIDE DEF bb, y
      <4> QED BY <4>1, <4>2, <2>2, <1>0
    <3> QED BY <3>1, <3>2, <2>1
  <2>5. iu_exception' \in UnitState
    <3> DEFINE u == iu_exception.uncaught + 1
    <3>1. u \in Int
      BY <1>a
    <3>2. iu_exception' = [iu_exception EXCEPT !.exception = e, !.uncaught = u]
      BY <2>2
    <3> HIDE DEF u
    <3> QED BY <3>1, <3>2, <1>0 DEF UnitState
  <2>6. carried' \in Addresses
    <3>1. CASE again = FALSE
      BY <3>1, <1>10 DEF Throw
    <3>2. CASE again = TRUE
      <4> DEFINE c == regs[Len(regs) - 1]
      <4>1. c \in Reg /\ c.open # <<>> /\ carried' = Last(c.open).meant
        BY <3>2, <2>2, <1>10 DEF Throw
      <4>2. c.open \in Seq(Entry) /\ Len(c.open) \in 1..Len(c.open)
        BY <4>1, LastOpenFacts DEF Reg
      <4> HIDE DEF c
      <4> QED BY <4>1, <4>2, EntryFields DEF Last
    <3> QED BY <3>1, <3>2, <2>1
  <2> QED BY <2>2, <2>3, <2>4, <2>5, <2>6, <1>0, TypeFrom
<1>11. CASE LandingPad
  <2>1. regs' \in Seq(Reg) /\ Len(regs') = Len(stack')
    BY <1>11, LandingPadRegs, WaitingLen, TopType
  <2> QED BY <2>1, <1>0, <1>11, TypeFrom DEF LandingPad
<1>12. CASE Resume
  <2>1. /\ stack # <<>> /\ stack' = Pop /\ regs' = Below /\ Mine.open[1] \in Entry
        /\ iu_exception' = [iu_exception EXCEPT !.exception = Mine.open[1].exc]
        /\ carried' = Mine.open[1].meant /\ UNCHANGED <<header, lost>>
    BY <1>12, ResumeRegs DEF Resume
  <2>2. Mine.open[1].exc \in Addresses /\ Mine.open[1].meant \in Addresses
    BY <2>1 DEF Entry
  <2>3. iu_exception' \in UnitState
    BY <2>1, <2>2, <1>0 DEF UnitState
  <2> QED BY <2>1, <2>2, <2>3, <1>0, PopRegs, TypeFrom
<1>13. CASE BeginCatch
  <2>0. stack' = stack /\ stack # <<>> /\ Mine \in Reg /\ Mine.open # <<>>
    BY <1>13, BeginCatchRegs, MineFacts DEF BeginCatch, vars
  <2>1. LastOpen.exc \in Addresses
    BY <2>0, LastOpenFacts DEF LastOpen, Entry
  <2>2. regs' \in Seq(Reg) /\ Len(regs') = Len(stack')
    <3>1. Handling \in Reg /\ regs' = Append(Below, Handling)
      BY <1>13, BeginCatchRegs
    <3> QED BY <2>0, <3>1, TopType
  <2>3. header' \in [Addresses -> Header]
    BY <2>1, <1>13, BeginCatchHeader, CaughtHeaderType, HeaderUpdate
  <2>4. iu_exception' = [iu_exception EXCEPT !.caught = LastOpen.exc,
                           !.uncaught = IF header[LastOpen.exc].handlers < 0 THEN @ ELSE @ - 1]
        /\ UNCHANGED <<carried, lost>>
    BY <2>1, <1>13, BeginCatchHeader
  <2>5. iu_exception' \in UnitState
    <3> DEFINE u == IF header[LastOpen.exc].handlers < 0 THEN iu_exception.uncaught
                                                         ELSE iu_exception.uncaught - 1
    <3>1. u \in Int
      BY <1>a
    <3>2. iu_exception' = [iu_exception EXCEPT !.caught = LastOpen.exc, !.uncaught = u]
      BY <2>4
    <3> HIDE DEF u
    <3> QED BY <3>1, <3>2, <2>1, <1>0 DEF UnitState
  <2> QED BY <2>2, <2>3, <2>4, <2>5, <1>0, TypeFrom
<1>14. CASE EndCatch
  <2>0. stack' = stack /\ stack # <<>>
    BY <1>14, EndCatchRegs DEF EndCatch, vars
  <2>1. regs' \in Seq(Reg) /\ Len(regs') = Len(stack')
    BY <2>0, <1>14, EndCatchRegs, TopType
  <2> DEFINE a == iu_exception.caught  n == IF header[a].handlers = 1 THEN header[a].next ELSE a
  <2>2. a \in Addresses /\ HeaderIs(a, EndedHeader(a)) /\ UNCHANGED <<carried, lost>>
        /\ iu_exception' = [iu_exception EXCEPT !.caught = n]
    BY <1>14, EndCatchHeader
  <2>3. header' \in [Addresses -> Header]
    BY <2>2, EndedHeaderType, HeaderUpdate
  <2>4. n \in Addresses
    BY <2>2, HeaderType
  <2> HIDE DEF n
  <2>5. iu_exception' \in UnitState
    BY <2>2, <2>4, <1>0 DEF UnitState
  <2> QED BY <2>1, <2>2, <2>3, <2>5, <1>0, TypeFrom
<1>15. CASE UNCHANGED cxxvars
  BY <1>15, <1>0, TypeFrom DEF cxxvars, vars, cxx
<1> QED BY <1>1, <1>2, <1>3, <1>4, <1>5, <1>6, <1>7, <1>8, <1>9, <1>10, <1>11, <1>12, <1>13, <1>14, <1>15
        DEF CxxStep

LEMMA InitCxxType == CxxInit => CxxTypeOK
<1> SUFFICES ASSUME CxxInit PROVE CxxTypeOK
  OBVIOUS
<1>1. regs = <<>> /\ stack = <<>> /\ carried = NULL /\ NULL \in Addresses
  BY DEF CxxInit, Init, Addresses
<1>2. regs \in Seq(Reg) /\ Len(regs) = Len(stack)
  BY <1>1, EmptySeq
<1>3. header \in [Addresses -> Header]
  BY <1>1 DEF CxxInit, Header
<1>4. iu_exception \in UnitState /\ lost \in [thrown : Nat, other : Nat]
  BY <1>1 DEF CxxInit, UnitState
<1> QED BY <1>1, <1>2, <1>3, <1>4 DEF CxxTypeOK, UnitState
-----------------------------------------------------------------------------
(* Landing pads receive the exception that reached them *)

RightOpen(o) == \A j \in 1..Len(o) : o[j].exc = o[j].meant
Right(r)     == \A i \in 1..Len(r) : RightOpen(r[i].open)

(* What is in iu_exception is the exception last thrown or resumed, caught *)
(* or not.                                                                 *)
PadsInv == iu_exception.exception = carried /\ Right(regs)

LEMMA RightAppend ==
  ASSUME NEW b \in Seq(Reg), NEW x \in Reg
  PROVE  Right(Append(b, x)) <=> Right(b) /\ RightOpen(x.open)
<1> DEFINE r == Append(b, x)  n == Len(b) + 1
<1>1. /\ Len(r) = n /\ r[n] = x /\ n \in 1..n
      /\ \A i \in 1..Len(b) : r[i] = b[i] /\ i \in 1..n
      /\ \A i \in 1..n : i = n \/ i \in 1..Len(b)
  BY AppendReg
<1> HIDE DEF r, n
<1>2. Right(r) <=> Right(b) /\ RightOpen(x.open)
  BY <1>1 DEF Right
<1> QED BY <1>2 DEF r

LEMMA RightOpenAppend ==
  ASSUME NEW o \in Seq(Entry), NEW e \in Entry
  PROVE  RightOpen(Append(o, e)) <=> RightOpen(o) /\ e.exc = e.meant
<1> DEFINE r == Append(o, e)  n == Len(o) + 1
<1>1. /\ Len(r) = n /\ r[n] = e /\ n \in 1..n
      /\ \A i \in 1..Len(o) : r[i] = o[i] /\ i \in 1..n
      /\ \A i \in 1..n : i = n \/ i \in 1..Len(o)
  BY AppendReg
<1> HIDE DEF r, n
<1>2. RightOpen(r) <=> RightOpen(o) /\ e.exc = e.meant
  BY <1>1 DEF RightOpen
<1> QED BY <1>2 DEF r

LEMMA RightIdle == RightOpen(Idle.open)
BY RegFields DEF RightOpen

LEMMA NextPads ==
  ASSUME TRUE \notin Rethrows, CallInv, CxxTypeOK, PadsInv, [CxxStep]_cxxvars
  PROVE  PadsInv'
<1>0. /\ regs \in Seq(Reg) /\ Right(regs) /\ iu_exception.exception = carried /\ Idle \in Reg
      /\ iu_exception \in UnitState
  BY RegFields, UnitFields DEF CxxTypeOK, PadsInv
<1>a. ASSUME stack # <<>>
      PROVE  /\ Below \in Seq(Reg) /\ Mine \in Reg /\ Mine.open \in Seq(Entry)
             /\ Right(Below) /\ RightOpen(Mine.open)
  <2>1. Below \in Seq(Reg) /\ Mine \in Reg /\ Mine.open \in Seq(Entry) /\ regs = Append(Below, Mine)
    BY <1>a, MineFacts
  <2>2. Right(Append(Below, Mine))
    BY <2>1, <1>0
  <2> QED BY <2>1, <2>2, RightAppend
<1>b. ASSUME NEW y \in Reg, stack # <<>>, regs' = Append(Below, y), RightOpen(y.open)
      PROVE  Right(regs')
  BY <1>a, <1>b, RightAppend
<1>1. CASE CxxEnter
  <2>1. Append(regs, Idle) \in Seq(Reg) /\ Right(Append(regs, Idle))
    BY <1>0, RightAppend, RightIdle
  <2>2. Right(Append(Append(regs, Idle), Idle))
    BY <2>1, <1>0, RightAppend, RightIdle
  <2>3. regs' = Append(Append(regs, Idle), Idle) /\ UNCHANGED <<iu_exception, carried>>
    BY <1>1, EnterRegs
  <2>4. Right(regs')
    BY <2>2, <2>3
  <2> QED BY <2>3, <2>4, <1>0 DEF PadsInv
<1>2. CASE CxxCalls
  <2>1. regs' = Append(regs, Idle) /\ UNCHANGED <<iu_exception, carried>>
    BY <1>2, CallsRegs
  <2>2. Right(regs')
    BY <2>1, <1>0, RightAppend, RightIdle
  <2> QED BY <2>1, <2>2, <1>0 DEF PadsInv
<1>3. CASE CxxReturns \/ CxxPropagates \/ CxxCallReturns
  <2>1. stack # <<>> /\ regs' = Below /\ UNCHANGED <<iu_exception, carried>>
    BY <1>3 DEF CxxReturns, CxxPropagates, CxxCallReturns, Returns, JsrPropagates, CallReturns,
                CallInv, Nesting, RUN
  <2> QED BY <2>1, <1>0, <1>a DEF PadsInv
<1>4. CASE CxxContinues \/ UNCHANGED cxxvars
  <2>1. UNCHANGED cxx
    BY <1>4 DEF CxxContinues, cxxvars
  <2> QED BY <2>1, <1>0 DEF PadsInv, cxx
<1>5. CASE CxxStop
  <2>1. /\ iu_err_jmpbuf \in 1..Len(regs) /\ regs' = SubSeq(regs, 1, iu_err_jmpbuf)
        /\ UNCHANGED <<iu_exception, carried>>
    BY <1>5, StopRegs
  <2>2. ASSUME NEW m \in 1..Len(regs) PROVE Right(SubSeq(regs, 1, m))
    <3>1. /\ Len(SubSeq(regs, 1, m)) = m /\ \A i \in 1..m : SubSeq(regs, 1, m)[i] = regs[i]
          /\ \A i \in 1..m : i \in 1..Len(regs)
      BY <1>0, <2>2
    <3> QED BY <3>1, <1>0 DEF Right
  <2>3. Right(regs')
    BY <2>1, <2>2
  <2> QED BY <2>1, <2>3, <1>0 DEF PadsInv
<1>6. ASSUME NEW e \in Exceptions, Allocate(e) PROVE PadsInv'
  <2>1. stack # <<>> /\ e \in Addresses /\ regs' = Append(Below, [Mine EXCEPT !.new = e])
    BY <1>6, AllocateRegs DEF Addresses
  <2>2. [Mine EXCEPT !.new = e] \in Reg /\ [Mine EXCEPT !.new = e].open = Mine.open
    BY <2>1, <1>a, SetNew
  <2>3. Right(regs')
    BY <2>1, <2>2, <1>a, <1>b
  <2> QED BY <2>3, <1>0, <1>6, AllocateHeader DEF PadsInv
<1>7. CASE FreeNew
  <2>1. stack # <<>> /\ regs' = Append(Below, [Mine EXCEPT !.new = NULL]) /\ NULL \in Addresses
    BY <1>7, FreeNewRegs DEF Addresses
  <2>2. [Mine EXCEPT !.new = NULL] \in Reg /\ [Mine EXCEPT !.new = NULL].open = Mine.open
    BY <2>1, <1>a, SetNew
  <2>3. Right(regs')
    BY <2>1, <2>2, <1>a, <1>b
  <2> QED BY <2>3, <1>0, <1>7, FreeNewHeader DEF PadsInv
<1>8. ASSUME NEW again \in Rethrows, NEW e \in Addresses, Throw(again, e) PROVE PadsInv'
  <2>1. again = FALSE
    BY CxxAssumption
  <2> DEFINE bb == SubSeq(Below, 1, Len(Below) - 1)  c == regs[Len(regs) - 1]  y == [c EXCEPT !.new = NULL]
  <2>2. /\ stack # <<>> /\ bb \in Seq(Reg) /\ c \in Reg /\ Below = Append(bb, c)
        /\ regs' = Append(bb, y) /\ carried' = e
        /\ iu_exception' = [iu_exception EXCEPT !.exception = e, !.uncaught = @ + 1]
    BY <2>1, <1>8, ThrowRegs
  <2>3. y \in Reg /\ y.open = c.open
    BY <2>2, SetNew DEF Addresses
  <2>4. iu_exception'.exception = e
    BY <2>2, <1>0 DEF UnitState
  <2> HIDE DEF bb, c, y
  <2>5. Right(Append(bb, c))
    BY <2>2, <1>a
  <2>6. Right(bb) /\ RightOpen(c.open)
    BY <2>2, <2>5, RightAppend
  <2>7. Right(Append(bb, y))
    BY <2>2, <2>3, <2>6, RightAppend
  <2> QED BY <2>2, <2>4, <2>7 DEF PadsInv
<1>9. CASE LandingPad
  <2> DEFINE y == [Mine EXCEPT !.open = Append(Mine.open, Landed)]
  <2>1. /\ stack # <<>> /\ Landed \in Entry /\ Landed.exc = iu_exception.exception
        /\ Landed.meant = carried /\ y \in Reg /\ y.open = Append(Mine.open, Landed)
        /\ regs' = Append(Below, y)
    BY <1>9, LandingPadRegs
  <2>2. RightOpen(y.open)
    BY <2>1, <1>0, <1>a, RightOpenAppend
  <2> HIDE DEF y
  <2>3. Right(regs')
    BY <2>1, <2>2, <1>b
  <2> QED BY <2>3, <1>0, <1>9 DEF PadsInv, LandingPad
<1>10. CASE Resume
  <2>1. /\ stack # <<>> /\ regs' = Below /\ Len(Mine.open) = 1
        /\ iu_exception' = [iu_exception EXCEPT !.exception = Mine.open[1].exc]
        /\ carried' = Mine.open[1].meant
    BY <1>10, ResumeRegs
  <2>2. Mine.open[1].exc = Mine.open[1].meant /\ Right(Below)
    BY <2>1, <1>a DEF RightOpen
  <2>3. iu_exception'.exception = Mine.open[1].exc
    BY <2>1, <1>0 DEF UnitState
  <2> QED BY <2>1, <2>2, <2>3 DEF PadsInv
<1>11. CASE BeginCatch
  <2> DEFINE o == Mine.open  n == Len(o)  l == [o[n] EXCEPT !.role = "handler"]  f == SubSeq(o, 1, n - 1)
  <2>1. /\ stack # <<>> /\ o # <<>> /\ Handling \in Reg /\ Handling.open = Append(f, l)
        /\ regs' = Append(Below, Handling)
    BY <1>11, BeginCatchRegs
  <2>2. /\ n \in 1..n /\ f \in Seq(Entry) /\ o[n] \in Entry /\ o = Append(f, o[n]) /\ o \in Seq(Entry)
    BY <2>1, <1>a, LastOpenFacts
  <2>3. l \in Entry /\ l.exc = o[n].exc /\ l.meant = o[n].meant
    BY <2>2, EntryFields
  <2>4. RightOpen(o)
    BY <2>1, <1>a
  <2> HIDE DEF o, n, l, f
  <2>5. RightOpen(f) /\ o[n].exc = o[n].meant
    BY <2>2, <2>4, RightOpenAppend
  <2>6. RightOpen(Append(f, l))
    BY <2>2, <2>3, <2>5, RightOpenAppend
  <2>7. Right(regs')
    BY <2>1, <2>6, <1>b
  <2>8. iu_exception'.exception = iu_exception.exception /\ UNCHANGED carried
    BY <1>11, <1>0 DEF BeginCatch, UnitState
  <2> QED BY <2>7, <2>8, <1>0 DEF PadsInv
<1>12. CASE EndCatch
  <2>1. /\ stack # <<>> /\ Closed \in Reg /\ regs' = Append(Below, Closed)
        /\ Closing \in 1..Len(Mine.open)
        /\ \/ Closed.open = SubSeq(Mine.open, 1, Closing - 1)
           \/ Closed.open = Append(SubSeq(Mine.open, 1, Closing - 1), Mine.open[Len(Mine.open)])
    BY <1>12, EndCatchRegs
  <2> DEFINE o == Mine.open  f == SubSeq(o, 1, Closing - 1)
  <2>2. o \in Seq(Entry) /\ RightOpen(o) /\ Len(o) \in Nat
    BY <2>1, <1>a, LenProperties
  <2>3. f \in Seq(Entry) /\ Len(f) = Closing - 1 /\ \A j \in 1..(Closing - 1) : f[j] = o[j] /\ j \in 1..Len(o)
    BY <2>1, <2>2
  <2>4. Len(o) \in 1..Len(o)
    BY <2>1, <2>2
  <2>5. o[Len(o)] \in Entry /\ o[Len(o)].exc = o[Len(o)].meant
    BY <2>2, <2>4, EntryFields DEF RightOpen
  <2> HIDE DEF o, f
  <2>6. RightOpen(f)
    BY <2>2, <2>3 DEF RightOpen
  <2>7. RightOpen(Append(f, o[Len(o)]))
    BY <2>3, <2>5, <2>6, RightOpenAppend
  <2>8. RightOpen(Closed.open)
    BY <2>1, <2>6, <2>7 DEF f, o
  <2>9. Right(regs')
    BY <2>1, <2>8, <1>b
  <2>10. iu_exception'.exception = iu_exception.exception /\ UNCHANGED carried
    BY <1>12, <1>0 DEF EndCatch, UnitState
  <2> QED BY <2>9, <2>10, <1>0 DEF PadsInv
<1> QED BY <1>1, <1>2, <1>3, <1>4, <1>5, <1>6, <1>7, <1>8, <1>9, <1>10, <1>11, <1>12 DEF CxxStep

(* Without "throw;", every landing pad receives the exception that reached *)
(* it, at any depth and whatever the cleanups in between throw and catch.  *)
THEOREM CxxPadsRight == TRUE \notin Rethrows => (CxxSpec => []PadsRight)
<1> SUFFICES ASSUME TRUE \notin Rethrows PROVE CxxSpec => []PadsRight
  OBVIOUS
<1>1. CxxInit => PadsInv
  BY DEF CxxInit, PadsInv, Right
<1>2. CallInv /\ CxxTypeOK /\ PadsInv /\ [CxxStep]_cxxvars => PadsInv'
  BY NextPads
<1>3. PadsInv => PadsRight
  BY DEF PadsInv, PadsRight, Right, RightOpen
<1>4. CxxSpec => []CallInv
  BY CxxCalling, CallInvariant, PTL
<1>5. CxxSpec => []CxxTypeOK
  BY <1>4, InitCxxType, NextCxxType, CxxNextIsStep, PTL DEF CxxSpec
<1> QED BY <1>1, <1>2, <1>3, <1>4, <1>5, CxxNextIsStep, PTL DEF CxxSpec
-----------------------------------------------------------------------------
(* What activations hold while they wait *)

LEMMA WaitsCut ==
  ASSUME NEW s \in Seq(Activation), NEW r \in Seq(Reg), Len(r) = Len(s), HeldWell(s, r),
         NEW n \in Nat, n <= Len(s)
  PROVE  HeldWell(SubSeq(s, 1, n), SubSeq(r, 1, n))
<1> DEFINE t == SubSeq(s, 1, n)  q == SubSeq(r, 1, n)
<1>1. Len(s) \in Nat /\ Len(t) = n /\ \A i \in 1..n : t[i] = s[i] /\ i \in 1..Len(s)
  OBVIOUS
<1>2. \A i \in 1..n : q[i] = r[i]
  OBVIOUS
<1> HIDE DEF t, q
<1>3. \A i \in 1..Len(t) : t[i].kind # "exec" => t[i].site = "none" /\ q[i] = Idle
  BY <1>1, <1>2 DEF HeldWell
<1>4. \A i \in 1..Len(t) : t[i].site \in {"jsr", "jsr_r_ext"} => q[i].open = <<>>
  BY <1>1, <1>2 DEF HeldWell
<1>5. ASSUME NEW i \in 1..Len(t), NEW j \in 1..Len(t), i + 1 = j, t[i].site = "jsr", t[j].kind = "exec"
      PROVE  q[i] = Idle
  <2>1. i \in 1..Len(s) /\ j \in 1..Len(s) /\ t[i] = s[i] /\ t[j] = s[j] /\ q[i] = r[i]
    BY <1>1, <1>2
  <2> QED BY <2>1, <1>5 DEF HeldWell
<1> QED BY <1>3, <1>4, <1>5 DEF HeldWell, t, q

(* The last activation goes on or waits, and holds y instead of x. *)
LEMMA WaitsTop ==
  ASSUME NEW b \in Seq(Activation), NEW a \in Activation, NEW c \in Activation,
         NEW q \in Seq(Reg), NEW x \in Reg, NEW y \in Reg, Len(q) = Len(b),
         HeldWell(Append(b, a), Append(q, x)), a.kind = "exec", c.kind = "exec",
         c.site \in {"jsr", "jsr_r_ext"} => y.open = <<>>
  PROVE  HeldWell(Append(b, c), Append(q, y))
<1> DEFINE s == Append(b, a)  t == Append(b, c)  r == Append(q, x)  u == Append(q, y)  n == Len(b) + 1
<1>1. /\ Len(b) \in Nat /\ Len(s) = n /\ Len(t) = n /\ s[n] = a /\ t[n] = c
      /\ \A i \in 1..Len(b) : s[i] = b[i] /\ t[i] = b[i] /\ i \in 1..n
      /\ \A i \in 1..n : i = n \/ i \in 1..Len(b)
  BY AppendReg
<1>2. /\ r[n] = x /\ u[n] = y /\ \A i \in 1..Len(b) : r[i] = u[i]
  BY AppendReg
<1>3. \A i, j \in 1..n : i + 1 = j => i \in 1..Len(b)
  BY <1>1
<1> HIDE DEF s, t, r, u, n
<1>4. \A i \in 1..Len(t) : t[i].kind # "exec" => t[i].site = "none" /\ u[i] = Idle
  BY <1>1, <1>2 DEF HeldWell, s, r
<1>5. \A i \in 1..Len(t) : t[i].site \in {"jsr", "jsr_r_ext"} => u[i].open = <<>>
  BY <1>1, <1>2 DEF HeldWell, s, r
<1>6. ASSUME NEW i \in 1..Len(t), NEW j \in 1..Len(t), i + 1 = j, t[i].site = "jsr", t[j].kind = "exec"
      PROVE  u[i] = Idle
  <2>1. i \in 1..Len(b) /\ i \in 1..Len(s) /\ j \in 1..Len(s)
    BY <1>1, <1>3, <1>6
  <2>2. s[i] = t[i] /\ s[j].kind = "exec" /\ r[i] = u[i]
    BY <2>1, <1>1, <1>2, <1>6
  <2> QED BY <2>1, <2>2, <1>6 DEF HeldWell, s, r
<1> QED BY <1>4, <1>5, <1>6 DEF HeldWell, t, u

(* An activation that holds nothing is entered. *)
LEMMA WaitsPush ==
  ASSUME NEW s \in Seq(Activation), NEW r \in Seq(Reg), Len(r) = Len(s), HeldWell(s, r),
         NEW c \in Activation, c.site = "none",
         s # <<>> /\ s[Len(s)].site = "jsr" /\ c.kind = "exec" => r[Len(s)] = Idle
  PROVE  HeldWell(Append(s, c), Append(r, Idle))
<1> DEFINE t == Append(s, c)  u == Append(r, Idle)  n == Len(s) + 1
<1>1. /\ Len(s) \in Nat /\ Len(t) = n /\ t[n] = c
      /\ \A i \in 1..Len(s) : t[i] = s[i] /\ i \in 1..n
      /\ \A i \in 1..n : i = n \/ i \in 1..Len(s)
  BY AppendReg
<1>2. u[n] = Idle /\ \A i \in 1..Len(s) : u[i] = r[i]
  BY AppendReg, RegFields
<1>3. \A i, j \in 1..n : i + 1 = j => (i \in 1..Len(s) /\ (j = n => i = Len(s) /\ s # <<>>))
  BY <1>1
<1> HIDE DEF t, u, n
<1>4. \A i \in 1..Len(t) : t[i].kind # "exec" => t[i].site = "none" /\ u[i] = Idle
  BY <1>1, <1>2 DEF HeldWell
<1>5. \A i \in 1..Len(t) : t[i].site \in {"jsr", "jsr_r_ext"} => u[i].open = <<>>
  BY <1>1, <1>2 DEF HeldWell
<1>6. ASSUME NEW i \in 1..Len(t), NEW j \in 1..Len(t), i + 1 = j, t[i].site = "jsr", t[j].kind = "exec"
      PROVE  u[i] = Idle
  <2>1. i \in 1..Len(s) /\ t[i] = s[i] /\ u[i] = r[i]
    BY <1>1, <1>2, <1>3, <1>6
  <2>2. CASE j = n
    BY <2>1, <2>2, <1>1, <1>3, <1>6
  <2>3. CASE j # n
    <3>1. j \in 1..Len(s) /\ t[j] = s[j]
      BY <2>3, <1>1, <1>6
    <3> QED BY <3>1, <2>1, <1>6 DEF HeldWell
  <2> QED BY <2>2, <2>3
<1> QED BY <1>4, <1>5, <1>6 DEF HeldWell, t, u
(* The running activation, on top of the others. *)
InSite(site) == Act(Top.kind, site, Top.lo, Top.hi, Top.block, Top.prevjb)

LEMMA StackTop ==
  ASSUME CallInv, CxxTypeOK, stack # <<>>
  PROVE  /\ stack \in Seq(Activation) /\ Pop \in Seq(Activation) /\ Top \in Activation
         /\ stack = Append(Pop, Top) /\ Len(Pop) = Len(Below) /\ Len(Pop) = Len(stack) - 1
         /\ Len(stack) \in Nat
         /\ \A site \in Sites : /\ InSite(site) \in Activation /\ InSite(site).kind = Top.kind
                                /\ InSite(site).site = site
                                /\ Waiting(site) = Append(Pop, InSite(site))
<1>1. stack \in Seq(Activation)
  BY DEF CallInv, TypeOK
<1>2. /\ Len(stack) \in Nat /\ Len(stack) > 0 /\ Top \in Activation
      /\ Top.kind \in Kinds /\ Top.lo \in Nat /\ Top.hi \in Nat /\ Top.block \in Nat /\ Top.prevjb \in Nat
  BY <1>1, TopFacts
<1>3. Pop \in Seq(Activation) /\ stack = Append(Pop, Top) /\ Len(Pop) = Len(stack) - 1
  BY <1>1, <1>2, SplitLast DEF Pop, Top
<1>4. Len(Pop) = Len(Below)
  BY <1>3, MineFacts
<1>5. ASSUME NEW site \in Sites
      PROVE  /\ InSite(site) \in Activation /\ InSite(site).kind = Top.kind /\ InSite(site).site = site
             /\ Waiting(site) = Append(Pop, InSite(site))
  <2>1. InSite(site) \in Activation
    BY <1>2, ActType DEF InSite
  <2>2. InSite(site).kind = Top.kind /\ InSite(site).site = site
    BY DEF InSite, Act
  <2>3. Waiting(site) = Append(Pop, InSite(site))
    BY <1>1, <1>2, <2>1, ReplaceLast DEF Waiting, Pop, InSite
  <2> QED BY <2>1, <2>2, <2>3
<1> QED BY <1>1, <1>2, <1>3, <1>4, <1>5

LEMMA EnterWaits ==
  ASSUME CallInv, CxxTypeOK, Waits, CxxEnter
  PROVE  Waits'
<1>1. regs' = Append(Append(regs, Idle), Idle)
  BY EnterRegs
<1>2. PICK block \in Blocks, kind \in {"exec", "ext"} : MayCall /\ Enter(block, kind)
  BY DEF CxxEnter, CallWithStash, CallWithNewStack, CallInv, TypeOK
<1> DEFINE c == Act("call", "none", 0, 0, block, iu_err_jmpbuf)
           d == Act(kind, "none", 0, 0, block, NULL)
<1>3. /\ stack \in Seq(Activation) /\ regs \in Seq(Reg) /\ Len(regs) = Len(stack)
      /\ Len(stack) \in Nat /\ Len(regs) \in Nat /\ Idle \in Reg
  BY LenProperties, RegFields DEF CallInv, TypeOK, CxxTypeOK
<1>4. stack' = stack \o <<c, d>> /\ UNCHANGED <<pending, jumped>> /\ pending = RUN
  BY <1>2 DEF Enter, MayCall
<1>5. block \in Nat /\ iu_err_jmpbuf \in Nat
  BY VmAssumption DEF CallInv, TypeOK
<1>6. c \in Activation /\ c.kind = "call" /\ c.site = "none"
  BY <1>5 DEF Act, Activation, Kinds, Sites
<1>7. d \in Activation /\ d.site = "none"
  BY <1>5 DEF Act, Activation, Kinds, Sites, NULL
<1> HIDE DEF c, d
<1>8. stack' = Append(Append(stack, c), d)
  BY <1>3, <1>4, <1>6, <1>7
<1> DEFINE t == Append(stack, c)  u == Append(regs, Idle)
<1>9. /\ t \in Seq(Activation) /\ u \in Seq(Reg) /\ Len(u) = Len(t) /\ t[Len(t)] = c /\ u[Len(t)] = Idle
  BY <1>3, <1>6, AppendReg
<1>10. HeldWell(t, u)
  BY <1>3, <1>6, WaitsPush DEF Waits
<1> HIDE DEF t, u
<1>11. HeldWell(Append(t, d), Append(u, Idle))
  BY <1>6, <1>7, <1>9, <1>10, WaitsPush
<1>12. HeldWell(stack', regs')
  BY <1>1, <1>8, <1>11 DEF t, u
<1>13. stack'[Len(stack')] = d
  BY <1>7, <1>8, <1>9, AppendReg DEF t
<1> QED BY <1>4, <1>7, <1>12, <1>13 DEF Waits, Top, RUN

LEMMA CallsWaits ==
  ASSUME CallInv, CxxTypeOK, Waits, CxxCalls
  PROVE  Waits'
<1>1. regs' = Append(regs, Idle)
  BY CallsRegs
<1>2. /\ stack # <<>> /\ Top.kind = "exec" /\ pending = RUN
      /\ Top.lo \in Nat /\ Top.hi \in Nat /\ Top.block \in Nat /\ stack \in Seq(Activation)
  BY TopFacts DEF CxxCalls, ExecCalls, ExecCallsExt, Running, CallInv, TypeOK
<1>3. PICK site \in Sites, kind \in {"exec", "ext"} :
        /\ stack' = Append(Waiting(site), Act(kind, "none", Top.hi, Top.hi, Top.block, NULL))
        /\ UNCHANGED <<pending, jumped>>
        /\ site \in {"jsr", "jsr_r_ext"} => Mine.open = <<>>
        /\ site = "jsr" /\ kind = "exec" => Mine = Idle
  <2>1. CASE ExecCalls("jsr") /\ Mine = Idle
    BY <2>1, RegFields DEF ExecCalls, CalleeAlloca, Sites
  <2>2. CASE ExecCalls("invoke")
    BY <2>2 DEF ExecCalls, CalleeAlloca, Sites
  <2>3. CASE \E site \in {"jsr", "jsr_r_ext"} : ExecCallsExt(site) /\ Mine.open = <<>>
    BY <2>3 DEF ExecCallsExt, Sites
  <2>4. CASE ExecCallsExt("invoke")
    BY <2>4 DEF ExecCallsExt, Sites
  <2> QED BY <2>1, <2>2, <2>3, <2>4 DEF CxxCalls
<1> DEFINE d == Act(kind, "none", Top.hi, Top.hi, Top.block, NULL)
           t == Append(Pop, InSite(site))
<1>4. d \in Activation /\ d.site = "none" /\ d.kind = kind
  BY <1>2 DEF Act, Activation, Kinds, Sites, NULL
<1>5. /\ Below \in Seq(Reg) /\ Mine \in Reg /\ regs = Append(Below, Mine) /\ regs \in Seq(Reg)
      /\ Len(Pop) = Len(Below) /\ Pop \in Seq(Activation) /\ stack = Append(Pop, Top) /\ Top \in Activation
      /\ InSite(site) \in Activation /\ InSite(site).kind = "exec" /\ InSite(site).site = site
      /\ Waiting(site) = t /\ Len(regs) = Len(stack) /\ Len(stack) \in Nat
  BY <1>2, MineFacts, StackTop DEF CxxTypeOK
<1>6. HeldWell(t, regs)
  BY <1>2, <1>3, <1>5, WaitsTop DEF Waits
<1>7. /\ t \in Seq(Activation) /\ Len(t) = Len(regs) /\ t[Len(t)] = InSite(site) /\ regs[Len(t)] = Mine
  BY <1>5, AppendReg DEF Mine
<1> HIDE DEF t, d
<1>8. HeldWell(Append(t, d), Append(regs, Idle))
  BY <1>3, <1>4, <1>5, <1>6, <1>7, WaitsPush
<1>9. stack' = Append(t, d) /\ stack'[Len(stack')] = d
  BY <1>3, <1>4, <1>5, <1>7, AppendReg DEF d
<1> QED BY <1>1, <1>2, <1>3, <1>4, <1>8, <1>9 DEF Waits, Top, RUN
LEMMA PopWaits ==
  ASSUME CallInv, CxxTypeOK, Waits, stack # <<>>, stack' = Pop, regs' = Below
  PROVE  HeldWell(stack', regs')
<1>1. /\ stack \in Seq(Activation) /\ regs \in Seq(Reg) /\ Len(regs) = Len(stack)
      /\ Len(stack) \in Nat /\ Len(stack) >= 1
  BY TopFacts DEF CallInv, TypeOK, CxxTypeOK
<1>2. Len(stack) - 1 \in Nat /\ Len(stack) - 1 <= Len(stack)
  BY <1>1
<1>3. HeldWell(SubSeq(stack, 1, Len(stack) - 1), SubSeq(regs, 1, Len(stack) - 1))
  BY <1>1, <1>2, WaitsCut DEF Waits
<1> QED BY <1>1, <1>3 DEF Pop, Below

(* The activation below the one that ends. *)
LEMMA NextDown ==
  ASSUME CallInv, CxxTypeOK, stack # <<>>, stack' = Pop, stack' # <<>>
  PROVE  /\ Len(stack) - 1 \in 1..Len(stack) /\ Len(stack) \in 1..Len(stack)
         /\ (Len(stack) - 1) + 1 = Len(stack) /\ Len(stack) \in 2..Len(stack)
         /\ Top' = stack[Len(stack) - 1] /\ Len(stack') = Len(stack) - 1
         /\ Len(stack) - 1 \in 1..Len(Below)
<1>1. /\ stack \in Seq(Activation) /\ Pop \in Seq(Activation) /\ Len(Pop) = Len(stack) - 1
      /\ Len(stack) \in Nat /\ Len(stack) >= 1 /\ Len(Pop) = Len(Below)
  BY StackTop, TopFacts
<1>2. Len(Pop) # 0
  BY <1>1
<1>3. Len(stack) - 1 \in 1..(Len(stack) - 1) /\ Len(stack) - 1 \in 1..Len(stack)
      /\ Len(stack) - 1 <= Len(stack) /\ Len(stack) - 1 \in Nat
  BY <1>1, <1>2
<1>4. Pop[Len(stack) - 1] = stack[Len(stack) - 1]
  BY <1>1, <1>3 DEF Pop
<1> QED BY <1>1, <1>3, <1>4 DEF Top

(* An exception leaves a function that was called by guest code. *)
LEMMA UnwindWaits ==
  ASSUME CallInv, CallInv', CxxTypeOK, Waits, stack # <<>>, stack' = Pop, regs' = Below,
         Top.kind = "exec", pending' # RUN
  PROVE  Waits'
<1>1. HeldWell(stack', regs')
  BY PopWaits
<1>2. stack' # <<>>
  BY DEF CallInv, Nesting
<1>3. ASSUME Top'.site = "jsr" PROVE Mine' = Idle
  <2> DEFINE n == Len(stack) - 1
  <2>1. /\ n \in 1..Len(stack) /\ n + 1 = Len(stack) /\ Len(stack) \in 1..Len(stack)
        /\ Top' = stack[n]
    BY <1>2, NextDown
  <2>2. regs[n] = Idle
    BY <2>1, <1>3 DEF Waits, HeldWell, Top
  <2>3. Len(Below) = Len(regs) - 1 /\ Len(regs) = Len(stack) /\ n \in 1..Len(Below)
    BY <1>2, MineFacts, NextDown
  <2>4. Below[n] = regs[n]
    BY <2>1, <2>3 DEF Below, CxxTypeOK
  <2> QED BY <2>2, <2>3, <2>4 DEF Mine
<1> QED BY <1>1, <1>3 DEF Waits

LEMMA ReturnWaits ==
  ASSUME CallInv, CxxTypeOK, Waits, CxxReturns \/ CxxCallReturns
  PROVE  Waits'
<1>1. stack # <<>> /\ stack' = Pop /\ regs' = Below
  BY DEF CxxReturns, Returns, CxxCallReturns, CallReturns, CallInv, Nesting
<1>2. HeldWell(stack', regs')
  BY <1>1, PopWaits
<1>3. CASE CxxReturns
  BY <1>2, <1>3 DEF CxxReturns, Returns, Waits, RUN
<1>4. CASE CxxCallReturns
  <2>1. pending' = RUN /\ Top.kind = "call"
    BY <1>4 DEF CxxCallReturns, CallReturns
  <2>2. ASSUME stack' # <<>> PROVE Top'.site = "none"
    <3>1. Len(stack) - 1 \in 1..Len(stack) /\ Len(stack) \in 2..Len(stack) /\ Top' = stack[Len(stack) - 1]
      BY <1>1, <2>2, NextDown
    <3>2. stack[Len(stack) - 1].kind = "ext"
      BY <3>1, <2>1 DEF CallInv, Nesting, Top
    <3> QED BY <3>1, <3>2 DEF Waits, HeldWell
  <2> QED BY <1>2, <2>1, <2>2 DEF Waits, RUN
<1> QED BY <1>3, <1>4

LEMMA StopWaits ==
  ASSUME CallInv, CxxTypeOK, Waits, CxxStop
  PROVE  Waits'
<1>1. /\ iu_err_jmpbuf \in 1..Len(regs) /\ regs' = SubSeq(regs, 1, iu_err_jmpbuf)
      /\ stack' = SubSeq(stack, 1, iu_err_jmpbuf) /\ pending' # RUN /\ jumped' = TRUE
  BY StopRegs
<1>2. /\ stack \in Seq(Activation) /\ regs \in Seq(Reg) /\ Len(regs) = Len(stack) /\ Len(stack) \in Nat
  BY LenProperties DEF CallInv, TypeOK, CxxTypeOK
<1>3. iu_err_jmpbuf \in Nat /\ iu_err_jmpbuf <= Len(stack)
  BY <1>1, <1>2
<1>4. HeldWell(stack', regs')
  BY <1>1, <1>2, <1>3, WaitsCut DEF Waits
<1> QED BY <1>1, <1>4 DEF Waits

(* The running activation goes on, with y. *)
LEMMA GoesOnWaits ==
  ASSUME CallInv, CxxTypeOK, Waits, stack # <<>>, Top.kind = "exec", pending' = RUN,
         NEW y \in Reg, regs' = Append(Below, y),
         stack' = Waiting("none") \/ (pending = RUN /\ UNCHANGED stack)
  PROVE  Waits'
<1>1. /\ Below \in Seq(Reg) /\ Mine \in Reg /\ regs = Append(Below, Mine)
      /\ Len(Pop) = Len(Below) /\ Pop \in Seq(Activation) /\ stack = Append(Pop, Top) /\ Top \in Activation
  BY MineFacts, StackTop
<1>2. PICK c \in Activation : stack' = Append(Pop, c) /\ c.kind = "exec" /\ c.site = "none"
  <2>1. "none" \in Sites
    BY DEF Sites
  <2>2. CASE stack' = Waiting("none")
    BY <2>1, <2>2, StackTop
  <2>3. CASE pending = RUN /\ UNCHANGED stack
    <3>1. Top.site = "none" /\ stack' = Append(Pop, Top)
      BY <2>3, <1>1 DEF Waits
    <3> QED BY <3>1, <1>1
  <2> QED BY <2>2, <2>3
<1>3. HeldWell(stack', regs')
  BY <1>1, <1>2, WaitsTop DEF Waits
<1>4. stack'[Len(stack')] = c
  BY <1>1, <1>2, AppendReg
<1> QED BY <1>2, <1>3, <1>4 DEF Waits, Top, RUN

LEMMA ThrowWaits ==
  ASSUME CallInv, CallInv', CxxTypeOK, Waits, NEW e, Throw(FALSE, e)
  PROVE  Waits'
<1> DEFINE caller == regs[Len(regs) - 1]
           y      == [caller EXCEPT !.new = NULL]
           q      == SubSeq(Below, 1, Len(Below) - 1)
           b      == SubSeq(Pop, 1, Len(Pop) - 1)
           a      == stack[Len(stack) - 1]
<1>1. /\ stack # <<>> /\ stack' = Pop /\ Len(regs) >= 2 /\ caller \in Reg /\ q \in Seq(Reg)
      /\ Len(q) = Len(regs) - 2 /\ Below = Append(q, caller) /\ regs' = Append(q, y) /\ a.kind = "exec"
  BY ThrowRegs
<1>2. pending' = 1
  BY DEF Throw, Throws
<1>3. stack' # <<>>
  BY <1>2 DEF CallInv, Nesting, RUN
<1>4. /\ Top' = a /\ Len(stack) - 1 \in 1..Len(stack) /\ Len(Pop) = Len(stack) - 1
      /\ Pop \in Seq(Activation) /\ Len(stack) \in Nat /\ Len(regs) = Len(stack)
  BY <1>1, <1>3, NextDown, StackTop DEF CxxTypeOK
<1>5. Pop[Len(Pop)] = a
  BY <1>1, <1>4 DEF Top
<1>6. b \in Seq(Activation) /\ a \in Activation /\ Pop = Append(b, a) /\ Len(b) = Len(q)
  <2>1. Len(Pop) > 0
    BY <1>1, <1>4
  <2>2. b \in Seq(Activation) /\ Pop[Len(Pop)] \in Activation /\ Pop = Append(b, Pop[Len(Pop)]) /\ Len(b) = Len(Pop) - 1
    BY <2>1, <1>4, SplitLast
  <2> HIDE DEF b, a, q
  <2> QED BY <2>2, <1>1, <1>4, <1>5
<1>7. HeldWell(Pop, Below)
  <2>1. Len(stack) - 1 \in Nat /\ Len(stack) - 1 <= Len(stack) /\ stack \in Seq(Activation) /\ regs \in Seq(Reg)
    BY <1>1, <1>4 DEF CallInv, TypeOK, CxxTypeOK
  <2>2. HeldWell(SubSeq(stack, 1, Len(stack) - 1), SubSeq(regs, 1, Len(stack) - 1))
    BY <1>4, <2>1, WaitsCut DEF Waits
  <2> QED BY <2>2, <1>4 DEF Pop, Below
<1>8. y \in Reg /\ y.new = NULL /\ y.open = caller.open
  <2>1. NULL \in Addresses
    BY DEF Addresses
  <2> QED BY <1>1, <2>1, SetNew
<1>9. a.site \in {"jsr", "jsr_r_ext"} => y.open = <<>>
  BY <1>4, <1>8 DEF Waits, HeldWell
<1>10. ASSUME a.site = "jsr" PROVE y = Idle
  BY <1>8, <1>9, <1>10 DEF Reg, Idle
<1> HIDE DEF caller, y, q, b, a
<1>11. HeldWell(Append(b, a), Append(q, y))
  <2>1. HeldWell(Append(b, a), Append(q, caller))
    BY <1>1, <1>6, <1>7
  <2> QED BY <2>1, <1>1, <1>6, <1>8, <1>9, WaitsTop
<1>12. HeldWell(stack', regs')
  BY <1>1, <1>6, <1>11
<1>13. Mine' = y
  BY <1>1, <1>8, AppendReg DEF Mine
<1> QED BY <1>2, <1>4, <1>10, <1>12, <1>13 DEF Waits, RUN
LEMMA NextWaits ==
  ASSUME TRUE \notin Rethrows, CallInv, CallInv', CxxTypeOK, Waits, [CxxStep]_cxxvars
  PROVE  Waits'
<1>1. CASE CxxEnter
  BY <1>1, EnterWaits
<1>2. CASE CxxCalls
  BY <1>2, CallsWaits
<1>3. CASE CxxReturns \/ CxxCallReturns
  BY <1>3, ReturnWaits
<1>4. CASE CxxPropagates
  <2>1. stack # <<>> /\ stack' = Pop /\ regs' = Below /\ Top.kind = "exec" /\ pending' # RUN
    BY <1>4 DEF CxxPropagates, JsrPropagates, CallInv, Nesting, RUN
  <2> QED BY <2>1, UnwindWaits
<1>5. CASE CxxContinues
  <2>1. /\ stack' = Waiting("none") /\ stack # <<>> /\ pending' = RUN /\ Top.kind = "exec" /\ regs' = regs
    BY <1>5, ContinuesFacts DEF cxx
  <2>2. Mine \in Reg /\ regs' = Append(Below, Mine)
    BY <2>1, MineFacts
  <2> QED BY <2>1, <2>2, GoesOnWaits
<1>6. CASE CxxStop
  BY <1>6, StopWaits
<1>7. ASSUME NEW e \in Exceptions, Allocate(e) PROVE Waits'
  <2>1. UNCHANGED stack /\ pending' = RUN
    BY <1>7, AllocateRegs DEF Allocate, vars
  <2> QED BY <1>7, <2>1, AllocateRegs, GoesOnWaits
<1>8. CASE FreeNew
  <2>1. UNCHANGED stack /\ pending' = RUN
    BY <1>8, FreeNewRegs DEF FreeNew, vars
  <2> QED BY <1>8, <2>1, FreeNewRegs, GoesOnWaits
<1>9. ASSUME NEW again \in Rethrows, NEW e \in Addresses, Throw(again, e) PROVE Waits'
  <2>1. again = FALSE
    BY <1>9, CxxAssumption
  <2> QED BY <1>9, <2>1, ThrowWaits
<1>10. CASE LandingPad
  BY <1>10, LandingPadRegs, GoesOnWaits
<1>11. CASE Resume
  <2>1. stack # <<>> /\ stack' = Pop /\ regs' = Below /\ Top.kind = "exec" /\ pending' # RUN
    BY <1>11, ResumeRegs DEF RUN
  <2> QED BY <2>1, UnwindWaits
<1>12. CASE BeginCatch
  <2>1. UNCHANGED stack /\ pending' = RUN
    BY <1>12, BeginCatchRegs DEF BeginCatch, vars
  <2> QED BY <1>12, <2>1, BeginCatchRegs, GoesOnWaits
<1>13. CASE EndCatch
  <2>1. UNCHANGED stack /\ pending' = RUN
    BY <1>13, EndCatchRegs DEF EndCatch, vars
  <2> QED BY <1>13, <2>1, EndCatchRegs, GoesOnWaits
<1>14. CASE UNCHANGED cxxvars
  BY <1>14 DEF cxxvars, vars, cxx, Waits, Top, Mine
<1> QED BY <1>1, <1>2, <1>3, <1>4, <1>5, <1>6, <1>7, <1>8, <1>9, <1>10, <1>11, <1>12, <1>13, <1>14 DEF CxxStep

-----------------------------------------------------------------------------
(* Where exceptions are *)

(* Activations end or begin, and nothing else happens. *)
LEMMA SamePlaced ==
  ASSUME Placed, Within(regs', regs), UNCHANGED header, UNCHANGED iu_exception, ~flying' \/ UNCHANGED flying
  PROVE  Placed'
<1>1. Unique(regs') /\ Fits(regs', header) /\ Flies(regs', header, Flight)
  BY WithinKeeps DEF Placed
<1>2. PICK c \in Seq(Exceptions) : Chain(c, header, iu_exception.caught) /\ Ordered(regs, c)
  BY DEF Placed, Listed
<1>3. Ordered(regs', c)
  BY <1>2, WithinKeeps
<1>4. Flies(regs', header', Flight')
  BY <1>1 DEF Flies, Flight
<1>5. Listed(regs', header', iu_exception'.caught)
  BY <1>2, <1>3 DEF Listed
<1> QED BY <1>1, <1>4, <1>5 DEF Placed

LEMMA WithinTrans ==
  ASSUME NEW r, NEW s, NEW t, Within(t, s), Within(s, r)
  PROVE  Within(t, r)
BY DEF Within

LEMMA WithinSelf ==
  ASSUME NEW r
  PROVE  Within(r, r)
BY DEF Within

LEMMA CallsPlaced ==
  ASSUME CallInv, CxxTypeOK, Placed,
         \/ CxxEnter \/ CxxCalls \/ CxxReturns \/ CxxPropagates \/ CxxContinues
         \/ CxxCallReturns \/ CxxStop \/ UNCHANGED cxxvars
  PROVE  Placed'
<1>1. CASE CxxEnter
  <2>1. Append(regs, Idle) \in Seq(Reg) /\ regs \in Seq(Reg)
    BY AppendReg, RegFields DEF CxxTypeOK
  <2>2. Within(Append(regs, Idle), regs) /\ Within(Append(Append(regs, Idle), Idle), Append(regs, Idle))
    BY <2>1, PushIdle
  <2>3. Within(regs', regs)
    BY <1>1, <2>2, EnterRegs, WithinTrans
  <2> QED BY <1>1, <2>3, EnterRegs, SamePlaced
<1>2. CASE CxxCalls
  <2>1. Within(regs', regs)
    BY <1>2, CallsRegs, PushIdle DEF CxxTypeOK
  <2> QED BY <1>2, <2>1, CallsRegs, SamePlaced
<1>3. CASE CxxReturns \/ CxxPropagates \/ CxxCallReturns
  <2>1. stack # <<>> /\ stack' = Pop /\ regs' = Below /\ UNCHANGED <<header, iu_exception>>
    BY <1>3 DEF CxxReturns, Returns, CxxCallReturns, CallReturns, CxxPropagates, JsrPropagates,
                CallInv, Nesting, RUN
  <2>2. ~flying' \/ UNCHANGED flying
    BY <1>3 DEF CxxReturns, Returns, CxxCallReturns, CallReturns, CxxPropagates, JsrPropagates
  <2> QED BY <2>1, <2>2, PopRegs, SamePlaced
<1>4. CASE CxxContinues \/ UNCHANGED cxxvars
  <2>1. UNCHANGED <<regs, header, iu_exception, flying>>
    BY <1>4, ContinuesFacts DEF cxx, cxxvars, vars
  <2>2. Within(regs', regs)
    BY <2>1, WithinSelf
  <2> QED BY <2>1, <2>2, SamePlaced
<1>5. CASE CxxStop
  BY <1>5, StopRegs, SamePlaced
<1> QED BY <1>1, <1>2, <1>3, <1>4, <1>5
LEMMA TopPlace ==
  ASSUME NEW b \in Seq(Reg), NEW x \in Reg, NEW j
  PROVE  /\ IsPlace(Append(b, x), Len(b) + 1, j) <=> j \in 0..Len(x.open) /\ (j = 0 => x.new # NULL)
         /\ At(Append(b, x), Len(b) + 1, j) = IF j = 0 THEN x.new ELSE x.open[j].exc
         /\ Caught(Append(b, x), Len(b) + 1, j) <=> j # 0 /\ x.open[j].role = "handler"
         /\ ~IsPlace(b, Len(b) + 1, j)
<1>1. /\ Len(Append(b, x)) = Len(b) + 1 /\ Append(b, x)[Len(b) + 1] = x
      /\ Len(b) + 1 \in 1..(Len(b) + 1) /\ Len(b) + 1 \notin 1..Len(b)
  BY AppendReg
<1>2. Len(b) + 1 \in 1..Len(Append(b, x))
  BY <1>1
<1> QED BY <1>1, <1>2 DEF IsPlace, At, Caught

(* While guest code runs, no exception is in flight. *)
LEMMA NoFlight ==
  ASSUME FlightInv, pending = RUN
  PROVE  ~flying /\ Flight = {}
BY DEF FlightInv, ExceptionUnwinds, Flight, RUN

LEMMA AllocatePlaced ==
  ASSUME CallInv, CxxTypeOK, FlightInv, Placed, NEW e \in Exceptions, Allocate(e)
  PROVE  Placed'
<1> DEFINE y == [Mine EXCEPT !.new = e]
<1>1. /\ stack # <<>> /\ pending = RUN /\ Mine.new = NULL /\ y \in Reg /\ regs' = Append(Below, y)
  BY AllocateRegs
<1>2. /\ Below \in Seq(Reg) /\ Mine \in Reg /\ regs = Append(Below, Mine)
  BY <1>1, MineFacts
<1>3. y.new = e /\ y.open = Mine.open
  BY <1>2, SetNew DEF Addresses
<1>4. HeaderIs(e, FreshHeader) /\ ~header[e].alloc /\ UNCHANGED <<iu_exception, carried, lost, flying>>
  BY AllocateHeader
<1>5. /\ header'[e] = FreshHeader /\ \A a \in Exceptions : a # e => header'[a] = header[a]
  BY <1>4, FreshHeaderType, HeaderUpdate DEF Addresses
<1>6. ~flying /\ Flight' = {}
  BY <1>1, <1>4, NoFlight DEF Flight
<1>7. Fresh(regs, e)
  BY <1>4 DEF Placed, Fits, Fresh
<1> HIDE DEF y
<1>8. /\ Grown(regs', regs, Len(Below) + 1, 0, e) /\ ~Caught(regs', Len(Below) + 1, 0)
  BY <1>1, <1>2, <1>3, TopGrowsNew
<1>9. PICK c \in Seq(Exceptions) : Chain(c, header, iu_exception.caught) /\ Ordered(regs, c)
  BY DEF Placed, Listed
<1>10. \A p \in 1..Len(c) : c[p] # e
  BY <1>4, <1>9 DEF Chain
<1>11. Fits(regs, header') /\ Chain(c, header', iu_exception.caught)
  BY <1>5, <1>7, <1>9, <1>10, HeaderElse DEF Placed
<1>12. Unique(regs') /\ Fits(regs', header') /\ Ordered(regs', c)
  BY <1>5, <1>7, <1>8, <1>9, <1>11, FreshHeaderType, GrownKeeps DEF Placed
<1>13. Listed(regs', header', iu_exception'.caught)
  BY <1>4, <1>11, <1>12 DEF Listed
<1> QED BY <1>6, <1>12, <1>13 DEF Placed, Flies

LEMMA FreeNewPlaced ==
  ASSUME CallInv, CxxTypeOK, FlightInv, Placed, FreeNew
  PROVE  Placed'
<1> DEFINE y == [Mine EXCEPT !.new = NULL]  a == Mine.new  n == Len(Below) + 1
<1>1. /\ stack # <<>> /\ pending = RUN /\ a # NULL /\ y \in Reg /\ regs' = Append(Below, y)
  BY FreeNewRegs
<1>2. /\ Below \in Seq(Reg) /\ Mine \in Reg /\ regs = Append(Below, Mine) /\ a \in Addresses
      /\ Len(Mine.open) \in Nat
  BY <1>1, MineFacts
<1>3. y.new = NULL /\ y.open = Mine.open
  BY <1>2, SetNew DEF Addresses
<1>4. HeaderIs(a, FreedHeader(a)) /\ UNCHANGED <<iu_exception, carried, lost, flying>>
  BY FreeNewHeader
<1>5. \A d \in Exceptions : d # a => header'[d] = header[d]
  BY <1>2, <1>4, FreedHeaderType, HeaderUpdate DEF Addresses
<1>6. ~flying /\ Flight' = {}
  BY <1>1, <1>4, NoFlight DEF Flight
<1>7. IsPlace(regs, n, 0) /\ At(regs, n, 0) = a /\ ~Caught(regs, n, 0)
  <2>1. 0 \in 0..Len(Mine.open)
    BY <1>2
  <2> QED BY <2>1, <1>1, <1>2, TopPlace
<1>8. ~IsPlace(regs', n, 0)
  BY <1>1, <1>2, <1>3, TopPlace
<1>9. header[a].handlers = 0
  BY <1>7 DEF Placed, Fits
<1> HIDE DEF y, a, n
<1>10. Within(regs', regs)
  BY <1>1, <1>2, <1>3, TopShrinks
<1>11. Fresh(regs', a)
  BY <1>7, <1>8, <1>10, TakenOut DEF Placed
<1>12. PICK c \in Seq(Exceptions) : Chain(c, header, iu_exception.caught) /\ Ordered(regs, c)
  BY DEF Placed, Listed
<1>13. \A p \in 1..Len(c) : c[p] # a
  BY <1>9, <1>12 DEF Chain
<1>14. Unique(regs') /\ Fits(regs', header) /\ Ordered(regs', c)
  BY <1>10, <1>12, WithinKeeps DEF Placed
<1>15. Fits(regs', header') /\ Chain(c, header', iu_exception.caught)
  BY <1>5, <1>11, <1>12, <1>13, <1>14, HeaderElse
<1>16. Listed(regs', header', iu_exception'.caught)
  BY <1>4, <1>14, <1>15 DEF Listed
<1> QED BY <1>6, <1>14, <1>15, <1>16 DEF Placed, Flies

(* An exception leaves the place <<i, j>> and is in flight. *)
LEMMA FlightPlaced ==
  ASSUME Placed, Within(regs', regs), UNCHANGED header, iu_exception'.caught = iu_exception.caught,
         NEW i, NEW j, IsPlace(regs, i, j), ~Caught(regs, i, j), ~IsPlace(regs', i, j),
         iu_exception'.exception = At(regs, i, j), flying' = TRUE
  PROVE  Placed'
<1> DEFINE e == At(regs, i, j)
<1>1. Unique(regs') /\ Fits(regs', header)
  BY WithinKeeps DEF Placed
<1>2. PICK c \in Seq(Exceptions) : Chain(c, header, iu_exception.caught) /\ Ordered(regs, c)
  BY DEF Placed, Listed
<1>3. Ordered(regs', c)
  BY <1>2, WithinKeeps
<1>4. e \in Exceptions /\ header[e].alloc /\ header[e].handlers = 0
  BY DEF Placed, Fits
<1>5. Fresh(regs', e)
  BY TakenOut DEF Placed
<1>6. Flight' = {e}
  BY DEF Flight
<1> HIDE DEF e
<1>7. Flies(regs', header', Flight')
  BY <1>4, <1>5, <1>6 DEF Flies
<1>8. Listed(regs', header', iu_exception'.caught)
  BY <1>2, <1>3 DEF Listed
<1> QED BY <1>1, <1>7, <1>8 DEF Placed

LEMMA ThrowPlaced ==
  ASSUME CallInv, CxxTypeOK, Placed, NEW e, Throw(FALSE, e)
  PROVE  Placed'
<1> DEFINE caller == regs[Len(regs) - 1]
           y      == [caller EXCEPT !.new = NULL]
           q      == SubSeq(Below, 1, Len(Below) - 1)
           n      == Len(q) + 1
<1>1. /\ Len(regs) >= 2 /\ caller \in Reg /\ q \in Seq(Reg) /\ Len(q) = Len(regs) - 2
      /\ Below = Append(q, caller) /\ regs' = Append(q, y) /\ e # NULL /\ caller.new = e
      /\ Below \in Seq(Reg) /\ Len(Below) = Len(regs) - 1
      /\ iu_exception' = [iu_exception EXCEPT !.exception = e, !.uncaught = @ + 1]
      /\ flying' = TRUE /\ UNCHANGED header
  BY ThrowRegs
<1>2. y \in Reg /\ y.new = NULL /\ y.open = caller.open
  <2>1. NULL \in Addresses
    BY DEF Addresses
  <2> QED BY <1>1, <2>1, SetNew
<1>3. iu_exception'.exception = e /\ iu_exception'.caught = iu_exception.caught
  <2>1. iu_exception \in UnitState
    BY UnitFields
  <2> QED BY <1>1, <2>1 DEF UnitState
<1>4. regs \in Seq(Reg) /\ Len(regs) \in Nat /\ Len(caller.open) \in Nat
  BY <1>1, LenProperties DEF CxxTypeOK, Reg
<1> HIDE DEF caller, y, q
<1>5. Within(Below, regs)
  <2>1. Len(regs) - 1 \in Nat /\ Len(regs) - 1 <= Len(regs)
    BY <1>1, <1>4
  <2> QED BY <2>1, <1>4, PrefixWithin DEF Below
<1>6. Within(regs', Below)
  <2>1. Len(y.open) <= Len(caller.open)
    BY <1>2, <1>4
  <2> QED BY <1>1, <1>2, <2>1, TopShrinks
<1>7. Within(regs', regs)
  BY <1>5, <1>6, WithinTrans
<1>8. IsPlace(Below, n, 0) /\ At(Below, n, 0) = e /\ ~Caught(Below, n, 0)
  <2>1. 0 \in 0..Len(caller.open)
    BY <1>4
  <2> QED BY <2>1, <1>1, TopPlace
<1>9. ~IsPlace(regs', n, 0)
  BY <1>1, <1>2, TopPlace
<1>10. IsPlace(regs, n, 0) /\ At(regs, n, 0) = e /\ ~Caught(regs, n, 0)
  BY <1>5, <1>8 DEF Within
<1> QED BY <1>1, <1>3, <1>7, <1>9, <1>10, FlightPlaced

LEMMA ResumePlaced ==
  ASSUME CallInv, CxxTypeOK, Placed, Resume
  PROVE  Placed'
<1> DEFINE n == Len(Below) + 1  e == Mine.open[1].exc
<1>1. /\ stack # <<>> /\ Len(Mine.open) = 1 /\ Mine.open[1].role = "pad"
      /\ iu_exception' = [iu_exception EXCEPT !.exception = e]
      /\ stack' = Pop /\ regs' = Below /\ flying' = TRUE
  BY ResumeRegs
<1>2. UNCHANGED header
  BY DEF Resume
<1>3. iu_exception'.exception = e /\ iu_exception'.caught = iu_exception.caught
  <2>1. iu_exception \in UnitState
    BY UnitFields
  <2> QED BY <1>1, <2>1 DEF UnitState
<1>4. /\ Below \in Seq(Reg) /\ Mine \in Reg /\ regs = Append(Below, Mine)
  BY <1>1, MineFacts
<1>5. Within(regs', regs)
  BY <1>1, PopRegs
<1>6. IsPlace(regs, n, 1) /\ At(regs, n, 1) = e /\ ~Caught(regs, n, 1)
  <2>1. 1 \in 0..Len(Mine.open) /\ 1 # 0 /\ "pad" # "handler"
    BY <1>1
  <2> QED BY <2>1, <1>1, <1>4, TopPlace
<1>7. ~IsPlace(regs', n, 1)
  BY <1>1, <1>4, TopPlace
<1> QED BY <1>1, <1>2, <1>3, <1>5, <1>6, <1>7, FlightPlaced

LEMMA LandingPadPlaced ==
  ASSUME CallInv, CxxTypeOK, FlightInv, Placed, LandingPad
  PROVE  Placed'
<1> DEFINE n == Len(Below) + 1  y == [Mine EXCEPT !.open = Append(Mine.open, Landed)]
           m == Len(Mine.open) + 1  e == iu_exception.exception
<1>1. /\ stack # <<>> /\ pending = 1 /\ Top.kind = "exec" /\ flying' = FALSE
      /\ Landed \in Entry /\ Landed.role = "pad" /\ Landed.exc = e
      /\ y \in Reg /\ y.new = Mine.new /\ y.open = Append(Mine.open, Landed) /\ regs' = Append(Below, y)
  BY LandingPadRegs
<1>2. UNCHANGED <<header, iu_exception>>
  BY DEF LandingPad
<1>3. flying
  BY <1>1 DEF FlightInv, ExceptionUnwinds
<1>4. e \in Exceptions /\ header[e].alloc /\ header[e].handlers = 0 /\ Fresh(regs, e)
  BY <1>3 DEF Placed, Flies, Flight
<1>5. /\ Below \in Seq(Reg) /\ Mine \in Reg /\ regs = Append(Below, Mine)
  BY <1>1, MineFacts
<1> HIDE DEF y
<1>6. Grown(regs', regs, n, m, e) /\ ~Caught(regs', n, m)
  BY <1>1, <1>5, TopGrowsOpen
<1> HIDE DEF n, m, e
<1>7. PICK c \in Seq(Exceptions) : Chain(c, header, iu_exception.caught) /\ Ordered(regs, c)
  BY DEF Placed, Listed
<1>8. Unique(regs') /\ Fits(regs', header') /\ Ordered(regs', c)
  BY <1>2, <1>4, <1>6, <1>7, GrownKeeps DEF Placed
<1>9. Listed(regs', header', iu_exception'.caught)
  BY <1>2, <1>7, <1>8 DEF Listed
<1> QED BY <1>1, <1>8, <1>9 DEF Placed, Flies, Flight
(* begin_catch puts e in front of the list c. *)
LEMMA Linked ==
  ASSUME NEW c \in Seq(Exceptions), NEW h, NEW g, NEW e \in Exceptions, NEW top, Chain(c, h, top),
         \A p \in 1..Len(c) : c[p] # e, \A a \in Exceptions : a # e => g[a] = h[a],
         g[e].next = top, g[e].alloc, g[e].handlers = 1
  PROVE  Chain(<<e>> \o c, g, e)
<1> DEFINE d == <<e>> \o c
<1>1. /\ d \in Seq(Exceptions) /\ Len(d) = Len(c) + 1 /\ Len(c) \in Nat /\ d[1] = e
      /\ \A p \in 1..Len(c) : d[p + 1] = c[p]
      /\ \A p \in 1..Len(d) : p # 1 => p - 1 \in 1..Len(c) /\ d[p] = c[p - 1]
  BY ConsFacts
<1> HIDE DEF d
<1>2. ASSUME NEW p \in 1..Len(d), NEW q \in 1..Len(d), p # q PROVE d[p] # d[q]
  <2>0. \A k \in 1..Len(d) : k # 1 => d[k] # e
    BY <1>1
  <2>1. CASE p = 1
    BY <2>0, <2>1, <1>1, <1>2
  <2>2. CASE q = 1
    BY <2>0, <2>2, <1>1, <1>2
  <2>3. CASE p # 1 /\ q # 1
    <3>1. /\ p - 1 \in 1..Len(c) /\ d[p] = c[p - 1] /\ q - 1 \in 1..Len(c) /\ d[q] = c[q - 1]
      BY <2>3, <1>1
    <3>2. p - 1 # q - 1
      BY <1>1, <1>2
    <3> QED BY <3>1, <3>2 DEF Chain, Distinct
  <2> QED BY <2>1, <2>2, <2>3
<1>3. d # <<>>
  BY <1>1
<1>4. ASSUME NEW p \in 1..Len(d)
      PROVE  /\ g[d[p]].next = (IF p = Len(d) THEN NULL ELSE d[p+1])
             /\ g[d[p]].alloc /\ g[d[p]].handlers = 1
  <2>1. CASE p = 1
    <3>1. CASE Len(c) = 0
      <4>1. c = <<>> /\ p = Len(d)
        BY <3>1, <2>1, <1>1
      <4> QED BY <4>1, <2>1, <1>1 DEF Chain
    <3>2. CASE Len(c) # 0
      <4>1. c # <<>> /\ p # Len(d) /\ 1 \in 1..Len(c)
        BY <3>2, <2>1, <1>1
      <4>2. d[p + 1] = c[1]
        BY <4>1, <2>1, <1>1
      <4> QED BY <4>1, <4>2, <2>1, <1>1 DEF Chain
    <3> QED BY <3>1, <3>2
  <2>2. CASE p # 1
    <3>1. p - 1 \in 1..Len(c) /\ d[p] = c[p - 1] /\ (p = Len(d) <=> p - 1 = Len(c)) /\ (p - 1) + 1 = p
      BY <2>2, <1>1
    <3>2. c[p - 1] \in Exceptions /\ c[p - 1] # e
      BY <3>1, ElementOfSeq
    <3>3. g[d[p]] = h[c[p - 1]]
      BY <3>1, <3>2
    <3>4. p # Len(d) => p \in 1..Len(c)
      BY <1>1
    <3>5. p # Len(d) => d[p + 1] = c[p]
      BY <3>4, <1>1
    <3>6. /\ h[c[p - 1]].next = (IF p - 1 = Len(c) THEN NULL ELSE c[(p - 1) + 1])
          /\ h[c[p - 1]].alloc /\ h[c[p - 1]].handlers = 1
      BY <3>1 DEF Chain
    <3> QED BY <3>1, <3>3, <3>5, <3>6
  <2> QED BY <2>1, <2>2
<1> QED BY <1>1, <1>2, <1>3, <1>4 DEF Chain, Distinct, d

LEMMA BeginCatchPlaced ==
  ASSUME CallInv, CxxTypeOK, FlightInv, Placed, BeginCatch
  PROVE  Placed'
<1> DEFINE o == Mine.open  m == Len(Mine.open)  z == Mine.open[Len(Mine.open)]
           w == [z EXCEPT !.role = "handler"]
           x == [Mine EXCEPT !.open = SubSeq(o, 1, m - 1)]
           y == Handling  n == Len(Below) + 1  e == z.exc
           mid == Append(Below, x)
<1>1. /\ stack # <<>> /\ pending = RUN /\ Mine.new = NULL /\ o # <<>> /\ z.role = "pad"
      /\ y \in Reg /\ y.new = NULL /\ y.open = Append(SubSeq(o, 1, m - 1), w) /\ regs' = Append(Below, y)
  BY BeginCatchRegs
<1>2. /\ Below \in Seq(Reg) /\ Mine \in Reg /\ regs = Append(Below, Mine) /\ o \in Seq(Entry)
  BY <1>1, MineFacts
<1>3. /\ m \in Nat /\ m > 0 /\ m \in 1..m /\ z \in Entry
      /\ SubSeq(o, 1, m - 1) \in Seq(Entry) /\ Len(SubSeq(o, 1, m - 1)) = m - 1
  BY <1>1, <1>2, LastOpenFacts
<1>4. x \in Reg /\ x.new = Mine.new /\ x.open = SubSeq(o, 1, m - 1)
  BY <1>2, <1>3, SetOpen
<1>5. w \in Entry /\ w.exc = e /\ w.role = "handler" /\ e \in Addresses
  BY <1>2, <1>3, EntryFields
<1>6. /\ Len(x.open) = m - 1 /\ Len(x.open) <= m /\ Len(x.open) + 1 = m /\ m # 0
      /\ \A j \in 1..Len(x.open) : x.open[j] = o[j]
  BY <1>2, <1>3, <1>4
<1>7. /\ HeaderIs(e, CaughtHeader(e))
      /\ iu_exception' = [iu_exception EXCEPT !.caught = e,
                             !.uncaught = IF header[e].handlers < 0 THEN @ ELSE @ - 1]
      /\ UNCHANGED <<carried, lost, flying>>
  BY <1>5, BeginCatchHeader DEF LastOpen
<1>8. iu_exception'.caught = e
  <2>1. iu_exception \in UnitState
    BY UnitFields
  <2> QED BY <1>7, <2>1 DEF UnitState
<1>9. /\ IsPlace(regs, n, m) /\ At(regs, n, m) = e /\ ~Caught(regs, n, m)
  <2>1. m \in 0..Len(Mine.open) /\ "pad" # "handler"
    BY <1>3
  <2> QED BY <2>1, <1>1, <1>2, <1>6, TopPlace
<1>10. ~IsPlace(mid, n, m)
  <2>1. m \notin 0..Len(x.open)
    BY <1>3, <1>6
  <2> QED BY <2>1, <1>2, <1>4, TopPlace
<1>11. e \in Exceptions /\ header[e].alloc /\ header[e].handlers = 0
  BY <1>9 DEF Placed, Fits
<1> HIDE DEF x, y, z, w, m, o, n, e, Handling
<1>12. Within(mid, regs)
  BY <1>2, <1>4, <1>6, TopShrinks DEF o, m
<1>13. Fresh(mid, e)
  BY <1>9, <1>10, <1>12, TakenOut DEF Placed
<1>14. /\ header'[e].alloc /\ header'[e].handlers = 1 /\ header'[e].next = iu_exception.caught
       /\ \A a \in Exceptions : a # e => header'[a] = header[a]
  BY <1>5, <1>7, <1>11, CaughtHeaderType, HeaderUpdate DEF Addresses
<1>15. PICK c \in Seq(Exceptions) : Chain(c, header, iu_exception.caught) /\ Ordered(regs, c)
  BY DEF Placed, Listed
<1>16. \A p \in 1..Len(c) : c[p] # e
  BY <1>11, <1>15 DEF Chain
<1>17. Unique(mid) /\ Fits(mid, header) /\ Ordered(mid, c)
  BY <1>12, <1>15, WithinKeeps DEF Placed
<1>18. Fits(mid, header')
  BY <1>13, <1>14, <1>17, HeaderElse
<1>19. /\ Grown(regs', mid, n, m, e) /\ Caught(regs', n, m)
       /\ \A k, l : IsPlace(mid, k, l) => ~Outer(n, m, k, l)
       /\ ~Outer(n, m, n, m)
  <2>1. y.open = Append(x.open, w) /\ y.new = x.new
    BY <1>1, <1>4
  <2>2. /\ Grown(Append(Below, y), mid, Len(Below) + 1, Len(x.open) + 1, w.exc)
        /\ Caught(Append(Below, y), Len(Below) + 1, Len(x.open) + 1) <=> w.role = "handler"
        /\ \A k, l : IsPlace(mid, k, l) => ~Outer(Len(Below) + 1, Len(x.open) + 1, k, l)
        /\ ~Outer(Len(Below) + 1, Len(x.open) + 1, Len(Below) + 1, Len(x.open) + 1)
    BY <2>1, <1>1, <1>2, <1>4, <1>5, TopGrowsOpen
  <2> QED BY <2>2, <1>1, <1>5, <1>6 DEF n
<1> HIDE DEF mid
<1>20. Unique(regs') /\ Fits(regs', header')
  <2>1. header'[e].handlers = IF Caught(regs', n, m) THEN 1 ELSE 0
    BY <1>14, <1>19
  <2>2. /\ Unique(mid) => Unique(regs')
        /\ \A h : Fits(mid, h) /\ h[e].alloc /\ h[e].handlers = (IF Caught(regs', n, m) THEN 1 ELSE 0)
                    => Fits(regs', h)
    BY <1>11, <1>13, <1>19, GrownKeeps
  <2> QED BY <2>1, <2>2, <1>14, <1>17, <1>18
<1>21. Ordered(regs', <<e>> \o c)
  BY <1>11, <1>13, <1>15, <1>16, <1>17, <1>19, GrownCaught
<1>22. Chain(<<e>> \o c, header', e) /\ <<e>> \o c \in Seq(Exceptions)
  <2>1. Chain(<<e>> \o c, header', e)
    BY <1>11, <1>14, <1>15, <1>16, Linked, Zenon
  <2>2. <<e>> \o c \in Seq(Exceptions)
    BY <1>11, <1>15, ConsFacts, Zenon
  <2> QED BY <2>1, <2>2
<1>23. Listed(regs', header', iu_exception'.caught)
  BY <1>8, <1>21, <1>22 DEF Listed
<1>24. Flight' = {}
  BY <1>1, <1>7, NoFlight DEF Flight
<1> QED BY <1>20, <1>23, <1>24 DEF Placed, Flies
(* end_catch takes the head of the list c off it, which nobody holds. *)
LEMMA Unlinking ==
  ASSUME NEW c \in Seq(Exceptions), c # <<>>, NEW h, NEW g, NEW top, Chain(c, h, top),
         \A a \in Exceptions : a # top => g[a] = h[a]
  PROVE  /\ top = c[1] /\ top \in Exceptions /\ h[top].alloc /\ h[top].handlers = 1
         /\ Tail(c) \in Seq(Exceptions) /\ Chain(Tail(c), g, h[top].next)
         /\ \A t : Ordered(t, c) /\ Fresh(t, top) => Ordered(t, Tail(c))
<1> DEFINE d == Tail(c)
<1>1. /\ Len(c) \in Nat /\ Len(c) > 0 /\ 1 \in 1..Len(c) /\ top = c[1]
      /\ d \in Seq(Exceptions) /\ Len(d) = Len(c) - 1 /\ c[1] \in Exceptions
      /\ \A p \in 1..Len(d) : d[p] = c[p + 1]
  BY DEF Chain
<1>2. \A p \in 1..Len(d) : /\ p + 1 \in 1..Len(c) /\ p + 1 # 1 /\ p \in Nat
                           /\ p = Len(d) <=> p + 1 = Len(c)
  BY <1>1
<1>3. \A p \in 1..Len(c) : p # 1 => /\ p - 1 \in 1..Len(d) /\ (p - 1) + 1 = p /\ p \in Nat
  BY <1>1
<1> HIDE DEF d
<1>4. h[top].alloc /\ h[top].handlers = 1 /\ h[top].next = IF Len(c) = 1 THEN NULL ELSE c[2]
  BY <1>1 DEF Chain
<1>5. ASSUME NEW p \in 1..Len(d), NEW q \in 1..Len(d), p # q PROVE d[p] # d[q]
  <2>1. p + 1 # q + 1 /\ p + 1 \in 1..Len(c) /\ q + 1 \in 1..Len(c)
    BY <1>2, <1>5
  <2> QED BY <2>1, <1>1 DEF Chain, Distinct
<1>6. h[top].next = IF d = <<>> THEN NULL ELSE d[1]
  <2>1. CASE Len(c) = 1
    BY <2>1, <1>1, <1>4
  <2>2. CASE Len(c) # 1
    <3>1. 1 \in 1..Len(d) /\ d # <<>> /\ 1 + 1 = 2
      BY <2>2, <1>1
    <3> QED BY <3>1, <2>2, <1>1, <1>4
  <2> QED BY <2>1, <2>2
<1>7. ASSUME NEW p \in 1..Len(d)
      PROVE  /\ g[d[p]].next = (IF p = Len(d) THEN NULL ELSE d[p+1])
             /\ g[d[p]].alloc /\ g[d[p]].handlers = 1
  <2>1. p + 1 \in 1..Len(c) /\ p + 1 # 1 /\ d[p] = c[p + 1]
    BY <1>1, <1>2
  <2>2. c[p + 1] # top /\ c[p + 1] \in Exceptions
    BY <2>1, <1>1, ElementOfSeq DEF Chain, Distinct
  <2>3. g[d[p]] = h[c[p + 1]]
    BY <2>1, <2>2
  <2>4. /\ h[c[p + 1]].next = (IF p + 1 = Len(c) THEN NULL ELSE c[(p + 1) + 1])
        /\ h[c[p + 1]].alloc /\ h[c[p + 1]].handlers = 1
    BY <2>1 DEF Chain
  <2>5. p # Len(d) => p + 1 \in 1..Len(d)
    BY <1>1
  <2>6. p # Len(d) => d[p + 1] = c[(p + 1) + 1]
    BY <2>5, <1>1
  <2> QED BY <2>3, <2>4, <2>6, <1>2
<1>8. ASSUME NEW t, Ordered(t, c), Fresh(t, top) PROVE Ordered(t, d)
  <2>1. ASSUME NEW i, NEW j, IsPlace(t, i, j), Caught(t, i, j)
        PROVE  \E p \in 1..Len(d) : d[p] = At(t, i, j)
    <3>1. PICK p \in 1..Len(c) : c[p] = At(t, i, j)
      BY <2>1, <1>8 DEF Ordered
    <3>2. p # 1
      BY <3>1, <2>1, <1>1, <1>8 DEF Fresh
    <3>3. p - 1 \in 1..Len(d) /\ d[p - 1] = c[p]
      BY <3>2, <1>1, <1>3
    <3> QED BY <3>1, <3>3
  <2>2. ASSUME NEW i, NEW j, NEW k, NEW l, NEW p \in 1..Len(d), NEW q \in 1..Len(d),
               IsPlace(t, i, j), Caught(t, i, j), d[p] = At(t, i, j),
               IsPlace(t, k, l), Caught(t, k, l), d[q] = At(t, k, l),
               Outer(k, l, i, j)
        PROVE  p < q
    <3>1. /\ p + 1 \in 1..Len(c) /\ c[p + 1] = At(t, i, j) /\ q + 1 \in 1..Len(c) /\ c[q + 1] = At(t, k, l)
          /\ p \in Nat /\ q \in Nat
      BY <2>2, <1>1, <1>2
    <3>2. p + 1 < q + 1
      BY <3>1, <2>2, <1>8 DEF Ordered
    <3> QED BY <3>1, <3>2
  <2> QED BY <2>1, <2>2 DEF Ordered
<1> QED BY <1>1, <1>4, <1>5, <1>6, <1>7, <1>8 DEF Chain, Distinct, d

(* What the last activation holds after it has closed its innermost        *)
(* handler, and that the head of the list is not part of it.               *)
LEMMA ClosedPlaces ==
  ASSUME CallInv, CxxTypeOK, Placed, EndCatch,
         NEW c \in Seq(Exceptions), Chain(c, header, iu_exception.caught), Ordered(regs, c)
  PROVE  /\ Unique(regs') /\ Fits(regs', header) /\ Ordered(regs', c)
         /\ c # <<>> /\ Fresh(regs', iu_exception.caught)
<1> DEFINE o == Mine.open  m == Len(Mine.open)  k == Closing  z == Mine.open[Len(Mine.open)]
           x == [Mine EXCEPT !.open = SubSeq(o, 1, k - 1)]
           y == Closed  n == Len(Below) + 1
           mid == Append(Below, x)
<1>1. /\ stack # <<>> /\ Mine.new = NULL /\ k \in 1..m /\ o[k].role = "handler"
      /\ y \in Reg /\ y.new = NULL /\ regs' = Append(Below, y)
      /\ \/ k = m /\ y.open = SubSeq(o, 1, k - 1)
         \/ k = m - 1 /\ z.role = "pad" /\ y.open = Append(SubSeq(o, 1, k - 1), z)
  BY EndCatchRegs
<1>2. /\ Below \in Seq(Reg) /\ Mine \in Reg /\ regs = Append(Below, Mine) /\ o \in Seq(Entry) /\ m \in Nat
      /\ Len(Below) \in Nat /\ regs \in Seq(Reg) /\ Len(regs) = n
  <2>1. /\ Below \in Seq(Reg) /\ Mine \in Reg /\ regs = Append(Below, Mine) /\ o \in Seq(Entry) /\ m \in Nat
        /\ Len(regs) \in Nat /\ Len(Below) = Len(regs) - 1 /\ Len(regs) > 0
    BY <1>1, MineFacts
  <2> QED BY <2>1 DEF CxxTypeOK
<1> HIDE DEF k, y
<1>3. /\ k \in Nat /\ k > 0 /\ k # 0 /\ k <= m /\ k - 1 \in Nat /\ k - 1 <= m /\ (k - 1) + 1 = k
  BY <1>1, <1>2
<1>4. SubSeq(o, 1, k - 1) \in Seq(Entry) /\ Len(SubSeq(o, 1, k - 1)) = k - 1
      /\ \A j \in 1..(k - 1) : SubSeq(o, 1, k - 1)[j] = o[j]
  BY <1>2, <1>3
<1>5. x \in Reg /\ x.new = NULL /\ x.open = SubSeq(o, 1, k - 1)
  BY <1>1, <1>2, <1>4, SetOpen
<1>6. IsPlace(regs, n, k) /\ Caught(regs, n, k)
  <2>1. k \in 0..Len(Mine.open)
    BY <1>1, <1>2
  <2> QED BY <2>1, <1>1, <1>2, <1>3, TopPlace
<1> HIDE DEF x
<1>7. Within(mid, regs)
  <2>1. Len(x.open) <= Len(Mine.open) /\ \A j \in 1..Len(x.open) : x.open[j] = Mine.open[j]
    BY <1>3, <1>4, <1>5
  <2> QED BY <2>1, <1>1, <1>2, <1>5, TopShrinks
<1>8. Unique(mid) /\ Fits(mid, header) /\ Ordered(mid, c)
  BY <1>7, WithinKeeps DEF Placed
<1> DEFINE top == iu_exception.caught
(* Every place but the one that closes is outside it, or a landing pad's.  *)
<1>9. ASSUME NEW i, NEW j, IsPlace(regs, i, j), Caught(regs, i, j), ~(i = n /\ j = k)
      PROVE  Outer(i, j, n, k)
  <2>1. i \in 1..n /\ j \in 0..Len(regs[i].open) /\ j # 0 /\ regs[i].open[j].role = "handler"
    BY <1>2, <1>9 DEF IsPlace, Caught
  <2>2. CASE i # n
    <3>1. i < n
      BY <2>1, <2>2, <1>2
    <3> QED BY <3>1 DEF Outer
  <2>3. CASE i = n
    <3>1. regs[i] = Mine
      BY <2>3, <1>2 DEF Mine
    <3>2. j \in 1..m /\ o[j].role = "handler" /\ j # k
      BY <2>1, <2>3, <3>1, <1>2, <1>9
    <3>3. k = m - 1 => j # m
      BY <3>2, <1>1, <1>3
    <3>4. j < k
      BY <3>2, <3>3, <1>1, <1>2, <1>3
    <3> QED BY <3>4, <2>3 DEF Outer
  <2> QED BY <2>2, <2>3
<1>10. PICK p \in 1..Len(c) : c[p] = At(regs, n, k)
  BY <1>6 DEF Ordered
<1>11. c # <<>> /\ 1 \in 1..Len(c) /\ c[1] = top /\ header[top].handlers = 1 /\ p \in Nat /\ p >= 1
  <2>1. Len(c) \in Nat /\ 1 \in 1..Len(c) /\ c # <<>> /\ p \in Nat /\ p >= 1
    BY <1>10
  <2> QED BY <2>1 DEF Chain
<1>12. ASSUME NEW i, NEW j, IsPlace(regs, i, j), ~(i = n /\ j = k) PROVE At(regs, i, j) # top
  <2>1. SUFFICES ASSUME At(regs, i, j) = top PROVE FALSE
    OBVIOUS
  <2>2. Caught(regs, i, j)
    BY <1>11, <1>12, <2>1 DEF Placed, Fits
  <2>3. Outer(i, j, n, k)
    BY <2>2, <1>9, <1>12
  <2>4. p < 1
    BY <2>1, <2>2, <2>3, <1>6, <1>10, <1>11, <1>12 DEF Ordered
  <2> QED BY <2>4, <1>11
<1>13. ~IsPlace(mid, n, k)
  <2>1. k \notin 0..Len(x.open)
    BY <1>3, <1>4, <1>5
  <2> QED BY <2>1, <1>2, <1>5, TopPlace
<1>14. Fresh(mid, top)
  BY <1>7, <1>12, <1>13 DEF Within, Fresh
<1>15. CASE k = m /\ y.open = SubSeq(o, 1, k - 1)
  <2>1. y = x
    <3>1. \A u, v \in Reg : u.new = v.new /\ u.open = v.open => u = v
      BY DEF Reg
    <3> QED BY <3>1, <1>15, <1>1, <1>5
  <2> QED BY <2>1, <1>1, <1>8, <1>11, <1>14
<1>16. CASE k = m - 1 /\ z.role = "pad" /\ y.open = Append(SubSeq(o, 1, k - 1), z)
  <2>1. z \in Entry /\ m \in 1..m /\ m # 0 /\ m \in 0..m /\ m # k
    BY <1>2, <1>3, <1>16, EntryFields
  <2>2. IsPlace(regs, n, m) /\ At(regs, n, m) = z.exc /\ ~Caught(regs, n, m)
    BY <2>1, <1>2, <1>16, TopPlace
  <2>3. ~IsPlace(mid, n, m)
    <3>1. m \notin 0..Len(x.open)
      BY <1>2, <1>3, <1>4, <1>5, <1>16
    <3> QED BY <3>1, <1>2, <1>5, TopPlace
  <2>4. Fresh(mid, z.exc)
    BY <2>2, <2>3, <1>7, TakenOut DEF Placed
  <2>5. z.exc \in Exceptions /\ header[z.exc].alloc /\ header[z.exc].handlers = 0
    BY <2>2 DEF Placed, Fits
  <2>6. z.exc # top
    BY <2>5, <1>11
  <2>7. Grown(regs', mid, n, k, z.exc) /\ ~Caught(regs', n, k)
    <3>1. Len(x.open) + 1 = k /\ y.open = Append(x.open, z) /\ y.new = x.new
      BY <1>1, <1>3, <1>4, <1>5, <1>16
    <3>2. /\ Grown(Append(Below, y), mid, Len(Below) + 1, Len(x.open) + 1, z.exc)
          /\ Caught(Append(Below, y), Len(Below) + 1, Len(x.open) + 1) <=> z.role = "handler"
      BY <3>1, <2>1, <1>1, <1>2, <1>5, TopGrowsOpen
    <3> QED BY <3>1, <3>2, <1>1, <1>16
  <2> HIDE DEF mid, z, n, o, m
  <2>8. Unique(regs') /\ Ordered(regs', c)
    BY <2>4, <2>5, <2>7, <1>8, GrownKeeps
  <2>9. Fits(regs', header)
    <3>1. \A h : Fits(mid, h) /\ h[z.exc].alloc /\ h[z.exc].handlers = (IF Caught(regs', n, k) THEN 1 ELSE 0)
                   => Fits(regs', h)
      BY <2>4, <2>5, <2>7, GrownKeeps
    <3>2. header[z.exc].handlers = IF Caught(regs', n, k) THEN 1 ELSE 0
      BY <2>5, <2>7
    <3> QED BY <3>1, <3>2, <2>5, <1>8
  <2>10. Fresh(regs', top)
    BY <2>6, <2>7, <1>14 DEF Grown, Fresh
  <2> QED BY <2>8, <2>9, <2>10, <1>11
<1> QED BY <1>1, <1>15, <1>16

LEMMA EndCatchPlaced ==
  ASSUME CallInv, CxxTypeOK, FlightInv, Placed, EndCatch
  PROVE  Placed' /\ header[iu_exception.caught].handlers = 1 /\ header[iu_exception.caught].alloc
         /\ iu_exception.caught \in Exceptions
<1> DEFINE top == iu_exception.caught
<1>1. PICK c \in Seq(Exceptions) : Chain(c, header, top) /\ Ordered(regs, c)
  BY DEF Placed, Listed
<1>2. /\ Unique(regs') /\ Fits(regs', header) /\ Ordered(regs', c) /\ c # <<>> /\ Fresh(regs', top)
  BY <1>1, ClosedPlaces
<1>3. /\ top \in Addresses /\ HeaderIs(top, EndedHeader(top)) /\ UNCHANGED flying
      /\ iu_exception' = [iu_exception EXCEPT !.caught =
                            IF header[top].handlers = 1 THEN header[top].next ELSE @]
  BY EndCatchHeader
<1>4. \A a \in Exceptions : a # top => header'[a] = header[a]
  BY <1>3, EndedHeaderType, HeaderUpdate DEF Addresses
<1>5. /\ top \in Exceptions /\ header[top].alloc /\ header[top].handlers = 1
      /\ Tail(c) \in Seq(Exceptions) /\ Chain(Tail(c), header', header[top].next)
      /\ Ordered(regs', Tail(c))
  BY <1>1, <1>2, <1>4, Unlinking
<1>6. iu_exception'.caught = header[top].next
  <2>1. iu_exception \in UnitState
    BY UnitFields
  <2> QED BY <1>3, <1>5, <2>1 DEF UnitState
<1>7. Fits(regs', header')
  BY <1>2, <1>4, HeaderElse
<1>8. Listed(regs', header', iu_exception'.caught)
  BY <1>5, <1>6 DEF Listed
<1>9. Flight' = {}
  BY <1>3, EndCatchRegs, NoFlight DEF Flight
<1> QED BY <1>2, <1>5, <1>7, <1>8, <1>9 DEF Placed, Flies
-----------------------------------------------------------------------------
(* How many there are *)

Pads(r)     == Cardinality(HeldBy(r, 1, "pad"))
Handlers(r) == Cardinality(HeldBy(r, 1, "handler"))
News(r)     == Cardinality(NewBy(r, 1))
Allocated(h) == Cardinality({e \in Exceptions : h[e].alloc})
Bit(b)      == IF b THEN 1 ELSE 0

(* ExceptionsAccounted's counts, of any state. *)
Balance(r, h, fly, unit, gone) ==
  /\ Allocated(h) = Pads(r) + Handlers(r) + News(r) + Bit(fly) + gone.thrown + gone.other
  /\ unit.uncaught = Pads(r) + Bit(fly) + gone.thrown

LEMMA CountedIs ==
  /\ Counted <=> Balance(regs, header, flying, iu_exception, lost)
  /\ Counted' <=> Balance(regs', header', flying', iu_exception', lost')
BY DEF Counted, Balance, Allocated, Pads, Handlers, News, Bit, Held, New

LEMMA TopCounts ==
  ASSUME NEW b \in Seq(Reg), NEW x \in Reg
  PROVE  /\ Pads(Append(b, x)) = Pads(b) + RoleCount(x.open, "pad")
         /\ Handlers(Append(b, x)) = Handlers(b) + RoleCount(x.open, "handler")
         /\ News(Append(b, x)) = News(b) + Bit(x.new # NULL)
         /\ Pads(b) \in Nat /\ Handlers(b) \in Nat /\ News(b) \in Nat
         /\ RoleCount(x.open, "pad") \in Nat /\ RoleCount(x.open, "handler") \in Nat
BY HeldTop, NewTop DEF Pads, Handlers, News, Bit

LEMMA IdleCounts ==
  ASSUME NEW b \in Seq(Reg)
  PROVE  /\ Pads(Append(b, Idle)) = Pads(b) /\ Handlers(Append(b, Idle)) = Handlers(b)
         /\ News(Append(b, Idle)) = News(b)
<1>1. Idle \in Reg /\ Idle.new = NULL /\ Idle.open = <<>>
  BY RegFields
<1>2. RoleCount(Idle.open, "pad") = 0 /\ RoleCount(Idle.open, "handler") = 0 /\ Bit(Idle.new # NULL) = 0
  BY <1>1, RoleEmpty DEF Bit
<1> QED BY <1>1, <1>2, TopCounts

LEMMA AllocatedFinite ==
  ASSUME NEW h
  PROVE  IsFiniteSet({e \in Exceptions : h[e].alloc}) /\ Allocated(h) \in Nat
<1>1. {e \in Exceptions : h[e].alloc} \in SUBSET Exceptions
  OBVIOUS
<1>2. IsFiniteSet({e \in Exceptions : h[e].alloc})
  BY <1>1, CxxAssumption, FS_Subset
<1> QED BY <1>2, FS_CardinalityType DEF Allocated

(* An exception is allocated, freed, or neither. *)
LEMMA AllocatedOneMore ==
  ASSUME NEW h, NEW g, NEW e \in Exceptions, \A a \in Exceptions : a # e => g[a] = h[a],
         ~h[e].alloc, g[e].alloc
  PROVE  Allocated(g) = Allocated(h) + 1
<1> DEFINE S == {a \in Exceptions : h[a].alloc}  T == {a \in Exceptions : g[a].alloc}
<1>1. T = S \cup {e} /\ e \notin S
  OBVIOUS
<1>2. IsFiniteSet(S)
  BY AllocatedFinite
<1> HIDE DEF S, T
<1>3. Cardinality(T) = Cardinality(S) + 1
  BY <1>1, <1>2, FS_AddElement
<1> QED BY <1>3 DEF S, T, Allocated

LEMMA AllocatedSame ==
  ASSUME NEW h, NEW g, \A a \in Exceptions : g[a].alloc = h[a].alloc
  PROVE  Allocated(g) = Allocated(h)
<1>1. {a \in Exceptions : h[a].alloc} = {a \in Exceptions : g[a].alloc}
  OBVIOUS
<1> QED BY <1>1 DEF Allocated

(* Nothing that was counted changes. *)
LEMMA SameCounted ==
  ASSUME Counted, Pads(regs') = Pads(regs), Handlers(regs') = Handlers(regs), News(regs') = News(regs),
         UNCHANGED <<header, iu_exception, flying, lost>>
  PROVE  Counted'
BY CountedIs DEF Balance

LEMMA PopCounts ==
  ASSUME CallInv, CxxTypeOK, stack # <<>>, Mine = Idle
  PROVE  Pads(regs) = Pads(Below) /\ Handlers(regs) = Handlers(Below) /\ News(regs) = News(Below)
<1>1. Below \in Seq(Reg) /\ regs = Append(Below, Idle)
  BY MineFacts
<1> QED BY <1>1, IdleCounts

LEMMA CallsCounted ==
  ASSUME CallInv, CxxTypeOK, FlightInv, Waits, Counted,
         \/ CxxEnter \/ CxxCalls \/ CxxReturns \/ CxxPropagates \/ CxxContinues \/ UNCHANGED cxxvars
  PROVE  Counted'
<1>1. CASE CxxEnter
  <2>1. Append(regs, Idle) \in Seq(Reg) /\ regs \in Seq(Reg)
    BY AppendReg, RegFields DEF CxxTypeOK
  <2>2. Pads(regs') = Pads(regs) /\ Handlers(regs') = Handlers(regs) /\ News(regs') = News(regs)
    BY <1>1, <2>1, EnterRegs, IdleCounts
  <2> QED BY <1>1, <2>2, EnterRegs, SameCounted
<1>2. CASE CxxCalls
  <2>1. Pads(regs') = Pads(regs) /\ Handlers(regs') = Handlers(regs) /\ News(regs') = News(regs)
    BY <1>2, CallsRegs, IdleCounts DEF CxxTypeOK
  <2> QED BY <1>2, <2>1, CallsRegs, SameCounted
<1>3. CASE CxxReturns
  <2>1. stack # <<>> /\ regs' = Below /\ Mine = Idle /\ UNCHANGED <<header, iu_exception, flying, lost>>
    BY <1>3 DEF CxxReturns, Returns
  <2> QED BY <2>1, PopCounts, SameCounted
<1>4. CASE CxxPropagates
  <2>1. /\ pending = 1 /\ Top.kind = "exec" /\ Top.site = "jsr" /\ regs' = Below
        /\ UNCHANGED <<header, iu_exception, flying, lost>>
    BY <1>4 DEF CxxPropagates, JsrPropagates
  <2>2. stack # <<>>
    BY <2>1 DEF CallInv, Nesting, RUN
  <2>3. ~jumped
    BY <2>1 DEF FlightInv
  <2>4. Mine = Idle
    BY <2>1, <2>3 DEF Waits
  <2> QED BY <2>1, <2>2, <2>4, PopCounts, SameCounted
<1>5. CASE CxxContinues \/ UNCHANGED cxxvars
  <2>1. UNCHANGED <<regs, header, iu_exception, flying, lost>>
    BY <1>5, ContinuesFacts DEF cxx, cxxvars, vars
  <2> QED BY <2>1, SameCounted
<1> QED BY <1>1, <1>2, <1>3, <1>4, <1>5

(* An exception that nobody catches stays with the host. *)
LEMMA CallReturnsCounted ==
  ASSUME CallInv, CxxTypeOK, Waits, Counted, CxxCallReturns
  PROVE  Counted'
<1>1. /\ stack # <<>> /\ Top.kind = "call" /\ regs' = Below /\ flying' = FALSE
      /\ lost' = IF flying THEN [lost EXCEPT !.thrown = @ + 1] ELSE lost
      /\ UNCHANGED <<iu_exception, header>>
  BY DEF CxxCallReturns, CallReturns, CallInv, Nesting
<1>2. Mine = Idle
  <2>1. Len(stack) \in 1..Len(stack) /\ Len(regs) = Len(stack)
    BY <1>1, TopFacts DEF CallInv, TypeOK, CxxTypeOK
  <2>2. regs[Len(stack)] = Idle
    BY <2>1, <1>1 DEF Waits, HeldWell, Top
  <2> QED BY <2>1, <2>2 DEF Mine
<1>3. Pads(regs') = Pads(regs) /\ Handlers(regs') = Handlers(regs) /\ News(regs') = News(regs)
  BY <1>1, <1>2, PopCounts
<1>4. /\ lost'.thrown = lost.thrown + Bit(flying) /\ lost'.other = lost.other
      /\ lost.thrown \in Nat /\ lost.other \in Nat
  <2>1. lost \in [thrown : Nat, other : Nat]
    BY DEF CxxTypeOK
  <2>2. CASE flying
    BY <2>1, <2>2, <1>1 DEF Bit
  <2>3. CASE ~flying
    BY <2>1, <2>3, <1>1 DEF Bit
  <2> QED BY <2>2, <2>3
<1>5. /\ Pads(regs) \in Nat /\ Handlers(regs) \in Nat /\ News(regs) \in Nat
  <2>1. regs \in Seq(Reg) /\ Idle \in Reg
    BY RegFields DEF CxxTypeOK
  <2> QED BY <2>1, TopCounts
<1>6. Bit(flying) \in Nat /\ Bit(flying') = 0
  BY <1>1 DEF Bit
<1>7. Balance(regs, header, flying, iu_exception, lost)
  BY CountedIs
<1>8. Allocated(header') = Allocated(header) /\ iu_exception'.uncaught = iu_exception.uncaught
  BY <1>1
<1>9. Balance(regs', header', flying', iu_exception', lost')
  BY <1>3, <1>4, <1>5, <1>6, <1>7, <1>8 DEF Balance
<1> QED BY <1>9, CountedIs

LEMMA StopCounted ==
  ASSUME CallInv, CxxTypeOK, Counted, CxxStop
  PROVE  Counted'
<1> DEFINE k == iu_err_jmpbuf
           a == Held(k + 1, "pad")  b == Held(k + 1, "handler")  c == New(k + 1)
<1>1. /\ k \in 1..Len(regs) /\ regs' = SubSeq(regs, 1, k) /\ regs \in Seq(Reg)
      /\ UNCHANGED <<iu_exception, header, flying>>
      /\ lost' = [thrown |-> lost.thrown + a, other  |-> lost.other + b + c]
  BY StopRegs DEF CxxTypeOK
<1>2. Pads(regs) = Pads(regs') + a /\ a \in Nat
  BY <1>1, HeldSplit DEF Pads, Held
<1>3. Handlers(regs) = Handlers(regs') + b /\ b \in Nat
  BY <1>1, HeldSplit DEF Handlers, Held
<1>4. News(regs) = News(regs') + c /\ c \in Nat
  BY <1>1, NewSplit DEF News, New
<1> HIDE DEF a, b, c
<1>5. lost'.thrown = lost.thrown + a /\ lost'.other = lost.other + b + c
  BY <1>1
<1>6. lost.thrown \in Nat /\ lost.other \in Nat
  BY LostFields
<1>7. /\ Pads(regs') \in Nat /\ Handlers(regs') \in Nat /\ News(regs') \in Nat
  <2>1. regs' \in Seq(Reg) /\ Idle \in Reg
    BY RegFields, StopRegs
  <2> QED BY <2>1, TopCounts
<1>8. Bit(flying) \in Nat /\ Bit(flying') = Bit(flying)
  BY <1>1 DEF Bit
<1>9. Allocated(header') = Allocated(header) /\ iu_exception'.uncaught = iu_exception.uncaught
  BY <1>1
<1>10. Balance(regs, header, flying, iu_exception, lost)
  BY CountedIs
<1>11. Balance(regs', header', flying', iu_exception', lost')
  BY <1>2, <1>3, <1>4, <1>5, <1>6, <1>7, <1>8, <1>9, <1>10 DEF Balance
<1> QED BY <1>11, CountedIs
LEMMA OneMoreOpen ==
  ASSUME NEW o \in Seq(Entry), NEW e \in Entry
  PROVE  /\ RoleCount(o, "pad") \in Nat /\ RoleCount(o, "handler") \in Nat
         /\ e.role = "pad" => /\ RoleCount(Append(o, e), "pad") = RoleCount(o, "pad") + 1
                              /\ RoleCount(Append(o, e), "handler") = RoleCount(o, "handler")
         /\ e.role = "handler" => /\ RoleCount(Append(o, e), "pad") = RoleCount(o, "pad")
                                  /\ RoleCount(Append(o, e), "handler") = RoleCount(o, "handler") + 1
<1>1. /\ RoleCount(o, "pad") \in Nat /\ RoleCount(o, "handler") \in Nat
      /\ RoleCount(Append(o, e), "pad") = RoleCount(o, "pad") + (IF e.role = "pad" THEN 1 ELSE 0)
      /\ RoleCount(Append(o, e), "handler") = RoleCount(o, "handler") + (IF e.role = "handler" THEN 1 ELSE 0)
  BY RoleAppend, RoleFinite
<1> QED BY <1>1

(* The counts before and after the last activation changes to y. *)
TopSums(y) ==
  /\ Pads(regs) = Pads(Below) + RoleCount(Mine.open, "pad")
  /\ Pads(regs') = Pads(Below) + RoleCount(y.open, "pad")
  /\ Handlers(regs) = Handlers(Below) + RoleCount(Mine.open, "handler")
  /\ Handlers(regs') = Handlers(Below) + RoleCount(y.open, "handler")
  /\ News(regs) = News(Below) + Bit(Mine.new # NULL)
  /\ News(regs') = News(Below) + Bit(y.new # NULL)
  /\ Pads(Below) \in Nat /\ Handlers(Below) \in Nat /\ News(Below) \in Nat
  /\ RoleCount(Mine.open, "pad") \in Nat /\ RoleCount(Mine.open, "handler") \in Nat
  /\ lost.thrown \in Nat /\ lost.other \in Nat
  /\ lost'.thrown = lost.thrown /\ lost'.other = lost.other
  /\ Allocated(header) = Pads(regs) + Handlers(regs) + News(regs) + Bit(flying) + lost.thrown + lost.other
  /\ iu_exception.uncaught = Pads(regs) + Bit(flying) + lost.thrown

LEMMA TopBalance ==
  ASSUME CallInv, CxxTypeOK, Counted, stack # <<>>, NEW y \in Reg, regs' = Append(Below, y), UNCHANGED lost
  PROVE  TopSums(y)
<1>1. Below \in Seq(Reg) /\ Mine \in Reg /\ regs = Append(Below, Mine)
  BY MineFacts
<1>2. /\ Pads(regs) = Pads(Below) + RoleCount(Mine.open, "pad")
      /\ Handlers(regs) = Handlers(Below) + RoleCount(Mine.open, "handler")
      /\ News(regs) = News(Below) + Bit(Mine.new # NULL)
      /\ Pads(Below) \in Nat /\ Handlers(Below) \in Nat /\ News(Below) \in Nat
      /\ RoleCount(Mine.open, "pad") \in Nat /\ RoleCount(Mine.open, "handler") \in Nat
  BY <1>1, TopCounts
<1>3. /\ Pads(regs') = Pads(Below) + RoleCount(y.open, "pad")
      /\ Handlers(regs') = Handlers(Below) + RoleCount(y.open, "handler")
      /\ News(regs') = News(Below) + Bit(y.new # NULL)
  BY <1>1, TopCounts
<1>4. Balance(regs, header, flying, iu_exception, lost)
  BY CountedIs
<1>5. lost.thrown \in Nat /\ lost.other \in Nat /\ lost'.thrown = lost.thrown /\ lost'.other = lost.other
  BY LostFields
<1> QED BY <1>2, <1>3, <1>4, <1>5 DEF Balance, TopSums

LEMMA AllocateCounted ==
  ASSUME CallInv, CxxTypeOK, Counted, NEW e \in Exceptions, Allocate(e)
  PROVE  Counted'
<1> DEFINE y == [Mine EXCEPT !.new = e]
<1>1. /\ stack # <<>> /\ Mine.new = NULL /\ y \in Reg /\ regs' = Append(Below, y) /\ Mine \in Reg
  BY AllocateRegs, MineFacts
<1>2. y.new = e /\ y.open = Mine.open /\ e # NULL
  BY <1>1, SetNew, CxxAssumption DEF Addresses
<1>3. HeaderIs(e, FreshHeader) /\ ~header[e].alloc /\ UNCHANGED <<iu_exception, lost, flying>>
  BY AllocateHeader
<1>4. /\ header'[e] = FreshHeader /\ \A a \in Exceptions : a # e => header'[a] = header[a]
  BY <1>3, FreshHeaderType, HeaderUpdate DEF Addresses
<1>5. Allocated(header') = Allocated(header) + 1
  BY <1>3, <1>4, FreshHeaderType, AllocatedOneMore
<1>6. Bit(Mine.new # NULL) = 0 /\ Bit(y.new # NULL) = 1 /\ Bit(flying') = Bit(flying) /\ Bit(flying) \in Nat
  BY <1>1, <1>2, <1>3 DEF Bit
<1>7. iu_exception'.uncaught = iu_exception.uncaught
  BY <1>3
<1> HIDE DEF y
<1>8. Balance(regs', header', flying', iu_exception', lost')
  <2>1. TopSums(y)
    BY <1>1, <1>3, TopBalance
  <2> QED BY <2>1, <1>2, <1>5, <1>6, <1>7 DEF Balance, TopSums
<1> QED BY <1>8, CountedIs

LEMMA FreeNewCounted ==
  ASSUME CallInv, CxxTypeOK, Placed, Counted, FreeNew
  PROVE  Counted'
<1> DEFINE y == [Mine EXCEPT !.new = NULL]  a == Mine.new  n == Len(Below) + 1
<1>1. /\ stack # <<>> /\ a # NULL /\ y \in Reg /\ regs' = Append(Below, y)
  BY FreeNewRegs
<1>2. /\ Below \in Seq(Reg) /\ Mine \in Reg /\ regs = Append(Below, Mine) /\ a \in Addresses
      /\ Len(Mine.open) \in Nat
  BY <1>1, MineFacts
<1>3. y.new = NULL /\ y.open = Mine.open
  BY <1>2, SetNew DEF Addresses
<1>4. HeaderIs(a, FreedHeader(a)) /\ UNCHANGED <<iu_exception, lost, flying>>
  BY FreeNewHeader
<1>5. header'[a].alloc = FALSE /\ \A d \in Exceptions : d # a => header'[d] = header[d]
  BY <1>2, <1>4, FreedHeaderType, HeaderUpdate DEF Addresses
<1>6. header[a].alloc /\ a \in Exceptions
  <2>1. 0 \in 0..Len(Mine.open)
    BY <1>2
  <2>2. IsPlace(regs, n, 0) /\ At(regs, n, 0) = a
    BY <2>1, <1>1, <1>2, TopPlace
  <2> QED BY <2>2 DEF Placed, Fits
<1>7. Allocated(header) = Allocated(header') + 1
  BY <1>5, <1>6, AllocatedOneMore
<1>8. Bit(Mine.new # NULL) = 1 /\ Bit(y.new # NULL) = 0 /\ Bit(flying') = Bit(flying) /\ Bit(flying) \in Nat
  BY <1>1, <1>3, <1>4 DEF Bit
<1>9. iu_exception'.uncaught = iu_exception.uncaught /\ Allocated(header') \in Nat
  BY <1>4, AllocatedFinite
<1> HIDE DEF y, a
<1>10. Balance(regs', header', flying', iu_exception', lost')
  <2>1. TopSums(y)
    BY <1>1, <1>4, TopBalance
  <2>2. y.open = Mine.open
    BY <1>3
  <2> QED BY <2>1, <2>2, <1>7, <1>8, <1>9 DEF Balance, TopSums
<1> QED BY <1>10, CountedIs

LEMMA LandingPadCounted ==
  ASSUME CallInv, CxxTypeOK, FlightInv, Counted, LandingPad
  PROVE  Counted'
<1> DEFINE y == [Mine EXCEPT !.open = Append(Mine.open, Landed)]
<1>1. /\ stack # <<>> /\ pending = 1 /\ Top.kind = "exec" /\ flying' = FALSE
      /\ Landed \in Entry /\ Landed.role = "pad"
      /\ y \in Reg /\ y.new = Mine.new /\ y.open = Append(Mine.open, Landed) /\ regs' = Append(Below, y)
  BY LandingPadRegs
<1>2. UNCHANGED <<header, iu_exception, lost>>
  BY DEF LandingPad
<1>3. flying
  BY <1>1 DEF FlightInv, ExceptionUnwinds
<1>4. Mine.open \in Seq(Entry)
  BY <1>1, MineFacts
<1>5. /\ RoleCount(y.open, "pad") = RoleCount(Mine.open, "pad") + 1
      /\ RoleCount(y.open, "handler") = RoleCount(Mine.open, "handler") + 0
  <2>1. "pad" # "handler"
    OBVIOUS
  <2> QED BY <2>1, <1>1, <1>4, RoleAppend
<1>6. Bit(flying) = 1 /\ Bit(flying') = 0 /\ Bit(y.new # NULL) = Bit(Mine.new # NULL) /\ Bit(y.new # NULL) \in Nat
  BY <1>1, <1>3 DEF Bit
<1>7. Allocated(header') = Allocated(header) /\ iu_exception'.uncaught = iu_exception.uncaught
  BY <1>2
<1> HIDE DEF y
<1>8. Balance(regs', header', flying', iu_exception', lost')
  <2>1. TopSums(y)
    BY <1>1, <1>2, TopBalance
  <2> QED BY <2>1, <1>5, <1>6, <1>7 DEF Balance, TopSums
<1> QED BY <1>8, CountedIs

LEMMA BeginCatchCounted ==
  ASSUME CallInv, CxxTypeOK, Placed, Counted, BeginCatch
  PROVE  Counted'
<1> DEFINE o == Mine.open  m == Len(Mine.open)  z == Mine.open[Len(Mine.open)]
           w == [z EXCEPT !.role = "handler"]  u == SubSeq(o, 1, m - 1)
           y == Handling  n == Len(Below) + 1  e == z.exc
<1>1. /\ stack # <<>> /\ Mine.new = NULL /\ o # <<>> /\ z.role = "pad"
      /\ y \in Reg /\ y.new = NULL /\ y.open = Append(u, w) /\ regs' = Append(Below, y)
  BY BeginCatchRegs
<1>2. /\ Below \in Seq(Reg) /\ Mine \in Reg /\ regs = Append(Below, Mine) /\ o \in Seq(Entry)
  BY <1>1, MineFacts
<1>3. /\ m \in Nat /\ m > 0 /\ m \in 1..m /\ z \in Entry /\ u \in Seq(Entry) /\ o = Append(u, z)
  BY <1>1, <1>2, LastOpenFacts
<1>4. w \in Entry /\ w.exc = e /\ w.role = "handler" /\ e \in Addresses
  BY <1>2, <1>3, EntryFields
<1>5. /\ HeaderIs(e, CaughtHeader(e))
      /\ iu_exception' = [iu_exception EXCEPT !.caught = e,
                             !.uncaught = IF header[e].handlers < 0 THEN @ ELSE @ - 1]
      /\ UNCHANGED <<lost, flying>>
  BY <1>4, BeginCatchHeader DEF LastOpen
<1>6. /\ IsPlace(regs, n, m) /\ At(regs, n, m) = e /\ ~Caught(regs, n, m)
  <2>1. m \in 0..Len(Mine.open) /\ "pad" # "handler" /\ m # 0
    BY <1>3
  <2> QED BY <2>1, <1>1, <1>2, TopPlace
<1>7. header[e].handlers = 0
  BY <1>6 DEF Placed, Fits
<1>8. iu_exception'.uncaught = iu_exception.uncaught - 1
  <2>1. iu_exception \in UnitState /\ ~(0 < 0)
    BY UnitFields
  <2> QED BY <1>5, <1>7, <2>1 DEF UnitState
<1> HIDE DEF y, z, w, m, o, n, e, u, Handling
<1>9. \A a \in Exceptions : header'[a].alloc = header[a].alloc
  BY <1>4, <1>5, CaughtHeaderType, HeaderUpdate DEF Addresses
<1>10. Allocated(header') = Allocated(header)
  BY <1>9, AllocatedSame
<1>11. /\ RoleCount(o, "pad") = RoleCount(u, "pad") + 1 /\ RoleCount(o, "handler") = RoleCount(u, "handler") + 0
       /\ RoleCount(y.open, "pad") = RoleCount(u, "pad") + 0
       /\ RoleCount(y.open, "handler") = RoleCount(u, "handler") + 1
       /\ RoleCount(u, "pad") \in Nat /\ RoleCount(u, "handler") \in Nat
  <2>1. "pad" # "handler"
    OBVIOUS
  <2> QED BY <2>1, <1>1, <1>3, <1>4, RoleAppend, RoleFinite
<1>12. Bit(flying') = Bit(flying) /\ Bit(flying) \in Nat /\ Bit(y.new # NULL) = 0 /\ Bit(Mine.new # NULL) = 0
  BY <1>1, <1>5 DEF Bit
<1>13. Balance(regs', header', flying', iu_exception', lost')
  <2>1. TopSums(y)
    BY <1>1, <1>5, TopBalance
  <2> QED BY <2>1, <1>8, <1>10, <1>11, <1>12 DEF Balance, TopSums, o
<1> QED BY <1>13, CountedIs
LEMMA EndCatchCounted ==
  ASSUME CallInv, CxxTypeOK, FlightInv, Placed, Counted, EndCatch
  PROVE  Counted'
<1> DEFINE o == Mine.open  m == Len(Mine.open)  k == Closing  z == Mine.open[Len(Mine.open)]
           u == SubSeq(o, 1, k - 1)  y == Closed  top == iu_exception.caught
<1>1. /\ stack # <<>> /\ Mine.new = NULL /\ k \in 1..m /\ o[k].role = "handler"
      /\ y \in Reg /\ y.new = NULL /\ regs' = Append(Below, y)
      /\ \/ k = m /\ y.open = u
         \/ k = m - 1 /\ z.role = "pad" /\ y.open = Append(u, z)
  BY EndCatchRegs
<1>2. o \in Seq(Entry) /\ m \in Nat
  BY <1>1, MineFacts
<1>3. /\ top \in Exceptions /\ header[top].alloc /\ header[top].handlers = 1
  BY EndCatchPlaced
<1>4. /\ HeaderIs(top, EndedHeader(top)) /\ UNCHANGED <<lost, flying>>
      /\ iu_exception' = [iu_exception EXCEPT !.caught =
                            IF header[top].handlers = 1 THEN header[top].next ELSE @]
  BY EndCatchHeader
<1>5. header'[top].alloc = FALSE /\ \A a \in Exceptions : a # top => header'[a] = header[a]
  <2>1. top \in Addresses /\ EndedHeader(top) \in Header /\ EndedHeader(top).alloc = FALSE
    BY <1>3, EndedHeaderType DEF Addresses
  <2>2. header'[top] = EndedHeader(top) /\ \A a \in Addresses : a # top => header'[a] = header[a]
    BY <2>1, <1>4, HeaderUpdate
  <2> QED BY <2>1, <2>2 DEF Addresses
<1>6. iu_exception'.uncaught = iu_exception.uncaught
  <2>1. iu_exception \in UnitState
    BY UnitFields
  <2> QED BY <1>4, <2>1 DEF UnitState
<1>7. Allocated(header) = Allocated(header') + 1 /\ Allocated(header') \in Nat
  BY <1>3, <1>5, AllocatedOneMore, AllocatedFinite
<1> HIDE DEF k, y, top
<1>8. /\ RoleCount(o, "pad") = RoleCount(y.open, "pad")
      /\ RoleCount(o, "handler") = RoleCount(y.open, "handler") + 1
      /\ RoleCount(y.open, "pad") \in Nat /\ RoleCount(y.open, "handler") \in Nat
  <2>1. k \in Nat /\ k > 0 /\ k - 1 \in Nat /\ k - 1 <= m /\ k <= m
    BY <1>1, <1>2
  <2>2. u \in Seq(Entry) /\ SubSeq(o, 1, k) \in Seq(Entry) /\ o[k] \in Entry
    BY <2>1, <1>1, <1>2, EntryFields
  <2>3. SubSeq(o, 1, k) = Append(u, o[k])
    <3> DEFINE v == SubSeq(o, 1, k)
    <3>1. Len(v) = k /\ v[k] = o[k] /\ SubSeq(v, 1, k - 1) = u
      BY <2>1, <2>2, <1>2
    <3>2. v \in Seq(Entry) /\ Len(v) > 0
      BY <2>1, <2>2, <3>1
    <3> HIDE DEF v, u
    <3>3. v = Append(SubSeq(v, 1, Len(v) - 1), v[Len(v)])
      BY <3>2, SplitLast
    <3> QED BY <3>1, <3>3 DEF v
  <2> DEFINE v == SubSeq(o, 1, k)
  <2> HIDE DEF u, v
  <2>4. /\ RoleCount(v, "pad") = RoleCount(u, "pad") /\ RoleCount(v, "handler") = RoleCount(u, "handler") + 1
        /\ RoleCount(u, "pad") \in Nat /\ RoleCount(u, "handler") \in Nat /\ v \in Seq(Entry)
    <3> DEFINE w == o[k]
    <3>1. w \in Entry /\ w.role = "handler" /\ v = Append(u, w) /\ v \in Seq(Entry)
      BY <2>2, <2>3, <1>1 DEF v
    <3> HIDE DEF w
    <3> QED BY <2>2, <3>1, OneMoreOpen
  <2>5. CASE k = m /\ y.open = u
    <3>1. v = o
      BY <2>5, <1>2 DEF v
    <3> HIDE DEF o
    <3> QED BY <3>1, <2>4, <2>5
  <2>6. CASE k = m - 1 /\ z.role = "pad" /\ y.open = Append(u, z)
    <3>1. o = Append(v, z) /\ z \in Entry
      BY <2>1, <2>6, <1>2, SplitLast DEF v
    <3> HIDE DEF o, z
    <3>2. /\ RoleCount(o, "pad") = RoleCount(v, "pad") + 1 /\ RoleCount(o, "handler") = RoleCount(v, "handler")
      BY <2>4, <2>6, <3>1, OneMoreOpen
    <3>3. /\ RoleCount(y.open, "pad") = RoleCount(u, "pad") + 1
          /\ RoleCount(y.open, "handler") = RoleCount(u, "handler")
      BY <2>2, <2>6, <3>1, OneMoreOpen
    <3> QED BY <3>2, <3>3, <2>4
  <2> QED BY <2>5, <2>6, <1>1
<1>9. Bit(flying') = Bit(flying) /\ Bit(flying) \in Nat /\ Bit(y.new # NULL) = 0 /\ Bit(Mine.new # NULL) = 0
  BY <1>1, <1>4 DEF Bit
<1>10. Balance(regs', header', flying', iu_exception', lost')
  <2>1. TopSums(y)
    BY <1>1, <1>4, TopBalance
  <2> QED BY <2>1, <1>6, <1>7, <1>8, <1>9 DEF Balance, TopSums
<1> QED BY <1>10, CountedIs

LEMMA ResumeCounted ==
  ASSUME CallInv, CxxTypeOK, FlightInv, Counted, Resume
  PROVE  Counted'
<1> DEFINE o == Mine.open
<1>1. /\ stack # <<>> /\ pending = RUN /\ Mine.new = NULL /\ Len(o) = 1 /\ o[1].role = "pad" /\ o[1] \in Entry
      /\ iu_exception' = [iu_exception EXCEPT !.exception = o[1].exc]
      /\ regs' = Below /\ flying' = TRUE
  BY ResumeRegs
<1>2. UNCHANGED <<header, lost>> /\ ~flying
  BY <1>1, NoFlight DEF Resume
<1>3. iu_exception'.uncaught = iu_exception.uncaught
  <2>1. iu_exception \in UnitState
    BY UnitFields
  <2> QED BY <1>1, <2>1 DEF UnitState
<1>4. /\ Below \in Seq(Reg) /\ Mine \in Reg /\ regs = Append(Below, Mine) /\ o \in Seq(Entry)
  BY <1>1, MineFacts
<1>5. RoleCount(o, "pad") = 1 /\ RoleCount(o, "handler") = 0
  <2>0. <<>> \in Seq(Entry)
    BY EmptySeq
  <2>1. o = Append(<<>>, o[1])
    <3>1. o = Append(SubSeq(o, 1, Len(o) - 1), o[Len(o)])
      BY <1>1, <1>4, SplitLast
    <3>2. SubSeq(o, 1, Len(o) - 1) = <<>>
      BY <1>1, <1>4
    <3> QED BY <3>1, <3>2, <1>1
  <2> DEFINE w == o[1]
  <2> HIDE DEF o, w
  <2>2. w \in Entry /\ w.role = "pad" /\ o = Append(<<>>, w)
    BY <2>1, <1>1 DEF w, o
  <2>3. /\ RoleCount(Append(<<>>, w), "pad") = RoleCount(<<>>, "pad") + 1
        /\ RoleCount(Append(<<>>, w), "handler") = RoleCount(<<>>, "handler")
    BY <2>0, <2>2, OneMoreOpen
  <2> QED BY <2>2, <2>3, RoleEmpty
<1>6. /\ Pads(regs) = Pads(regs') + 1 /\ Handlers(regs) = Handlers(regs') /\ News(regs) = News(regs')
      /\ Pads(regs') \in Nat /\ Handlers(regs') \in Nat /\ News(regs') \in Nat
  <2>1. Bit(Mine.new # NULL) = 0
    BY <1>1 DEF Bit
  <2>2. /\ Pads(regs) = Pads(Below) + RoleCount(o, "pad") /\ Handlers(regs) = Handlers(Below) + RoleCount(o, "handler")
        /\ News(regs) = News(Below) + Bit(Mine.new # NULL)
        /\ Pads(Below) \in Nat /\ Handlers(Below) \in Nat /\ News(Below) \in Nat
    BY <1>4, TopCounts
  <2> HIDE DEF o
  <2>3. Pads(regs) = Pads(Below) + 1 /\ Handlers(regs) = Handlers(Below) /\ News(regs) = News(Below)
    BY <2>1, <2>2, <1>5
  <2> QED BY <2>2, <2>3, <1>1
<1>7. Bit(flying) = 0 /\ Bit(flying') = 1
  BY <1>1, <1>2 DEF Bit
<1>8. lost.thrown \in Nat /\ lost.other \in Nat /\ lost' = lost
  BY <1>2, LostFields
<1>9. Allocated(header') = Allocated(header)
  BY <1>2
<1>10. Balance(regs, header, flying, iu_exception, lost)
  BY CountedIs
<1>11. Balance(regs', header', flying', iu_exception', lost')
  BY <1>3, <1>6, <1>7, <1>8, <1>9, <1>10 DEF Balance
<1> QED BY <1>11, CountedIs

LEMMA ThrowCounted ==
  ASSUME CallInv, CxxTypeOK, FlightInv, Waits, Counted, NEW e, Throw(FALSE, e)
  PROVE  Counted'
<1> DEFINE caller == regs[Len(regs) - 1]
           y      == [caller EXCEPT !.new = NULL]
           q      == SubSeq(Below, 1, Len(Below) - 1)
<1>1. /\ stack # <<>> /\ Top.kind = "ext" /\ pending = RUN /\ caller \in Reg /\ q \in Seq(Reg)
      /\ Below = Append(q, caller) /\ regs' = Append(q, y) /\ e # NULL /\ caller.new = e
      /\ Below \in Seq(Reg)
      /\ iu_exception' = [iu_exception EXCEPT !.exception = e, !.uncaught = @ + 1]
      /\ flying' = TRUE /\ UNCHANGED <<header, lost>>
  BY ThrowRegs
<1>2. y \in Reg /\ y.new = NULL /\ y.open = caller.open
  <2>1. NULL \in Addresses
    BY DEF Addresses
  <2> QED BY <1>1, <2>1, SetNew
<1>3. iu_exception'.uncaught = iu_exception.uncaught + 1
  <2>1. iu_exception \in UnitState
    BY UnitFields
  <2> QED BY <1>1, <2>1 DEF UnitState
<1>4. Mine = Idle
  <2>1. Len(stack) \in 1..Len(stack) /\ Len(regs) = Len(stack)
    BY <1>1, TopFacts DEF CallInv, TypeOK, CxxTypeOK
  <2>2. regs[Len(stack)] = Idle
    BY <2>1, <1>1 DEF Waits, HeldWell, Top
  <2> QED BY <2>1, <2>2 DEF Mine
<1>5. Pads(regs) = Pads(Below) /\ Handlers(regs) = Handlers(Below) /\ News(regs) = News(Below)
  BY <1>1, <1>4, PopCounts
<1> HIDE DEF caller, y, q
<1>6. /\ Pads(Below) = Pads(q) + RoleCount(caller.open, "pad")
      /\ Handlers(Below) = Handlers(q) + RoleCount(caller.open, "handler")
      /\ News(Below) = News(q) + Bit(caller.new # NULL)
      /\ Pads(q) \in Nat /\ Handlers(q) \in Nat /\ News(q) \in Nat
      /\ RoleCount(caller.open, "pad") \in Nat /\ RoleCount(caller.open, "handler") \in Nat
  BY <1>1, TopCounts
<1>7. /\ Pads(regs') = Pads(q) + RoleCount(caller.open, "pad")
      /\ Handlers(regs') = Handlers(q) + RoleCount(caller.open, "handler")
      /\ News(regs') = News(q) + Bit(y.new # NULL)
  BY <1>1, <1>2, TopCounts
<1>8. Bit(flying) = 0 /\ Bit(flying') = 1 /\ Bit(caller.new # NULL) = 1 /\ Bit(y.new # NULL) = 0
  BY <1>1, <1>2, NoFlight DEF Bit
<1>9. lost.thrown \in Nat /\ lost.other \in Nat /\ lost' = lost
  BY <1>1, LostFields
<1>10. Allocated(header') = Allocated(header)
  BY <1>1
<1>11. Balance(regs, header, flying, iu_exception, lost)
  BY CountedIs
<1>12. Balance(regs', header', flying', iu_exception', lost')
  BY <1>3, <1>5, <1>6, <1>7, <1>8, <1>9, <1>10, <1>11 DEF Balance
<1> QED BY <1>12, CountedIs
-----------------------------------------------------------------------------
(* All of it *)

LEMMA InitCxx == CxxInit => CxxInv
<1> SUFFICES ASSUME CxxInit PROVE CxxInv
  OBVIOUS
<1>1. /\ stack = <<>> /\ regs = <<>> /\ pending = RUN /\ jumped = FALSE /\ flying = FALSE
      /\ iu_exception = [exception |-> NULL, uncaught |-> 0, caught |-> NULL]
      /\ header = [a \in Addresses |-> [alloc |-> FALSE, handlers |-> 0, next |-> NULL]]
      /\ lost = [thrown |-> 0, other |-> 0]
  BY DEF CxxInit, Init
<1>2. Len(stack) = 0 /\ Len(regs) = 0 /\ 1..0 = {} /\ \A i : i \notin 1..0
  BY <1>1
<1>3. Waits
  <2>1. HeldWell(stack, regs)
    BY <1>2 DEF HeldWell
  <2> QED BY <2>1, <1>1 DEF Waits, RUN
<1>4. \A i, j : ~IsPlace(regs, i, j)
  BY <1>2 DEF IsPlace
<1>5. Placed
  <2>1. Unique(regs) /\ Fits(regs, header) /\ Flies(regs, header, Flight)
    BY <1>1, <1>4 DEF Unique, Fits, Flies, Flight
  <2>2. <<>> \in Seq(Exceptions) /\ Len(<<>>) = 0
    BY EmptySeq
  <2>3. Ordered(regs, <<>>) /\ Chain(<<>>, header, iu_exception.caught)
    BY <1>1, <1>2, <1>4, <2>2 DEF Ordered, Chain, Distinct
  <2>4. Listed(regs, header, iu_exception.caught)
    BY <2>2, <2>3 DEF Listed
  <2> QED BY <2>1, <2>4 DEF Placed
<1>6. Counted
  <2>1. HeldBy(regs, 1, "pad") = {} /\ HeldBy(regs, 1, "handler") = {} /\ NewBy(regs, 1) = {}
    BY <1>2, HeldMember DEF NewBy
  <2>2. {e \in Exceptions : header[e].alloc} = {}
    BY <1>1 DEF Addresses
  <2>3. Pads(regs) = 0 /\ Handlers(regs) = 0 /\ News(regs) = 0 /\ Allocated(header) = 0
    BY <2>1, <2>2, FS_EmptySet DEF Pads, Handlers, News, Allocated
  <2>4. lost.thrown = 0 /\ lost.other = 0 /\ iu_exception.uncaught = 0 /\ Bit(flying) = 0
    BY <1>1 DEF Bit
  <2>5. Balance(regs, header, flying, iu_exception, lost)
    BY <2>3, <2>4 DEF Balance
  <2> QED BY <2>5, CountedIs
<1> QED BY <1>3, <1>5, <1>6, InitCxxType DEF CxxInv

LEMMA NextCxx ==
  ASSUME TRUE \notin Rethrows, CallInv, CallInv', FlightInv, CxxInv, [CxxStep]_cxxvars
  PROVE  CxxInv'
<1>1. CxxTypeOK /\ Waits /\ Placed /\ Counted
  BY DEF CxxInv
<1>2. CxxTypeOK'
  BY <1>1, NextCxxType
<1>3. Waits'
  BY <1>1, NextWaits
<1>4. CASE CxxEnter \/ CxxCalls \/ CxxReturns \/ CxxPropagates \/ CxxContinues \/ UNCHANGED cxxvars
  <2>1. Placed'
    BY <1>1, <1>4, CallsPlaced
  <2>2. Counted'
    BY <1>1, <1>4, CallsCounted
  <2> QED BY <2>1, <2>2, <1>2, <1>3 DEF CxxInv
<1>5. CASE CxxCallReturns
  BY <1>1, <1>2, <1>3, <1>5, CallsPlaced, CallReturnsCounted DEF CxxInv
<1>6. CASE CxxStop
  BY <1>1, <1>2, <1>3, <1>6, CallsPlaced, StopCounted DEF CxxInv
<1>7. CASE \E e \in Exceptions : Allocate(e)
  BY <1>1, <1>2, <1>3, <1>7, AllocatePlaced, AllocateCounted DEF CxxInv
<1>8. CASE FreeNew
  BY <1>1, <1>2, <1>3, <1>8, FreeNewPlaced, FreeNewCounted DEF CxxInv
<1>9. CASE \E again \in Rethrows, e \in Addresses : Throw(again, e)
  <2>1. PICK e \in Addresses : Throw(FALSE, e)
    BY <1>9, CxxAssumption
  <2> QED BY <1>1, <1>2, <1>3, <2>1, ThrowPlaced, ThrowCounted DEF CxxInv
<1>10. CASE LandingPad
  BY <1>1, <1>2, <1>3, <1>10, LandingPadPlaced, LandingPadCounted DEF CxxInv
<1>11. CASE Resume
  BY <1>1, <1>2, <1>3, <1>11, ResumePlaced, ResumeCounted DEF CxxInv
<1>12. CASE BeginCatch
  BY <1>1, <1>2, <1>3, <1>12, BeginCatchPlaced, BeginCatchCounted DEF CxxInv
<1>13. CASE EndCatch
  BY <1>1, <1>2, <1>3, <1>13, EndCatchPlaced, EndCatchCounted DEF CxxInv
<1> QED BY <1>4, <1>5, <1>6, <1>7, <1>8, <1>9, <1>10, <1>11, <1>12, <1>13 DEF CxxStep

LEMMA CxxInvAccounts == CxxInv => ExceptionsAccounted
<1> SUFFICES ASSUME CxxInv PROVE ExceptionsAccounted
  OBVIOUS
<1>1. ASSUME NEW e \in InUse PROVE header[e].alloc
  <2>1. Fits(regs, header) /\ Flies(regs, header, Flight) /\ regs \in Seq(Reg)
    BY DEF CxxInv, Placed, CxxTypeOK
  <2>2. e # NULL
    BY DEF InUse
  <2>3. CASE flying /\ e = iu_exception.exception
    BY <2>1, <2>3 DEF Flies, Flight
  <2>4. CASE \E i \in 1..Len(regs) : e = regs[i].new
    <3>1. PICK i \in 1..Len(regs) : e = regs[i].new
      BY <2>4
    <3>2. 0 \in 0..Len(regs[i].open)
      BY <2>1, RegFields
    <3>3. IsPlace(regs, i, 0) /\ At(regs, i, 0) = e
      BY <3>1, <3>2, <2>2 DEF IsPlace, At
    <3> QED BY <3>3, <2>1 DEF Fits
  <2>5. CASE \E i \in 1..Len(regs) : \E j \in 1..Len(regs[i].open) : e = regs[i].open[j].exc
    <3>1. PICK i \in 1..Len(regs) : \E j \in 1..Len(regs[i].open) : e = regs[i].open[j].exc
      BY <2>5
    <3>2. PICK j \in 1..Len(regs[i].open) : e = regs[i].open[j].exc
      BY <3>1
    <3>3. j \in 0..Len(regs[i].open) /\ j # 0
      BY <2>1, RegFields
    <3>4. IsPlace(regs, i, j) /\ At(regs, i, j) = e
      BY <3>2, <3>3 DEF IsPlace, At
    <3> QED BY <3>4, <2>1 DEF Fits
  <2>6. \/ \E i \in 1..Len(regs) :
             e \in {regs[i].new} \cup {regs[i].open[j].exc : j \in 1..Len(regs[i].open)}
        \/ flying /\ e = iu_exception.exception
    <3> DEFINE H == UNION {{regs[i].new} \cup {regs[i].open[j].exc : j \in 1..Len(regs[i].open)} : i \in 1..Len(regs)}
           F == {IF flying THEN iu_exception.exception ELSE NULL}
    <3>1. InUse = (H \cup F) \ {NULL}
      BY Zenon DEF InUse
    <3>2. e \in F => flying /\ e = iu_exception.exception
      BY <2>2
    <3> HIDE DEF F
    <3>3. e \in H \/ e \in F
      <4> HIDE DEF H
      <4> QED BY <3>1
    <3> QED BY <3>2, <3>3
  <2> QED BY <2>3, <2>4, <2>5, <2>6
<1> QED BY <1>1 DEF CxxInv, Counted, ExceptionsAccounted

(* No exception is freed while it is in use, none is lost but those of     *)
(* stopped calls and those the host received, and uncaught counts those    *)
(* thrown and not caught: for any number of exceptions and any nesting of  *)
(* calls, throws, handlers, cleanups and stops.  "throw;" passes whatever  *)
(* is in the registers to __cxa_throw, and JSR_R drops the exception of an *)
(* external function called by pointer, so the guest must have neither.    *)
THEOREM CxxAccounted ==
  ~IndirectThrows /\ TRUE \notin Rethrows => (CxxSpec => []ExceptionsAccounted)
<1> SUFFICES ASSUME ~IndirectThrows, TRUE \notin Rethrows PROVE CxxSpec => []ExceptionsAccounted
  OBVIOUS
<1> DEFINE I == CallInv /\ FramesOK(stack) /\ FlightInv
<1>1. CxxInit => I /\ CxxInv
  BY InitCall, InitFrames, InitFlight, InitCxx DEF CxxInit
<1>2. I /\ CxxInv /\ [CxxStep]_cxxvars => I' /\ CxxInv'
  <2> SUFFICES ASSUME I, CxxInv, [CxxStep]_cxxvars PROVE I' /\ CxxInv'
    OBVIOUS
  <2>1. [Next]_vars
    BY CxxStepIsCall
  <2>2. I'
    BY <2>1, NextCall, NextFrames, NextFlight
  <2> QED BY <2>2, NextCxx
<1>3. CxxInv => ExceptionsAccounted
  BY CxxInvAccounts
<1> QED BY <1>1, <1>2, <1>3, CxxNextIsStep, PTL DEF CxxSpec
=============================================================================
