---------------------------- MODULE VmCallProofs ----------------------------
(***************************************************************************)
(* Proofs about calls into the virtual machine, for any depth of nesting   *)
(* and any number of heap blocks.                                          *)
(***************************************************************************)
EXTENDS VmCall, SequenceTheorems, TLAPS

LEMMA ActFields ==
  ASSUME NEW k, NEW s, NEW lo, NEW hi, NEW b, NEW p
  PROVE  /\ Act(k, s, lo, hi, b, p).kind = k
         /\ Act(k, s, lo, hi, b, p).lo = lo
         /\ Act(k, s, lo, hi, b, p).hi = hi
         /\ Act(k, s, lo, hi, b, p).block = b
         /\ Act(k, s, lo, hi, b, p).prevjb = p
BY DEF Act

LEMMA ActType ==
  ASSUME NEW k \in Kinds, NEW s \in Sites, NEW lo \in Nat, NEW hi \in Nat,
         NEW b \in Nat, NEW p \in Nat
  PROVE  Act(k, s, lo, hi, b, p) \in Activation
BY DEF Act, Activation

(* t has the calls of s at the same places, with the same locals. *)
SameCalls(s, t) ==
  /\ \A i \in 1..Len(s) : s[i].kind = "call" =>
       /\ i \in 1..Len(t) /\ t[i].kind = "call"
       /\ t[i].block = s[i].block /\ t[i].prevjb = s[i].prevjb
  /\ \A i \in 1..Len(t) : t[i].kind = "call" => i \in 1..Len(s) /\ s[i].kind = "call"

(* A step that leaves the active calls alone keeps what is said of them. *)
LEMMA QuietStep ==
  ASSUME JmpbufIsInnermost, StacksAccounted,
         stack \in Seq(Activation), stack' \in Seq(Activation), SameCalls(stack, stack'),
         UNCHANGED <<iu_err_jmpbuf, iu_stack_stash, inheap>>
  PROVE  JmpbufIsInnermost' /\ StacksAccounted'
<1>0. Len(stack) \in Nat /\ Len(stack') \in Nat
  OBVIOUS
<1>1. \A i : IsCall(i)' <=> IsCall(i)
  BY DEF SameCalls, IsCall
<1>2. \A i : IsCall(i) => /\ i \in 1..Len(stack) /\ i \in 1..Len(stack')
                          /\ stack'[i].block = stack[i].block
                          /\ stack'[i].prevjb = stack[i].prevjb
  BY DEF SameCalls, IsCall
<1>3. JmpbufIsInnermost'
  <2>1. InnermostBelow(iu_err_jmpbuf, Len(stack) + 1)'
    <3>1. InnermostBelow(iu_err_jmpbuf, Len(stack) + 1)
      BY DEF JmpbufIsInnermost
    <3>2. iu_err_jmpbuf' = NULL \/ (iu_err_jmpbuf' < Len(stack') + 1 /\ IsCall(iu_err_jmpbuf)')
      BY <3>1, <1>0, <1>1, <1>2 DEF InnermostBelow
    <3>3. ASSUME NEW k \in 1..((Len(stack') + 1) - 1), IsCall(k)' PROVE k <= iu_err_jmpbuf'
      <4>1. IsCall(k) /\ k \in 1..((Len(stack) + 1) - 1)
        BY <3>3, <1>0, <1>1, <1>2
      <4> QED BY <4>1, <3>1 DEF InnermostBelow
    <3> QED BY <3>2, <3>3 DEF InnermostBelow
  <2>2. ASSUME NEW i \in 1..Len(stack'), IsCall(i)' PROVE InnermostBelow(stack[i].prevjb, i)'
    <3>1. IsCall(i) /\ i \in 1..Len(stack) /\ stack'[i].prevjb = stack[i].prevjb
      BY <2>2, <1>1, <1>2
    <3>2. InnermostBelow(stack[i].prevjb, i)
      BY <3>1 DEF JmpbufIsInnermost
    <3> QED BY <3>1, <3>2, <1>1 DEF InnermostBelow
  <2> QED BY <2>1, <2>2 DEF JmpbufIsInnermost
<1>4. StacksAccounted'
  <2>1. {stack'[i].block : i \in {k \in 1..Len(stack') : IsCall(k)'}}
          = {stack[i].block : i \in {k \in 1..Len(stack) : IsCall(k)}}
    BY <1>1, <1>2
  <2>2. inheap' = {stack'[i].block : i \in {k \in 1..Len(stack') : IsCall(k)'}}
                    \cup ({iu_stack_stash'} \ {NULL})
    BY <2>1 DEF StacksAccounted
  <2>3. \A i, j \in 1..Len(stack') :
          IsCall(i)' /\ IsCall(j)' /\ stack'[i].block = stack'[j].block => i = j
    BY <1>1, <1>2 DEF StacksAccounted
  <2>4. \A i \in 1..Len(stack') : IsCall(i)' => stack'[i].block # iu_stack_stash'
    BY <1>1, <1>2 DEF StacksAccounted
  <2> QED BY <2>2, <2>3, <2>4 DEF StacksAccounted
<1> QED BY <1>3, <1>4

-----------------------------------------------------------------------------
(* Control inside the VM: what the instructions do to the stack. *)

(* t is s with its last activation replaced by one of the same kind. *)
LEMMA TopFacts ==
  ASSUME stack \in Seq(Activation), stack # <<>>
  PROVE  /\ Len(stack) \in Nat /\ Len(stack) >= 1 /\ Len(stack) \in 1..Len(stack)
         /\ Top \in Activation
         /\ Top.kind \in Kinds /\ Top.site \in Sites /\ Top.lo \in Nat /\ Top.hi \in Nat
         /\ Top.block \in Nat /\ Top.prevjb \in Nat
<1>1. Len(stack) \in Nat /\ Len(stack) >= 1 /\ Len(stack) \in 1..Len(stack)
  OBVIOUS
<1>2. Top \in Activation
  BY <1>1 DEF Top
<1> QED BY <1>1, <1>2 DEF Activation

(* t has the same activations as s up to their site and allocaptr. *)
SameShape(s, t) ==
  /\ t \in Seq(Activation)
  /\ Len(t) = Len(s)
  /\ \A i \in 1..Len(s) :
       t[i].kind = s[i].kind /\ t[i].block = s[i].block /\ t[i].prevjb = s[i].prevjb

LEMMA WaitingShape ==
  ASSUME stack \in Seq(Activation), stack # <<>>, NEW site \in Sites
  PROVE  SameShape(stack, Waiting(site))
<1> DEFINE a == Act(Top.kind, site, Top.lo, Top.hi, Top.block, Top.prevjb)
<1>0. /\ Top.kind \in Kinds /\ Top.site \in Sites /\ Top.lo \in Nat /\ Top.hi \in Nat
      /\ Top.block \in Nat /\ Top.prevjb \in Nat
  BY TopFacts
<1>1. a \in Activation /\ a.kind = Top.kind /\ a.block = Top.block /\ a.prevjb = Top.prevjb
  <2>1. a \in Activation
    BY <1>0, ActType, Zenon
  <2>2. a.kind = Top.kind /\ a.block = Top.block /\ a.prevjb = Top.prevjb
    BY DEF Act
  <2> QED BY <2>1, <2>2
<1>2. Waiting(site) = [stack EXCEPT ![Len(stack)] = a]
  BY DEF Waiting
<1> HIDE DEF a
<1>3. /\ [stack EXCEPT ![Len(stack)] = a] \in Seq(Activation)
      /\ Len([stack EXCEPT ![Len(stack)] = a]) = Len(stack)
      /\ \A i \in 1..Len(stack) :
           [stack EXCEPT ![Len(stack)] = a][i] = IF i = Len(stack) THEN a ELSE stack[i]
  BY <1>1, TopFacts
<1> QED BY <1>1, <1>2, <1>3 DEF SameShape, Top

LEMMA MovedShape ==
  ASSUME stack \in Seq(Activation), stack # <<>>, NEW hi \in Nat
  PROVE  SameShape(stack, Moved(hi))
<1> DEFINE a == Act(Top.kind, Top.site, Top.lo, hi, Top.block, Top.prevjb)
<1>0. /\ Top.kind \in Kinds /\ Top.site \in Sites /\ Top.lo \in Nat /\ Top.hi \in Nat
      /\ Top.block \in Nat /\ Top.prevjb \in Nat
  BY TopFacts
<1>1. a \in Activation /\ a.kind = Top.kind /\ a.block = Top.block /\ a.prevjb = Top.prevjb
  <2>1. a \in Activation
    BY <1>0, ActType, Zenon
  <2>2. a.kind = Top.kind /\ a.block = Top.block /\ a.prevjb = Top.prevjb
    BY DEF Act
  <2> QED BY <2>1, <2>2
<1>2. Moved(hi) = [stack EXCEPT ![Len(stack)] = a]
  BY DEF Moved
<1> HIDE DEF a
<1>3. /\ [stack EXCEPT ![Len(stack)] = a] \in Seq(Activation)
      /\ Len([stack EXCEPT ![Len(stack)] = a]) = Len(stack)
      /\ \A i \in 1..Len(stack) :
           [stack EXCEPT ![Len(stack)] = a][i] = IF i = Len(stack) THEN a ELSE stack[i]
  BY <1>1, TopFacts
<1> QED BY <1>1, <1>2, <1>3 DEF SameShape, Top

(* Replacing the last activation by one of the same kind. *)
LEMMA ShapeStep ==
  ASSUME CallInv, stack # <<>>, SameShape(stack, stack'),
         UNCHANGED <<iu_err_jmpbuf, iu_stack_stash, inheap>>,
         pending' = RUN, Top.kind # "call", TypeOK'
  PROVE  CallInv'
<1>0. stack \in Seq(Activation) /\ stack' \in Seq(Activation)
  BY DEF CallInv, TypeOK, SameShape
<1>1. SameCalls(stack, stack')
  BY DEF SameShape, SameCalls
<1>2. JmpbufIsInnermost' /\ StacksAccounted'
  BY <1>0, <1>1, QuietStep DEF CallInv
<1>3. Len(stack) \in Nat /\ Len(stack) >= 1 /\ Len(stack') = Len(stack)
  BY <1>0, TopFacts DEF SameShape
<1>4. Nesting'
  <2>1. stack'[1].kind = "call"
    BY <1>3 DEF CallInv, Nesting, SameShape
  <2>2. ASSUME NEW i \in 2..Len(stack'), stack'[i].kind = "call"
        PROVE  stack'[i-1].kind = "ext"
    <3>1. i \in 1..Len(stack) /\ i \in 2..Len(stack) /\ i - 1 \in 1..Len(stack)
      BY <1>3
    <3> QED BY <2>2, <3>1 DEF CallInv, Nesting, SameShape
  <2>3. Top'.kind # "call"
    BY <1>3 DEF Top, SameShape
  <2>4. \A i \in 1..Len(stack') : stack'[i].block \in Blocks
    BY <1>3 DEF CallInv, Nesting, SameShape
  <2> QED BY <2>1, <2>2, <2>3, <2>4 DEF Nesting
<1> QED BY <1>2, <1>4 DEF CallInv

(* Leaving activations above position n, none of which is a call. *)
LEMMA CutStep ==
  ASSUME CallInv, NEW n \in 1..Len(stack), stack' = SubSeq(stack, 1, n),
         \A i \in (n+1)..Len(stack) : stack[i].kind # "call",
         UNCHANGED <<iu_err_jmpbuf, iu_stack_stash, inheap>>,
         pending' # RUN, TypeOK'
  PROVE  CallInv'
<1>0. stack \in Seq(Activation) /\ Len(stack) \in Nat /\ n \in Nat
  BY DEF CallInv, TypeOK
<1>1. /\ stack' \in Seq(Activation) /\ Len(stack') = n
      /\ \A i \in 1..n : stack'[i] = stack[i]
  BY <1>0
<1>2. \A i \in 1..n : i \in 1..Len(stack)
  BY <1>0
<1>3. \A i \in 1..Len(stack) : i \in 1..n \/ i \in (n+1)..Len(stack)
  BY <1>0
<1>4. SameCalls(stack, stack')
  BY <1>1, <1>2, <1>3 DEF SameCalls
<1>5. JmpbufIsInnermost' /\ StacksAccounted'
  BY <1>0, <1>1, <1>4, QuietStep DEF CallInv
<1>6. Nesting'
  <2>0. stack # <<>> /\ 1 \in 1..n
    BY <1>0
  <2>1. stack'[1].kind = "call"
    BY <2>0, <1>1 DEF CallInv, Nesting
  <2>2. ASSUME NEW i \in 2..n, stack'[i].kind = "call"
        PROVE  stack'[i-1].kind = "ext"
    <3>1. i \in 1..n /\ i \in 2..Len(stack) /\ i - 1 \in 1..n
      BY <1>0
    <3> QED BY <2>2, <3>1, <1>1 DEF CallInv, Nesting
  <2>3. \A i \in 1..n : stack'[i].block \in Blocks
    BY <1>1, <1>2 DEF CallInv, Nesting
  <2>4. stack' # <<>>
    BY <1>1
  <2> QED BY <2>1, <2>2, <2>3, <2>4, <1>1 DEF Nesting
<1> QED BY <1>5, <1>6 DEF CallInv

LEMMA Predecessor ==
  ASSUME NEW n \in Nat, n >= 1
  PROVE  /\ n - 1 \in Nat /\ n - 1 <= n
         /\ n - 1 # 0 => n \in 2..n /\ n - 1 \in 1..(n-1) /\ 1 \in 1..(n-1)
OBVIOUS

LEMMA OneLess ==
  ASSUME NEW n \in Nat, n >= 1, n # 1
  PROVE  n - 1 \in 1..n /\ n - 1 < n /\ (n - 1) + 1 = n /\ n > 1 /\ n - 1 \in 1..(n-1)
OBVIOUS

(* Leaving the running activation. *)
LEMMA PopStep ==
  ASSUME CallInv, stack # <<>>, Top.kind # "call", stack' = Pop,
         UNCHANGED <<iu_err_jmpbuf, iu_stack_stash, inheap>>,
         pending' # RUN, TypeOK'
  PROVE  CallInv'
<1>0. stack \in Seq(Activation) /\ Len(stack) \in Nat /\ Len(stack) >= 1
  BY TopFacts DEF CallInv, TypeOK
<1>1. Len(stack) # 1
  <2>1. stack[1].kind = "call"
    BY DEF CallInv, Nesting
  <2> QED BY <2>1 DEF Top
<1>2. Len(stack) - 1 \in 1..Len(stack)
  BY <1>0, <1>1, OneLess, Zenon
<1>3. \A i \in ((Len(stack) - 1) + 1)..Len(stack) : i = Len(stack)
  BY <1>0
<1>4. \A i \in ((Len(stack) - 1) + 1)..Len(stack) : stack[i].kind # "call"
  BY <1>3 DEF Top
<1> QED BY <1>2, <1>4, CutStep DEF Pop

(* Calling a function from guest code: one more activation, not a call. *)
LEMMA PushStep ==
  ASSUME CallInv, stack # <<>>, NEW t, SameShape(stack, t), NEW a \in Activation,
         a.kind # "call", a.block = Top.block, stack' = Append(t, a), Top.kind # "call",
         UNCHANGED <<iu_err_jmpbuf, iu_stack_stash, inheap>>,
         pending' = RUN, TypeOK'
  PROVE  CallInv'
<1>0. /\ stack \in Seq(Activation) /\ Len(stack) \in Nat /\ Len(stack) >= 1
      /\ Len(stack) \in 1..Len(stack)
  BY TopFacts DEF CallInv, TypeOK
<1> DEFINE n == Len(stack)
<1>1. t \in Seq(Activation) /\ Len(t) = n
  BY DEF SameShape
<1>2. /\ stack' \in Seq(Activation) /\ Len(stack') = n + 1 /\ stack'[n + 1] = a
      /\ \A i \in 1..n : stack'[i] = t[i]
  BY <1>0, <1>1
<1>3. \A i \in 1..n : /\ stack'[i].kind = stack[i].kind
                      /\ stack'[i].block = stack[i].block
                      /\ stack'[i].prevjb = stack[i].prevjb
  BY <1>2 DEF SameShape
<1>4. \A i \in 1..(n+1) : i \in 1..n \/ i = n + 1
  BY <1>0
<1>5. \A i \in 1..n : i \in 1..(n+1)
  BY <1>0
<1>6. SameCalls(stack, stack')
  BY <1>2, <1>3, <1>4, <1>5 DEF SameCalls
<1>7. JmpbufIsInnermost' /\ StacksAccounted'
  BY <1>0, <1>2, <1>6, QuietStep DEF CallInv
<1>8. Nesting'
  <2>1. stack'[1].kind = "call"
    <3>1. 1 \in 1..n
      BY <1>0
    <3> QED BY <3>1, <1>3 DEF CallInv, Nesting
  <2>2. ASSUME NEW i \in 2..(n+1), stack'[i].kind = "call"
        PROVE  stack'[i-1].kind = "ext"
    <3>1. i \in 1..(n+1) /\ i # n + 1
      BY <2>2, <1>0, <1>2
    <3>2. i \in 1..n /\ i \in 2..n /\ i - 1 \in 1..n
      BY <3>1, <1>0
    <3> QED BY <2>2, <3>2, <1>3 DEF CallInv, Nesting
  <2>3. Top'.kind # "call"
    BY <1>2 DEF Top
  <2>4. Top.block \in Blocks
    BY <1>0 DEF Top, CallInv, Nesting
  <2>5. \A i \in 1..(n+1) : stack'[i].block \in Blocks
    BY <2>4, <1>2, <1>3, <1>4 DEF CallInv, Nesting
  <2> QED BY <2>1, <2>2, <2>3, <2>5, <1>2 DEF Nesting
<1> QED BY <1>7, <1>8 DEF CallInv

-----------------------------------------------------------------------------
(* vmir_vm_function_call *)

Active == {stack[i].block : i \in {k \in 1..Len(stack) : IsCall(k)}}

LEMMA EnterStep ==
  ASSUME CallInv, MayCall, NEW block \in Blocks, block \notin Active,
         NEW kind \in {"exec", "ext"}, Enter(block, kind),
         inheap' = Active \cup {block}, iu_stack_stash' = NULL
  PROVE  CallInv'
<1> DEFINE n == Len(stack)
           c == Act("call", "none", 0, 0, block, iu_err_jmpbuf)
           e == Act(kind, "none", 0, 0, block, NULL)
<1>0. stack \in Seq(Activation) /\ n \in Nat /\ iu_err_jmpbuf \in Nat /\ block \in Nat
  BY VmAssumption DEF CallInv, TypeOK
<1>1. c \in Activation /\ c.kind = "call" /\ c.block = block /\ c.prevjb = iu_err_jmpbuf
  BY <1>0 DEF Act, Activation, Kinds, Sites
<1>2. e \in Activation /\ e.kind = kind /\ e.block = block
  BY <1>0 DEF Act, Activation, Kinds, Sites, NULL
<1>3. /\ stack' = stack \o <<c, e>> /\ iu_err_jmpbuf' = n + 1
      /\ UNCHANGED <<pending, jumped, flying, result>>
  BY DEF Enter
<1> HIDE DEF c, e
<1>4. /\ stack' \in Seq(Activation) /\ Len(stack') = n + 2
      /\ stack'[n + 1] = c /\ stack'[n + 2] = e
      /\ \A i \in 1..n : stack'[i] = stack[i]
  BY <1>0, <1>1, <1>2, <1>3
<1>5. \A i \in 1..(n+2) : i \in 1..n \/ i = n + 1 \/ i = n + 2
  BY <1>0
<1>6. /\ n + 1 \in 1..(n+2) /\ n + 2 \in 1..(n+2) /\ n + 1 # n + 2
      /\ \A i \in 1..n : i \in 1..(n+2) /\ i # n + 1 /\ i # n + 2
  BY <1>0
<1>7. \A i : IsCall(i)' <=> (IsCall(i) \/ i = n + 1)
  BY <1>1, <1>2, <1>4, <1>5, <1>6 DEF IsCall
<1>8. \A i : IsCall(i) => i \in 1..n
  BY DEF IsCall
<1>9. TypeOK'
  BY <1>0, <1>3, <1>4 DEF CallInv, TypeOK, Active, StacksAccounted
<1>10. Nesting'
  <2>1. pending = RUN
    BY DEF MayCall
  <2>2. stack'[1].kind = "call"
    <3>1. CASE stack = <<>>
      BY <3>1, <1>1, <1>4
    <3>2. CASE stack # <<>>
      <4>1. 1 \in 1..n
        BY <3>2, <1>0
      <4> QED BY <3>2, <4>1, <1>4 DEF CallInv, Nesting
    <3> QED BY <3>1, <3>2
  <2>3. ASSUME NEW i \in 2..(n+2), stack'[i].kind = "call"
        PROVE  stack'[i-1].kind = "ext"
    <3>1. i \in 1..(n+2)
      BY <1>0
    <3>2. i \in 1..n \/ i = n + 1
      BY <3>1, <2>3, <1>2, <1>4, <1>5
    <3>3. CASE i \in 1..n
      <4>1. i \in 2..n /\ i - 1 \in 1..n
        BY <3>3, <1>0
      <4> QED BY <2>3, <3>3, <4>1, <1>4 DEF CallInv, Nesting
    <3>4. CASE i = n + 1
      <4>1. i - 1 = n /\ n \in 1..n /\ n # 0
        BY <3>4, <1>0
      <4>2. stack # <<>>
        BY <4>1
      <4> QED BY <4>1, <4>2, <1>4 DEF MayCall, Top
    <3> QED BY <3>2, <3>3, <3>4
  <2>4. Top'.kind # "call"
    BY <1>2, <1>4 DEF Top
  <2>5. \A i \in 1..(n+2) : stack'[i].block \in Blocks
    BY <1>1, <1>2, <1>4, <1>5 DEF CallInv, Nesting
  <2> QED BY <2>1, <2>2, <2>3, <2>4, <2>5, <1>3, <1>4 DEF Nesting
<1>11. JmpbufIsInnermost'
  <2>1. InnermostBelow(iu_err_jmpbuf, Len(stack) + 1)'
    <3>1. iu_err_jmpbuf' < Len(stack') + 1 /\ IsCall(iu_err_jmpbuf)'
      BY <1>0, <1>3, <1>4, <1>7
    <3>2. \A k : IsCall(k)' => k <= iu_err_jmpbuf'
      BY <1>0, <1>3, <1>7, <1>8
    <3> QED BY <3>1, <3>2 DEF InnermostBelow
  <2>2. ASSUME NEW i \in 1..Len(stack'), IsCall(i)' PROVE InnermostBelow(stack[i].prevjb, i)'
    <3>1. IsCall(i) \/ i = n + 1
      BY <2>2, <1>7
    <3>2. CASE IsCall(i)
      <4>1. i \in 1..n /\ stack'[i].prevjb = stack[i].prevjb
        BY <3>2, <1>4, <1>8
      <4>2. InnermostBelow(stack[i].prevjb, i)
        BY <4>1, <3>2 DEF CallInv, JmpbufIsInnermost
      <4>3. \A k \in 1..(i-1) : k # n + 1
        BY <4>1, <1>0
      <4> QED BY <4>1, <4>2, <4>3, <1>7 DEF InnermostBelow
    <3>3. CASE i = n + 1
      <4>1. stack'[i].prevjb = iu_err_jmpbuf
        BY <3>3, <1>1, <1>4
      <4>2. InnermostBelow(iu_err_jmpbuf, n + 1)
        BY DEF CallInv, JmpbufIsInnermost
      <4>3. \A k \in 1..(i-1) : k # n + 1
        BY <3>3, <1>0
      <4> QED BY <3>3, <4>1, <4>2, <4>3, <1>7 DEF InnermostBelow
    <3> QED BY <3>1, <3>2, <3>3
  <2> QED BY <2>1, <2>2 DEF JmpbufIsInnermost
<1>12. StacksAccounted'
  <2>1. \A i : IsCall(i) => stack'[i].block = stack[i].block /\ stack[i].block \in Active
    BY <1>4, <1>8 DEF Active
  <2>2. {stack'[i].block : i \in {k \in 1..Len(stack') : IsCall(k)'}} = Active \cup {block}
    <3>1. \A i : IsCall(i)' => stack'[i].block \in Active \cup {block}
      BY <2>1, <1>1, <1>4, <1>7
    <3>2. \E m \in 1..Len(stack') : IsCall(m)' /\ stack'[m].block = block
      <4>1. PICK m \in 1..Len(stack') : m = n + 1
        BY <1>4, <1>6
      <4>2. IsCall(m)' /\ stack'[m].block = block
        BY <4>1, <1>1, <1>4, <1>7
      <4> QED BY <4>2
    <3>3. ASSUME NEW b \in Active
          PROVE  \E i \in 1..Len(stack') : IsCall(i)' /\ stack'[i].block = b
      <4>1. PICK i \in 1..n : IsCall(i) /\ stack[i].block = b
        BY <3>3 DEF Active
      <4>2. i \in 1..Len(stack') /\ IsCall(i)' /\ stack'[i].block = b
        BY <4>1, <2>1, <1>4, <1>6, <1>7
      <4> QED BY <4>2
    <3> DEFINE A == {stack'[i].block : i \in {k \in 1..Len(stack') : IsCall(k)'}}
    <3>4. A \subseteq Active \cup {block}
      BY <3>1
    <3>5. block \in A /\ Active \subseteq A
      BY <3>2, <3>3
    <3> HIDE DEF A
    <3>6. A = Active \cup {block}
      BY <3>4, <3>5
    <3> QED BY <3>6 DEF A
  <2>3. ASSUME NEW i \in 1..Len(stack'), NEW j \in 1..Len(stack'), IsCall(i)', IsCall(j)',
               stack'[i].block = stack'[j].block
        PROVE  i = j
    BY <2>1, <2>3, <1>1, <1>4, <1>7, <1>8 DEF CallInv, StacksAccounted
  <2>4. \A i \in 1..Len(stack') : stack'[i].block # NULL
    BY <1>4, <1>10, VmAssumption DEF Nesting, NULL
  <2> QED BY <2>2, <2>3, <2>4 DEF StacksAccounted
<1> QED BY <1>9, <1>10, <1>11, <1>12 DEF CallInv

LEMMA ReturnStep ==
  ASSUME CallInv, CallReturns
  PROVE  CallInv'
<1> DEFINE n == Len(stack)
<1>0. stack \in Seq(Activation) /\ stack # <<>>
  BY DEF CallReturns, CallInv, TypeOK, Nesting
<1>1. n \in Nat /\ n >= 1 /\ n \in 1..n
  BY <1>0
<1>2. IsCall(n)
  BY <1>1 DEF CallReturns, Top, IsCall
<1>3. /\ stack' \in Seq(Activation) /\ Len(stack') = n - 1
      /\ \A i \in 1..(n-1) : stack'[i] = stack[i]
  <2>1. stack' = SubSeq(stack, 1, n - 1)
    BY DEF CallReturns, Pop
  <2>2. n - 1 \in Nat /\ n - 1 <= n
    BY <1>1, Predecessor
  <2> HIDE DEF n
  <2>3. n = Len(stack)
    BY DEF n
  <2> QED BY <2>1, <2>2, <2>3, <1>0, <1>1
<1>4. /\ \A i \in 1..n : i \in 1..(n-1) \/ i = n
      /\ \A i \in 1..(n-1) : i \in 1..n /\ i # n
  BY <1>1
<1>5. \A i : IsCall(i)' <=> (IsCall(i) /\ i # n)
  BY <1>3, <1>4 DEF IsCall
<1>6. \A i : IsCall(i) => i \in 1..n
  BY DEF IsCall
<1>7. /\ Top = stack[n] /\ Top.block \in Blocks /\ Top.block # NULL
      /\ Top.prevjb \in Nat
  <2>1. Top = stack[n] /\ Top.block \in Blocks
    BY <1>1 DEF Top, CallInv, Nesting
  <2> QED BY <2>1, <1>0, TopFacts, VmAssumption DEF NULL
<1>8. TypeOK'
  <2>1. result' \in Codes
    <3>1. pending \in {RUN, 0, 1} \cup StopReasons /\ pending # RUN /\ result' = Outcome(jumped, pending)
      BY DEF CallReturns, CallInv, TypeOK
    <3>2. pending \in Codes /\ VM_STOP_UNCAUGHT_EXCEPTION \in Codes
      BY <3>1 DEF Codes, StopReasons, ExtReasons, ExecReasons, VM_STOP_OK, VM_STOP_EXIT
    <3> QED BY <3>1, <3>2 DEF Outcome
  <2>2. iu_err_jmpbuf' \in Nat /\ iu_stack_stash' \in Blocks \cup {NULL} /\ inheap' \subseteq Blocks
    BY <1>7 DEF CallReturns, Unwound, Stashed, CallInv, TypeOK
  <2> QED BY <2>1, <2>2, <1>3 DEF CallReturns, TypeOK
<1>9. Nesting'
  <2>1. ASSUME NEW i \in 2..(n-1), stack'[i].kind = "call" PROVE stack'[i-1].kind = "ext"
    <3>1. i \in 1..(n-1) /\ i \in 2..n /\ i - 1 \in 1..(n-1)
      BY <1>1
    <3> QED BY <2>1, <3>1, <1>3 DEF CallInv, Nesting
  <2>2. ASSUME stack' # <<>> PROVE Top'.kind # "call" /\ stack'[1].kind = "call"
    <3>1. n - 1 # 0
      BY <2>2, <1>3
    <3>2. n \in 2..n /\ n - 1 \in 1..(n-1) /\ 1 \in 1..(n-1)
      BY <3>1, <1>1, Predecessor
    <3>3. stack[n-1].kind = "ext"
      BY <3>2, <1>2 DEF IsCall, CallInv, Nesting
    <3>4. Top' = stack[n-1]
      BY <3>2, <1>3 DEF Top
    <3>5. stack'[1].kind = "call"
      BY <3>2, <1>0, <1>3 DEF CallInv, Nesting
    <3> QED BY <3>3, <3>4, <3>5
  <2>3. \A i \in 1..(n-1) : stack'[i].block \in Blocks
    BY <1>3, <1>4 DEF CallInv, Nesting
  <2>4. pending' = RUN
    BY DEF CallReturns
  <2> QED BY <2>1, <2>2, <2>3, <2>4, <1>3 DEF Nesting
<1>10. JmpbufIsInnermost'
  <2>1. InnermostBelow(Top.prevjb, n)
    BY <1>1, <1>2, <1>7 DEF CallInv, JmpbufIsInnermost
  <2>2. iu_err_jmpbuf' = Top.prevjb /\ Len(stack') + 1 = n
    BY <1>1, <1>3 DEF CallReturns, Unwound
  <2>3. InnermostBelow(iu_err_jmpbuf, Len(stack) + 1)'
    <3>1. iu_err_jmpbuf' = NULL \/ (iu_err_jmpbuf' < n /\ IsCall(iu_err_jmpbuf)')
      <4>1. Top.prevjb < n => Top.prevjb # n
        BY <1>1, <1>7
      <4> QED BY <2>1, <2>2, <4>1, <1>5 DEF InnermostBelow
    <3>2. \A k \in 1..(n-1) : IsCall(k)' => k <= iu_err_jmpbuf'
      BY <2>1, <2>2, <1>5 DEF InnermostBelow
    <3> QED BY <3>1, <3>2, <2>2 DEF InnermostBelow
  <2>4. ASSUME NEW i \in 1..Len(stack'), IsCall(i)' PROVE InnermostBelow(stack[i].prevjb, i)'
    <3>1. IsCall(i) /\ i \in 1..(n-1) /\ i \in 1..n /\ stack'[i].prevjb = stack[i].prevjb
      BY <2>4, <1>3, <1>4, <1>5
    <3>2. InnermostBelow(stack[i].prevjb, i)
      BY <3>1 DEF CallInv, JmpbufIsInnermost
    <3>3. stack[i].prevjb \in Nat
      <4>1. stack[i] \in Activation
        BY <3>1, <1>0
      <4> QED BY <4>1 DEF Activation
    <3>4. stack[i].prevjb < i => stack[i].prevjb # n
      BY <3>1, <3>3, <1>1
    <3>5. \A k \in 1..(i-1) : IsCall(k)' => IsCall(k)
      BY <1>5
    <3> QED BY <3>1, <3>2, <3>4, <3>5, <1>5 DEF InnermostBelow
  <2> QED BY <2>3, <2>4 DEF JmpbufIsInnermost
<1>11. StacksAccounted'
  <2>0. \A i, j \in 1..n : IsCall(i) /\ IsCall(j) /\ stack[i].block = stack[j].block => i = j
    BY DEF CallInv, StacksAccounted
  <2>1. \A i : IsCall(i)' => /\ i \in 1..(n-1) /\ i \in 1..n /\ IsCall(i)
                             /\ stack'[i] = stack[i] /\ stack[i].block # Top.block
    BY <2>0, <1>1, <1>2, <1>3, <1>4, <1>5, <1>6, <1>7
  <2> DEFINE A == {stack'[i].block : i \in {k \in 1..Len(stack') : IsCall(k)'}}
  <2>2. \A b : b \in Active <=> (b \in A \/ b = Top.block)
    <3>1. ASSUME NEW b \in Active PROVE b \in A \/ b = Top.block
      <4>1. PICK i \in 1..n : IsCall(i) /\ stack[i].block = b
        BY <3>1 DEF Active
      <4>2. CASE i = n
        BY <4>1, <4>2, <1>7
      <4>3. CASE i # n
        <5>1. IsCall(i)' /\ i \in 1..Len(stack') /\ stack'[i].block = b
          BY <4>1, <4>3, <1>3, <1>4, <1>5
        <5> QED BY <5>1
      <4> QED BY <4>2, <4>3
    <3>2. Top.block \in Active
      BY <1>1, <1>2, <1>7 DEF Active
    <3>3. ASSUME NEW b \in A PROVE b \in Active
      <4>1. PICK i \in 1..Len(stack') : IsCall(i)' /\ stack'[i].block = b
        BY <3>3
      <4> QED BY <4>1, <2>1 DEF Active
    <3> QED BY <3>1, <3>2, <3>3
  <2>3. Top.block \notin A
    BY <2>1
  <2>4. inheap = Active \cup ({iu_stack_stash} \ {NULL}) /\ Top.block # iu_stack_stash
    BY <1>1, <1>2, <1>7 DEF CallInv, StacksAccounted, Active
  <2>5. iu_stack_stash \notin A
    <3>1. \A i \in 1..n : IsCall(i) => stack[i].block # iu_stack_stash
      BY DEF CallInv, StacksAccounted
    <3> QED BY <3>1, <2>1
  <2> HIDE DEF A
  <2>6. inheap' = A \cup ({iu_stack_stash'} \ {NULL}) /\ iu_stack_stash' \notin A
    <3>1. CASE iu_stack_stash = NULL
      <4>1. iu_stack_stash' = Top.block /\ inheap' = inheap
        BY <3>1 DEF CallReturns, Stashed
      <4> QED BY <3>1, <4>1, <2>2, <2>3, <2>4, <1>7
    <3>2. CASE iu_stack_stash # NULL
      <4>1. iu_stack_stash' = iu_stack_stash /\ inheap' = inheap \ {Top.block}
        BY <3>2 DEF CallReturns, Stashed
      <4> QED BY <3>2, <4>1, <2>2, <2>3, <2>4, <2>5
    <3> QED BY <3>1, <3>2
  <2>7. \A i, j \in 1..Len(stack') :
          IsCall(i)' /\ IsCall(j)' /\ stack'[i].block = stack'[j].block => i = j
    BY <2>0, <2>1
  <2>8. \A i \in 1..Len(stack') : IsCall(i)' => stack'[i].block # iu_stack_stash'
    BY <2>6 DEF A
  <2> QED BY <2>6, <2>7, <2>8 DEF StacksAccounted, A
<1> QED BY <1>8, <1>9, <1>10, <1>11 DEF CallInv

-----------------------------------------------------------------------------
LEMMA StopReasonsNotRun == \A reason \in StopReasons : reason # RUN
BY DEF StopReasons, ExtReasons, ExecReasons, RUN, VM_STOP_EXIT, VM_STOP_ABORT,
       VM_STOP_UNCAUGHT_EXCEPTION, VM_STOP_UNREACHABLE

LEMMA InitCall == Init => CallInv
<1> SUFFICES ASSUME Init PROVE CallInv
  OBVIOUS
<1>0. stack \in Seq(Activation)
  <2>1. <<>> \in Seq(Activation)
    OBVIOUS
  <2> QED BY <2>1 DEF Init
<1>a. pending \in {RUN, 0, 1} \cup StopReasons /\ result \in Codes
  BY DEF Init, Codes
<1>b. iu_err_jmpbuf \in Nat
  BY DEF Init, NULL
<1>c. jumped \in BOOLEAN /\ flying \in BOOLEAN /\ inheap \subseteq Blocks
  BY Zenon DEF Init
<1>d. iu_stack_stash \in Blocks \cup {NULL}
  BY Zenon DEF Init
<1>1. TypeOK
  BY <1>0, <1>a, <1>b, <1>c, <1>d DEF TypeOK
<1>2. Len(stack) = 0 /\ stack = <<>> /\ \A i : ~IsCall(i)
  BY DEF Init, IsCall
<1>3. Nesting
  BY <1>2 DEF Nesting, Init
<1>4. JmpbufIsInnermost
  BY <1>2 DEF JmpbufIsInnermost, InnermostBelow, Init
<1>5. StacksAccounted
  BY <1>2 DEF StacksAccounted, Init
<1> QED BY <1>1, <1>3, <1>4, <1>5 DEF CallInv

(* Where an instruction runs the activation is not a call. *)
LEMMA RunningFacts ==
  ASSUME CallInv, pending = RUN, stack # <<>>
  PROVE  stack \in Seq(Activation) /\ Top.kind # "call"
BY DEF CallInv, TypeOK, Nesting

LEMMA PopType ==
  ASSUME CallInv, stack # <<>>
  PROVE  Pop \in Seq(Activation)
<1>1. stack \in Seq(Activation) /\ Len(stack) \in Nat /\ Len(stack) >= 1
  BY TopFacts DEF CallInv, TypeOK
<1>2. Len(stack) - 1 \in Nat /\ Len(stack) - 1 <= Len(stack)
  BY <1>1, Predecessor
<1> QED BY <1>1, <1>2 DEF Pop

LEMMA NextCall == CallInv /\ [Next]_vars => CallInv'
<1> SUFFICES ASSUME CallInv, [Next]_vars PROVE CallInv'
  OBVIOUS
<1>0. TypeOK /\ stack \in Seq(Activation)
  BY DEF CallInv, TypeOK
<1>1. ASSUME NEW kind \in {"exec", "ext"}, CallWithStash(kind) PROVE CallInv'
  <2>1. iu_stack_stash \in Blocks /\ iu_stack_stash # NULL
    BY <1>0, <1>1 DEF CallWithStash, TypeOK
  <2>2. iu_stack_stash \notin Active
    BY DEF Active, CallInv, StacksAccounted
  <2>3. inheap' = Active \cup {iu_stack_stash}
    BY <1>1, <2>1 DEF CallWithStash, CallInv, StacksAccounted, Active
  <2> QED BY <1>1, <2>1, <2>2, <2>3, EnterStep DEF CallWithStash, StashTaken
<1>2. ASSUME NEW kind \in {"exec", "ext"}, NEW block \in Blocks, CallWithNewStack(kind, block)
      PROVE  CallInv'
  <2>1. inheap = Active
    BY <1>2 DEF CallWithNewStack, CallInv, StacksAccounted, Active
  <2> QED BY <1>2, <2>1, EnterStep DEF CallWithNewStack
<1>3. CASE CallBadArguments \/ CallOutOfMemory
  <2>1. TypeOK'
    BY <1>0, <1>3 DEF CallBadArguments, CallOutOfMemory, TypeOK, Codes
  <2>2. stack' = stack /\ pending' = pending
    BY <1>3 DEF CallBadArguments, CallOutOfMemory
  <2>3. iu_err_jmpbuf' = iu_err_jmpbuf /\ iu_stack_stash' = iu_stack_stash /\ inheap' = inheap
    BY <1>3 DEF CallBadArguments, CallOutOfMemory
  <2>4. Nesting'
    BY <2>2 DEF CallInv, Nesting, Top
  <2>5. JmpbufIsInnermost'
    BY <2>2, <2>3 DEF CallInv, JmpbufIsInnermost, InnermostBelow, IsCall
  <2>6. StacksAccounted'
    BY <2>2, <2>3 DEF CallInv, StacksAccounted, IsCall
  <2> QED BY <2>1, <2>4, <2>5, <2>6 DEF CallInv
<1>4. CASE CallReturns
  BY <1>4, ReturnStep
<1>5. ASSUME NEW hi \in Nat, Running("exec"), stack' = Moved(hi),
             UNCHANGED <<pending, jumped, iu_err_jmpbuf, iu_stack_stash, inheap, flying, result>>
      PROVE  CallInv'
  <2>1. stack # <<>> /\ pending' = RUN /\ Top.kind # "call"
    BY <1>5 DEF Running
  <2>2. SameShape(stack, stack')
    BY <1>0, <1>5, <2>1, MovedShape
  <2>3. TypeOK'
    BY <1>0, <1>5, <2>2 DEF TypeOK, SameShape
  <2> QED BY <1>5, <2>1, <2>2, <2>3, ShapeStep
<1>6. CASE Alloca
  <2>1. stack # <<>>
    BY <1>6 DEF Alloca, Running
  <2>2. Top.hi + 1 \in Nat
    BY <1>0, <2>1, TopFacts
  <2> QED BY <1>5, <1>6, <2>2 DEF Alloca
<1>7. ASSUME NEW p \in 0..MaxAlloca, StackRestore(p) PROVE CallInv'
  <2>1. p \in Nat
    BY VmAssumption
  <2> QED BY <1>5, <1>7, <2>1 DEF StackRestore
<1>8. ASSUME NEW site \in Sites, NEW kind \in {"exec", "ext"}, NEW at \in Nat, Running("exec"),
             stack' = Append(Waiting(site), Act(kind, "none", at, at, Top.block, NULL)),
             UNCHANGED <<pending, jumped, iu_err_jmpbuf, iu_stack_stash, inheap, flying, result>>
      PROVE  CallInv'
  <2> DEFINE a == Act(kind, "none", at, at, Top.block, NULL)
  <2>1. stack # <<>> /\ pending' = RUN /\ Top.kind # "call"
    BY <1>8 DEF Running
  <2>2. SameShape(stack, Waiting(site))
    BY <1>0, <2>1, WaitingShape
  <2>3. Top.block \in Nat
    BY <1>0, <2>1, TopFacts
  <2>4. a \in Activation /\ a.kind # "call" /\ a.block = Top.block
    BY <2>3 DEF Act, Activation, Kinds, Sites, NULL
  <2> HIDE DEF a
  <2>5. stack' = Append(Waiting(site), a)
    BY <1>8 DEF a
  <2>6. stack' \in Seq(Activation)
    BY <2>2, <2>4, <2>5 DEF SameShape
  <2>7. TypeOK'
    BY <1>0, <1>8, <2>6 DEF TypeOK
  <2> QED BY <1>8, <2>1, <2>2, <2>4, <2>5, <2>7, PushStep
<1>9. ASSUME NEW site \in {"jsr", "invoke"}, ExecCalls(site) PROVE CallInv'
  <2>1. stack # <<>>
    BY <1>9 DEF ExecCalls, Running
  <2>2. CalleeAlloca(Top) \in Nat
    BY <1>0, <2>1, TopFacts DEF CalleeAlloca
  <2>3. site \in Sites
    BY DEF Sites
  <2> QED BY <1>8, <1>9, <2>2, <2>3 DEF ExecCalls
<1>10. ASSUME NEW site \in {"jsr", "jsr_r_ext", "invoke"}, ExecCallsExt(site) PROVE CallInv'
  <2>1. stack # <<>>
    BY <1>10 DEF ExecCallsExt, Running
  <2>2. Top.hi \in Nat
    BY <1>0, <2>1, TopFacts
  <2>3. site \in Sites
    BY DEF Sites
  <2> QED BY <1>8, <1>10, <2>2, <2>3 DEF ExecCallsExt
<1>11. CASE Returns
  <2>1. stack # <<>> /\ Top.kind # "call" /\ stack' = Pop /\ pending' # RUN
    BY <1>11, RunningFacts DEF Returns, RUN
  <2>2. TypeOK'
    BY <1>0, <1>11, <2>1, PopType DEF Returns, TypeOK
  <2> QED BY <1>11, <2>1, <2>2, PopStep DEF Returns
<1>12. CASE Throws
  <2>1. stack # <<>> /\ Top.kind # "call" /\ stack' = Pop /\ pending' # RUN
    BY <1>12, RunningFacts DEF Throws, RUN
  <2>2. TypeOK'
    BY <1>0, <1>12, <2>1, PopType DEF Throws, TypeOK
  <2> QED BY <1>12, <2>1, <2>2, PopStep DEF Throws
<1>13. CASE JsrPropagates
  <2>1. stack # <<>> /\ Top.kind # "call" /\ stack' = Pop /\ pending' # RUN
    BY <1>13 DEF JsrPropagates, CallInv, Nesting, RUN
  <2>2. TypeOK'
    BY <1>0, <1>13, <2>1, PopType DEF JsrPropagates, TypeOK
  <2> QED BY <1>13, <2>1, <2>2, PopStep DEF JsrPropagates
<1>14. CASE JsrContinues \/ InvokeContinues
  <2>1. /\ stack # <<>> /\ pending' = RUN /\ Top.kind # "call" /\ stack' = Waiting("none")
        /\ UNCHANGED <<jumped, iu_err_jmpbuf, iu_stack_stash, inheap, result>>
    BY <1>14 DEF JsrContinues, InvokeContinues, CallInv, Nesting
  <2>2. SameShape(stack, stack')
    BY <1>0, <2>1, WaitingShape DEF Sites
  <2>3. flying' \in BOOLEAN
    BY <1>0, <1>14 DEF JsrContinues, InvokeContinues, TypeOK
  <2>4. TypeOK'
    BY <1>0, <2>1, <2>2, <2>3 DEF TypeOK, SameShape
  <2> QED BY <2>1, <2>2, <2>4, ShapeStep
<1>15. ASSUME NEW reason \in StopReasons, Stop(reason) PROVE CallInv'
  <2>1. /\ iu_err_jmpbuf \in 1..Len(stack) /\ stack' = SubSeq(stack, 1, iu_err_jmpbuf)
        /\ pending' = reason /\ jumped' = TRUE
        /\ UNCHANGED <<iu_err_jmpbuf, iu_stack_stash, inheap, flying, result>>
    BY <1>15 DEF Stop
  <2>2. Len(stack) \in Nat
    BY <1>0
  <2>3. ASSUME NEW i \in (iu_err_jmpbuf + 1)..Len(stack) PROVE stack[i].kind # "call"
    <3>1. i \in 1..Len(stack) /\ i \in 1..((Len(stack) + 1) - 1) /\ ~(i <= iu_err_jmpbuf)
      BY <2>1, <2>2
    <3> QED BY <3>1 DEF CallInv, JmpbufIsInnermost, InnermostBelow, IsCall
  <2>4. stack' \in Seq(Activation)
    BY <1>0, <2>1
  <2>5. pending' \in {RUN, 0, 1} \cup StopReasons /\ pending' # RUN
    BY <2>1, StopReasonsNotRun
  <2>6. TypeOK'
    BY <1>0, <2>1, <2>4, <2>5 DEF TypeOK
  <2> QED BY <2>1, <2>3, <2>5, <2>6, CutStep
<1>16. CASE UNCHANGED vars
  <2>1. TypeOK'
    BY <1>0, <1>16 DEF vars, TypeOK
  <2>2. Nesting'
    BY <1>16 DEF vars, CallInv, Nesting, Top
  <2>3. JmpbufIsInnermost'
    BY <1>16 DEF vars, CallInv, JmpbufIsInnermost, InnermostBelow, IsCall
  <2>4. StacksAccounted'
    BY <1>16 DEF vars, CallInv, StacksAccounted, IsCall
  <2> QED BY <2>1, <2>2, <2>3, <2>4 DEF CallInv
<1> QED BY <1>1, <1>2, <1>3, <1>4, <1>6, <1>7, <1>9, <1>10, <1>11, <1>12, <1>13, <1>14,
           <1>15, <1>16 DEF Next

-----------------------------------------------------------------------------
(* The stack of activations keeps its shape, at any depth. *)
THEOREM CallInvariant == Spec => []CallInv
<1> QED BY InitCall, NextCall, PTL DEF Spec

(* Every variable of the call machinery keeps its type. *)
THEOREM CallTypeOK == Spec => []TypeOK
<1>1. CallInv => TypeOK
  BY DEF CallInv
<1> QED BY <1>1, CallInvariant, PTL

(* vm_stop never longjmps into a vmir_vm_function_call that has returned,  *)
(* nor past one that has not.                                              *)
THEOREM CallJmpbufInnermost == Spec => []JmpbufIsInnermost
<1>1. CallInv => JmpbufIsInnermost
  BY DEF CallInv
<1> QED BY <1>1, CallInvariant, PTL

(* No alloca stack leaks or is shared, however calls nest and end. *)
THEOREM CallStacksAccounted == Spec => []StacksAccounted
<1>1. CallInv => StacksAccounted
  BY DEF CallInv
<1> QED BY <1>1, CallInvariant, PTL
-----------------------------------------------------------------------------
(* Frames on the alloca stacks: FramesOK under what the actions do to the  *)
(* host's stack.                                                           *)

LEMMA FramesCut ==
  ASSUME NEW s \in Seq(Activation), FramesOK(s), NEW n \in Nat, n <= Len(s)
  PROVE  FramesOK(SubSeq(s, 1, n))
<1> DEFINE t == SubSeq(s, 1, n)
<1>0. Len(s) \in Nat
  OBVIOUS
<1>1. Len(t) = n /\ \A i \in 1..n : t[i] = s[i]
  BY <1>0
<1>2. \A i \in 1..n : i \in 1..Len(s) /\ (i < n => i + 1 \in 1..n /\ i < Len(s))
  BY <1>0
<1>3. \A i \in 1..n : \A c \in 1..i : c \in 1..n
  BY <1>0
<1> HIDE DEF t
<1>4. \A i \in 1..n : \E c \in 1..i : t[c].kind = "call" /\ t[c].block = t[i].block
  <2> SUFFICES ASSUME NEW i \in 1..n
               PROVE  \E c \in 1..i : t[c].kind = "call" /\ t[c].block = t[i].block
    OBVIOUS
  <2>1. PICK c \in 1..i : s[c].kind = "call" /\ s[c].block = s[i].block
    BY <1>2 DEF FramesOK
  <2> QED BY <2>1, <1>1, <1>3
<1>5. \A i \in 1..n : t[i].lo <= t[i].hi
  BY <1>1, <1>2 DEF FramesOK
<1>6. \A i, j \in 1..n :
        i < j /\ t[i].kind = "exec" /\ t[j].kind = "exec" /\ t[i].block = t[j].block
        => t[i].hi <= t[j].lo
  BY <1>1, <1>2 DEF FramesOK
<1>7. \A i \in 1..n :
        t[i].site = "jsr_r_ext" => t[i].kind = "exec" /\ (i < n => t[i+1].kind = "ext")
  BY <1>1, <1>2 DEF FramesOK
<1>8. FramesOK(t)
  BY <1>1, <1>4, <1>5, <1>6, <1>7 DEF FramesOK
<1> QED BY <1>8 DEF t

(* The running activation's site or allocaptr changes. *)
LEMMA FramesTop ==
  ASSUME NEW s \in Seq(Activation), FramesOK(s), s # <<>>, NEW a \in Activation,
         a.kind = s[Len(s)].kind, a.block = s[Len(s)].block, a.lo = s[Len(s)].lo,
         a.lo <= a.hi, a.site = "jsr_r_ext" => a.kind = "exec"
  PROVE  FramesOK([s EXCEPT ![Len(s)] = a])
<1> DEFINE t == [s EXCEPT ![Len(s)] = a]
           n == Len(s)
<1>0. n \in Nat /\ n \in 1..n
  OBVIOUS
<1>1. Len(t) = n /\ \A i \in 1..n : t[i] = IF i = n THEN a ELSE s[i]
  BY <1>0
<1>2. /\ \A i, j \in 1..n : i < j => i # n
      /\ \A i \in 1..n : i < n => i + 1 \in 1..n /\ i # n
      /\ \A i \in 1..n : \A c \in 1..i : c \in 1..n
  BY <1>0
<1> HIDE DEF t, n
<1>3. \A i \in 1..n : t[i].kind = s[i].kind /\ t[i].block = s[i].block /\ t[i].lo = s[i].lo
  BY <1>1 DEF n
<1>4. \A i \in 1..n : t[i].lo <= t[i].hi
  BY <1>1 DEF FramesOK, n
<1>5. \A i \in 1..n : \E c \in 1..i : t[c].kind = "call" /\ t[c].block = t[i].block
  <2> SUFFICES ASSUME NEW i \in 1..n
               PROVE  \E c \in 1..i : t[c].kind = "call" /\ t[c].block = t[i].block
    OBVIOUS
  <2>1. PICK c \in 1..i : s[c].kind = "call" /\ s[c].block = s[i].block
    BY DEF FramesOK, n
  <2> QED BY <2>1, <1>2, <1>3
<1>6. \A i, j \in 1..n :
        i < j /\ t[i].kind = "exec" /\ t[j].kind = "exec" /\ t[i].block = t[j].block
        => t[i].hi <= t[j].lo
  <2> SUFFICES ASSUME NEW i \in 1..n, NEW j \in 1..n, i < j, t[i].kind = "exec",
                      t[j].kind = "exec", t[i].block = t[j].block
               PROVE  t[i].hi <= t[j].lo
    OBVIOUS
  <2>1. t[i] = s[i]
    BY <1>1, <1>2
  <2>2. s[i].hi <= s[j].lo
    BY <1>3 DEF FramesOK, n
  <2> QED BY <2>1, <2>2, <1>3
<1>7. \A i \in 1..n :
        t[i].site = "jsr_r_ext" => t[i].kind = "exec" /\ (i < n => t[i+1].kind = "ext")
  <2> SUFFICES ASSUME NEW i \in 1..n, t[i].site = "jsr_r_ext"
               PROVE  t[i].kind = "exec" /\ (i < n => t[i+1].kind = "ext")
    OBVIOUS
  <2>1. CASE i = n
    BY <2>1, <1>0, <1>1
  <2>2. CASE i # n
    <3>1. s[i].kind = "exec" /\ (i < n => s[i+1].kind = "ext")
      BY <2>2, <1>1 DEF FramesOK, n
    <3> QED BY <3>1, <1>2, <1>3
  <2> QED BY <2>1, <2>2
<1>8. FramesOK(t)
  BY <1>1, <1>4, <1>5, <1>6, <1>7 DEF FramesOK
<1> QED BY <1>8 DEF t

(* A callee starts where its caller's allocations end. *)
LEMMA FramesPush ==
  ASSUME NEW s \in Seq(Activation), FramesOK(s), s # <<>>, NEW a \in Activation,
         s[Len(s)].kind = "exec", a.block = s[Len(s)].block,
         a.lo = s[Len(s)].hi, a.hi = a.lo, a.site # "jsr_r_ext",
         s[Len(s)].site = "jsr_r_ext" => a.kind = "ext"
  PROVE  FramesOK(Append(s, a))
<1> DEFINE t == Append(s, a)
           n == Len(s)
<1>0. n \in Nat /\ n \in 1..n
  OBVIOUS
<1>1. Len(t) = n + 1 /\ t[n + 1] = a /\ \A i \in 1..n : t[i] = s[i]
  BY <1>0
<1>2. /\ \A i \in 1..(n+1) : i \in 1..n \/ i = n + 1
      /\ \A i, j \in 1..(n+1) : i < j => i \in 1..n
      /\ \A i \in 1..n : i < n + 1 /\ (i = n \/ (i < n /\ i + 1 \in 1..n))
      /\ \A i \in 1..n : \A c \in 1..i : c \in 1..n /\ c \in 1..(n+1)
      /\ n + 1 > n /\ ~(n + 1 < n + 1) /\ \A i \in 1..n : i \in 1..(n+1)
      /\ \A i \in 1..(n+1) : i < n + 1 => i \in 1..n
  BY <1>0
<1>3. \A i \in 1..n : s[i].lo \in Nat /\ s[i].hi \in Nat
  <2>1. \A i \in 1..n : s[i] \in Activation
    OBVIOUS
  <2> QED BY <2>1 DEF Activation
<1> HIDE DEF t, n
<1>4. \A i \in 1..(n+1) : t[i].lo <= t[i].hi
  <2>1. \A i \in 1..n : s[i].lo <= s[i].hi
    BY DEF FramesOK, n
  <2>2. a.lo <= a.hi
    BY <1>0, <1>3 DEF n
  <2> QED BY <2>1, <2>2, <1>1, <1>2
<1>5. \A i \in 1..(n+1) : \E c \in 1..i : t[c].kind = "call" /\ t[c].block = t[i].block
  <2>1. ASSUME NEW i \in 1..n
        PROVE  \E c \in 1..i : t[c].kind = "call" /\ t[c].block = t[i].block
    <3>1. PICK c \in 1..i : s[c].kind = "call" /\ s[c].block = s[i].block
      BY DEF FramesOK, n
    <3> QED BY <3>1, <1>1, <1>2
  <2>2. \E c \in 1..(n+1) : t[c].kind = "call" /\ t[c].block = a.block
    <3>1. PICK c \in 1..n : t[c].kind = "call" /\ t[c].block = t[n].block
      BY <2>1, <1>0
    <3> QED BY <3>1, <1>0, <1>1, <1>2 DEF n
  <2> QED BY <2>1, <2>2, <1>1, <1>2
<1>6. \A i, j \in 1..(n+1) :
        i < j /\ t[i].kind = "exec" /\ t[j].kind = "exec" /\ t[i].block = t[j].block
        => t[i].hi <= t[j].lo
  <2> SUFFICES ASSUME NEW i \in 1..(n+1), NEW j \in 1..(n+1), i < j, t[i].kind = "exec",
                      t[j].kind = "exec", t[i].block = t[j].block
               PROVE  t[i].hi <= t[j].lo
    OBVIOUS
  <2>0. i \in 1..n /\ t[i] = s[i]
    BY <1>1, <1>2
  <2>1. CASE j \in 1..n
    BY <2>0, <2>1, <1>1 DEF FramesOK, n
  <2>2. CASE j = n + 1
    <3>1. t[j].lo = s[n].hi /\ s[i].block = s[n].block /\ s[n].kind = "exec"
      BY <2>0, <2>2, <1>1 DEF n
    <3>2. CASE i = n
      BY <2>0, <3>1, <3>2, <1>3
    <3>3. CASE i # n
      <4>1. i < n
        BY <2>0, <3>3, <1>2
      <4>2. s[i].hi <= s[n].lo /\ s[n].lo <= s[n].hi
        BY <2>0, <3>1, <4>1, <1>0 DEF FramesOK, n
      <4>3. s[i].hi \in Nat /\ s[n].lo \in Nat /\ s[n].hi \in Nat
        BY <2>0, <1>0, <1>3
      <4> QED BY <2>0, <3>1, <4>2, <4>3
    <3> QED BY <3>2, <3>3
  <2> QED BY <2>1, <2>2, <1>2
<1>7. \A i \in 1..(n+1) : t[i].site = "jsr_r_ext" =>
        t[i].kind = "exec" /\ (i < n + 1 => t[i+1].kind = "ext")
  <2> SUFFICES ASSUME NEW i \in 1..(n+1), t[i].site = "jsr_r_ext"
               PROVE  t[i].kind = "exec" /\ (i < n + 1 => t[i+1].kind = "ext")
    OBVIOUS
  <2>1. i \in 1..n /\ t[i] = s[i] /\ s[i].site = "jsr_r_ext"
    BY <1>1, <1>2
  <2>2. s[i].kind = "exec" /\ (i < n => s[i+1].kind = "ext")
    BY <2>1 DEF FramesOK, n
  <2>3. CASE i = n
    BY <2>1, <2>2, <2>3, <1>1 DEF n
  <2>4. CASE i < n /\ i + 1 \in 1..n
    BY <2>1, <2>2, <2>4, <1>1
  <2> QED BY <2>1, <2>3, <2>4, <1>2
<1>8. FramesOK(t)
  BY <1>1, <1>4, <1>5, <1>6, <1>7 DEF FramesOK
<1> QED BY <1>8 DEF t

(* vmir_vm_function_call and its first activation, on a fresh alloca stack. *)
LEMMA FramesEnter ==
  ASSUME NEW s \in Seq(Activation), FramesOK(s), NEW c \in Activation, NEW e \in Activation,
         c.kind = "call", c.site = "none", e.site = "none", c.block = e.block,
         c.lo <= c.hi, e.lo <= e.hi, s # <<>> => s[Len(s)].kind = "ext",
         \A i \in 1..Len(s) : s[i].kind = "call" => s[i].block # c.block
  PROVE  FramesOK(s \o <<c, e>>)
<1> DEFINE t == s \o <<c, e>>
           n == Len(s)
<1>0. n \in Nat
  OBVIOUS
<1>1. /\ Len(t) = n + 2 /\ t[n + 1] = c /\ t[n + 2] = e
      /\ \A i \in 1..n : t[i] = s[i]
  BY <1>0
<1>2. /\ \A i \in 1..(n+2) : i \in 1..n \/ i = n + 1 \/ i = n + 2
      /\ \A i \in 1..n : i = n \/ (i < n /\ i + 1 \in 1..n)
      /\ \A i \in 1..n : \A k \in 1..i : k \in 1..n
      /\ n + 1 \in 1..(n+1) /\ n + 1 \in 1..(n+2)
      /\ \A i \in 1..n : n # 0 /\ n \in 1..n
      /\ \A j \in 1..n : ~(n + 1 < j) /\ ~(n + 2 < j)
      /\ ~(n + 2 < n + 1) /\ ~(n + 1 < n + 1) /\ ~(n + 2 < n + 2)
  BY <1>0
<1>3. n # 0 => s[n].kind = "ext"
  OBVIOUS
<1> HIDE DEF t, n
<1>4. \A i \in 1..n : s[i].block # c.block
  <2> SUFFICES ASSUME NEW i \in 1..n PROVE s[i].block # c.block
    OBVIOUS
  <2>1. PICK k \in 1..i : s[k].kind = "call" /\ s[k].block = s[i].block
    BY DEF FramesOK, n
  <2> QED BY <2>1, <1>2 DEF n
<1>5. \A i \in 1..(n+2) : t[i].lo <= t[i].hi
  BY <1>1, <1>2 DEF FramesOK, n
<1>6. \A i \in 1..(n+2) : \E k \in 1..i : t[k].kind = "call" /\ t[k].block = t[i].block
  <2>1. ASSUME NEW i \in 1..n
        PROVE  \E k \in 1..i : t[k].kind = "call" /\ t[k].block = t[i].block
    <3>1. PICK k \in 1..i : s[k].kind = "call" /\ s[k].block = s[i].block
      BY DEF FramesOK, n
    <3> QED BY <3>1, <1>1, <1>2
  <2>2. t[n+1].kind = "call" /\ t[n+1].block = t[n+2].block
    BY <1>1
  <2> QED BY <2>1, <2>2, <1>2
<1>7. \A i, j \in 1..(n+2) :
        i < j /\ t[i].kind = "exec" /\ t[j].kind = "exec" /\ t[i].block = t[j].block
        => t[i].hi <= t[j].lo
  <2> SUFFICES ASSUME NEW i \in 1..(n+2), NEW j \in 1..(n+2), i < j, t[i].kind = "exec",
                      t[j].kind = "exec", t[i].block = t[j].block
               PROVE  t[i].hi <= t[j].lo
    OBVIOUS
  <2>1. i \in 1..n /\ j # n + 1
    BY <1>1, <1>2
  <2>2. j \in 1..n
    BY <2>1, <1>1, <1>2, <1>4
  <2> QED BY <2>1, <2>2, <1>1 DEF FramesOK, n
<1>8. \A i \in 1..(n+2) : t[i].site = "jsr_r_ext" =>
        t[i].kind = "exec" /\ (i < n + 2 => t[i+1].kind = "ext")
  <2> SUFFICES ASSUME NEW i \in 1..(n+2), t[i].site = "jsr_r_ext"
               PROVE  t[i].kind = "exec" /\ (i < n + 2 => t[i+1].kind = "ext")
    OBVIOUS
  <2>1. i \in 1..n /\ t[i] = s[i]
    BY <1>1, <1>2
  <2>2. s[i].kind = "exec" /\ (i < n => s[i+1].kind = "ext")
    BY <2>1 DEF FramesOK, n
  <2>3. i # n
    BY <2>1, <2>2, <1>2, <1>3
  <2> QED BY <2>1, <2>2, <2>3, <1>1, <1>2
<1>9. FramesOK(t)
  BY <1>1, <1>5, <1>6, <1>7, <1>8 DEF FramesOK
<1> QED BY <1>9 DEF t

LEMMA FramesWaiting ==
  ASSUME stack \in Seq(Activation), stack # <<>>, FramesOK(stack), NEW site \in Sites,
         site = "jsr_r_ext" => Top.kind = "exec"
  PROVE  /\ FramesOK(Waiting(site)) /\ Waiting(site) \in Seq(Activation)
         /\ Waiting(site) # <<>> /\ Len(Waiting(site)) = Len(stack)
         /\ Waiting(site)[Len(stack)] = Act(Top.kind, site, Top.lo, Top.hi, Top.block, Top.prevjb)
<1> DEFINE a == Act(Top.kind, site, Top.lo, Top.hi, Top.block, Top.prevjb)
<1>0. /\ Len(stack) \in 1..Len(stack)
      /\ Top.kind \in Kinds /\ Top.site \in Sites /\ Top.lo \in Nat /\ Top.hi \in Nat
      /\ Top.block \in Nat /\ Top.prevjb \in Nat
  BY TopFacts
<1>1. a \in Activation
  BY <1>0, ActType, Zenon
<1>2. a.kind = Top.kind /\ a.block = Top.block /\ a.lo = Top.lo /\ a.hi = Top.hi /\ a.site = site
  BY DEF Act
<1>3. Top.lo <= Top.hi
  BY <1>0 DEF FramesOK, Top
<1>4. Waiting(site) = [stack EXCEPT ![Len(stack)] = a]
  BY DEF Waiting
<1> HIDE DEF a
<1>5. FramesOK([stack EXCEPT ![Len(stack)] = a])
  BY <1>1, <1>2, <1>3, FramesTop DEF Top
<1>6. /\ [stack EXCEPT ![Len(stack)] = a] \in Seq(Activation)
      /\ Len([stack EXCEPT ![Len(stack)] = a]) = Len(stack)
      /\ [stack EXCEPT ![Len(stack)] = a][Len(stack)] = a
  BY <1>0, <1>1
<1>7. [stack EXCEPT ![Len(stack)] = a] # <<>>
  BY <1>6, <1>0
<1> QED BY <1>4, <1>5, <1>6, <1>7 DEF a

LEMMA FramesMoved ==
  ASSUME stack \in Seq(Activation), stack # <<>>, FramesOK(stack), NEW hi \in Nat,
         Top.lo <= hi, Top.kind = "exec"
  PROVE  FramesOK(Moved(hi))
<1> DEFINE a == Act(Top.kind, Top.site, Top.lo, hi, Top.block, Top.prevjb)
<1>0. /\ Top.kind \in Kinds /\ Top.site \in Sites /\ Top.lo \in Nat
      /\ Top.block \in Nat /\ Top.prevjb \in Nat
  BY TopFacts
<1>1. a \in Activation
  BY <1>0, ActType, Zenon
<1>2. a.kind = Top.kind /\ a.block = Top.block /\ a.lo = Top.lo /\ a.hi = hi
  BY DEF Act
<1>4. Moved(hi) = [stack EXCEPT ![Len(stack)] = a]
  BY DEF Moved
<1> HIDE DEF a
<1> QED BY <1>1, <1>2, <1>4, FramesTop DEF Top

(* The stack of an action that leaves the running activation. *)
LEMMA FramesPop ==
  ASSUME stack \in Seq(Activation), stack # <<>>, FramesOK(stack)
  PROVE  FramesOK(Pop)
<1>1. Len(stack) - 1 \in Nat /\ Len(stack) - 1 <= Len(stack)
  BY TopFacts, Predecessor
<1> QED BY <1>1, FramesCut DEF Pop

(* Calling from guest code, a guest function or an external one. *)
LEMMA FramesCall ==
  ASSUME stack \in Seq(Activation), FramesOK(stack), Running("exec"), NEW site \in Sites,
         NEW kind \in {"exec", "ext"}, site = "jsr_r_ext" => kind = "ext",
         stack' = Append(Waiting(site), Act(kind, "none", Top.hi, Top.hi, Top.block, NULL))
  PROVE  FramesOK(stack')
<1> DEFINE a == Act(kind, "none", Top.hi, Top.hi, Top.block, NULL)
           w == Waiting(site)
           b == Act(Top.kind, site, Top.lo, Top.hi, Top.block, Top.prevjb)
<1>0. stack # <<>> /\ Top.kind = "exec"
  BY DEF Running
<1>1. Top.hi \in Nat /\ Top.block \in Nat
  BY <1>0, TopFacts
<1>2. kind \in Kinds /\ "none" \in Sites /\ NULL \in Nat
  BY DEF Kinds, Sites, NULL
<1>3. a \in Activation
  BY <1>1, <1>2, ActType, Zenon
<1>4. a.kind = kind /\ a.block = Top.block /\ a.lo = Top.hi /\ a.hi = Top.hi /\ a.site = "none"
  BY DEF Act
<1>5. b.kind = Top.kind /\ b.block = Top.block /\ b.hi = Top.hi /\ b.site = site
  BY DEF Act
<1>6. FramesOK(w) /\ w \in Seq(Activation) /\ w # <<>> /\ w[Len(w)] = b
  BY <1>0, FramesWaiting
<1> HIDE DEF a, b, w
<1>7. FramesOK(Append(w, a))
  BY <1>0, <1>3, <1>4, <1>5, <1>6, FramesPush
<1> QED BY <1>7 DEF a, w

LEMMA FramesFresh ==
  ASSUME CallInv, FramesOK(stack), MayCall, NEW block \in Blocks, block \notin Active,
         NEW kind \in {"exec", "ext"}, Enter(block, kind)
  PROVE  FramesOK(stack')
<1> DEFINE c == Act("call", "none", 0, 0, block, iu_err_jmpbuf)
           e == Act(kind, "none", 0, 0, block, NULL)
<1>0. stack \in Seq(Activation) /\ iu_err_jmpbuf \in Nat /\ block \in Nat
  BY VmAssumption DEF CallInv, TypeOK
<1>1. /\ c \in Activation /\ c.kind = "call" /\ c.block = block
      /\ c.site = "none" /\ c.lo = 0 /\ c.hi = 0
  BY <1>0 DEF Act, Activation, Kinds, Sites
<1>2. e \in Activation /\ e.block = block /\ e.site = "none" /\ e.lo = 0 /\ e.hi = 0
  BY <1>0 DEF Act, Activation, Kinds, Sites, NULL
<1>3. stack' = stack \o <<c, e>>
  BY DEF Enter
<1>4. \A i \in 1..Len(stack) : stack[i].kind = "call" => stack[i].block # block
  BY DEF Active, IsCall
<1>5. stack # <<>> => stack[Len(stack)].kind = "ext"
  BY DEF MayCall, Top
<1> HIDE DEF c, e
<1>6. FramesOK(stack \o <<c, e>>)
  BY <1>0, <1>1, <1>2, <1>4, <1>5, FramesEnter
<1> QED BY <1>3, <1>6

LEMMA NextFrames == CallInv /\ FramesOK(stack) /\ [Next]_vars => FramesOK(stack')
<1> SUFFICES ASSUME CallInv, FramesOK(stack), [Next]_vars PROVE FramesOK(stack')
  OBVIOUS
<1>0. TypeOK /\ stack \in Seq(Activation)
  BY DEF CallInv, TypeOK
<1>1. ASSUME NEW kind \in {"exec", "ext"}, CallWithStash(kind) PROVE FramesOK(stack')
  <2>1. iu_stack_stash \in Blocks
    BY <1>0, <1>1 DEF CallWithStash, TypeOK
  <2>2. iu_stack_stash \notin Active
    BY DEF Active, CallInv, StacksAccounted
  <2> QED BY <1>1, <2>1, <2>2, FramesFresh DEF CallWithStash
<1>2. ASSUME NEW kind \in {"exec", "ext"}, NEW block \in Blocks, CallWithNewStack(kind, block)
      PROVE  FramesOK(stack')
  <2>1. block \notin Active
    BY <1>2 DEF CallWithNewStack, CallInv, StacksAccounted, Active
  <2> QED BY <1>2, <2>1, FramesFresh DEF CallWithNewStack
<1>3. CASE CallBadArguments \/ CallOutOfMemory
  BY <1>3 DEF CallBadArguments, CallOutOfMemory
<1>4. CASE CallReturns \/ Returns \/ Throws \/ JsrPropagates
  <2>1. stack # <<>> /\ stack' = Pop
    BY <1>4 DEF CallReturns, Returns, Throws, JsrPropagates, CallInv, Nesting, RUN
  <2> QED BY <2>1, <1>0, FramesPop
<1>5. CASE Alloca
  <2>1. stack # <<>> /\ Top.kind = "exec" /\ stack' = Moved(Top.hi + 1)
    BY <1>5 DEF Alloca, Running
  <2>2. Len(stack) \in 1..Len(stack) /\ Top.lo \in Nat /\ Top.hi \in Nat
    BY <1>0, <2>1, TopFacts
  <2>3. Top.lo <= Top.hi
    BY <2>2 DEF FramesOK, Top
  <2>4. Top.hi + 1 \in Nat /\ Top.lo <= Top.hi + 1
    BY <2>2, <2>3
  <2> QED BY <1>0, <2>1, <2>4, FramesMoved
<1>6. ASSUME NEW p \in 0..MaxAlloca, StackRestore(p) PROVE FramesOK(stack')
  <2>1. stack # <<>> /\ Top.kind = "exec" /\ stack' = Moved(p) /\ p \in Top.lo..Top.hi
    BY <1>6 DEF StackRestore, Running
  <2>2. Top.lo \in Nat /\ Top.hi \in Nat
    BY <1>0, <2>1, TopFacts
  <2>3. p \in Nat /\ Top.lo <= p
    BY <2>1, <2>2
  <2> QED BY <1>0, <2>1, <2>3, FramesMoved
<1>7. ASSUME NEW site \in {"jsr", "invoke"}, ExecCalls(site) PROVE FramesOK(stack')
  <2>1. site \in Sites /\ site # "jsr_r_ext"
    BY DEF Sites
  <2> QED BY <1>0, <1>7, <2>1, FramesCall DEF ExecCalls, CalleeAlloca
<1>8. ASSUME NEW site \in {"jsr", "jsr_r_ext", "invoke"}, ExecCallsExt(site)
      PROVE  FramesOK(stack')
  <2>1. site \in Sites
    BY DEF Sites
  <2> QED BY <1>0, <1>8, <2>1, FramesCall DEF ExecCallsExt
<1>9. CASE JsrContinues \/ InvokeContinues
  <2>1. stack # <<>> /\ stack' = Waiting("none")
    BY <1>9 DEF JsrContinues, InvokeContinues, CallInv, Nesting
  <2> QED BY <1>0, <2>1, FramesWaiting DEF Sites
<1>10. ASSUME NEW reason \in StopReasons, Stop(reason) PROVE FramesOK(stack')
  <2>1. iu_err_jmpbuf \in 1..Len(stack) /\ stack' = SubSeq(stack, 1, iu_err_jmpbuf)
    BY <1>10 DEF Stop
  <2>2. iu_err_jmpbuf \in Nat /\ iu_err_jmpbuf <= Len(stack)
    BY <1>0, <2>1
  <2> QED BY <1>0, <2>1, <2>2, FramesCut
<1>11. CASE UNCHANGED vars
  BY <1>11 DEF vars
<1> QED BY <1>1, <1>2, <1>3, <1>4, <1>5, <1>6, <1>7, <1>8, <1>9, <1>10, <1>11 DEF Next

LEMMA InitFrames == Init => FramesOK(stack)
<1> SUFFICES ASSUME Init PROVE FramesOK(stack)
  OBVIOUS
<1>1. Len(stack) = 0
  BY DEF Init
<1> QED BY <1>1 DEF FramesOK

(* What a callee puts on the alloca stack lies above everything its        *)
(* callers have put there, at any depth and with any number of stacks: no  *)
(* order of allocas, restores, exceptions, jumps and nested calls into the *)
(* VM makes two frames overlap.                                            *)
THEOREM CallAllocasDisjoint == Spec => []AllocasDisjoint
<1>1. Init => CallInv /\ FramesOK(stack)
  BY InitCall, InitFrames
<1>2. CallInv /\ FramesOK(stack) /\ [Next]_vars => (CallInv /\ FramesOK(stack))'
  BY NextCall, NextFrames
<1>3. CallInv /\ FramesOK(stack) => AllocasDisjoint
  BY DEF FramesOK, AllocasDisjoint
<1> QED BY <1>1, <1>2, <1>3, PTL DEF Spec
-----------------------------------------------------------------------------
(* Exceptions in flight *)

(* The activation below a running one of kind "exec" waits at an instruction *)
(* that looks at what it returns, and below an external function too unless  *)
(* the function was called by pointer.                                       *)
LEMMA BelowLooks ==
  ASSUME CallInv, FramesOK(stack), stack # <<>>, Top.kind # "call",
         Top.kind = "ext" => ~ByPointer, stack' = Pop
  PROVE  Top'.site # "jsr_r_ext"
<1> DEFINE n == Len(stack)
<1>0. stack \in Seq(Activation) /\ n \in Nat /\ n >= 1 /\ n \in 1..n
  BY TopFacts DEF CallInv, TypeOK
<1>1. n # 1
  BY DEF CallInv, Nesting, Top
<1>2. n - 1 \in 1..n /\ n - 1 < n /\ (n - 1) + 1 = n /\ n > 1 /\ n - 1 \in 1..(n-1)
  BY <1>0, <1>1, OneLess, Zenon
<1>3. Len(stack') = n - 1 /\ stack'[n-1] = stack[n-1]
  BY <1>0, <1>2 DEF Pop
<1>4. Top' = stack[n-1]
  BY <1>3 DEF Top
<1>5. SUFFICES ASSUME stack[n-1].site = "jsr_r_ext" PROVE FALSE
  BY <1>4
<1>6. stack[n].kind = "ext"
  BY <1>2, <1>5 DEF FramesOK
<1>7. ByPointer
  BY <1>2, <1>5 DEF ByPointer
<1> QED BY <1>6, <1>7 DEF Top

LEMMA NextFlight ==
  ASSUME ~IndirectThrows, CallInv, FramesOK(stack), FlightInv, [Next]_vars
  PROVE  FlightInv'
<1>0. TypeOK /\ pending \in {RUN, 0, 1} \cup StopReasons /\ jumped \in BOOLEAN /\ flying \in BOOLEAN
  BY DEF CallInv, TypeOK
<1>1. RUN # 1 /\ RUN # 0 /\ 0 # 1
  BY DEF RUN
(* No value is on its way before or after the step. *)
<1>2. ASSUME pending = RUN, pending' = RUN, UNCHANGED <<jumped, flying>>
      PROVE  FlightInv'
  <2>1. ~jumped /\ ~flying
    BY <1>1, <1>2, Zenon DEF FlightInv, ExceptionUnwinds
  <2>2. ~jumped' /\ ~flying' /\ pending' # 1
    BY <2>1, <1>1, <1>2
  <2> QED BY <2>2, Zenon DEF FlightInv, ExceptionUnwinds
<1>3. CASE CallReturns
  <2>1. ~jumped' /\ ~flying' /\ pending' # 1
    BY <1>1, <1>3 DEF CallReturns
  <2> QED BY <2>1, Zenon DEF FlightInv, ExceptionUnwinds
<1>4. CASE Returns
  <2>1. ~jumped /\ ~flying
    BY <1>1, <1>4, Zenon DEF Returns, FlightInv, ExceptionUnwinds
  <2>2. ~jumped' /\ ~flying' /\ pending' # 1
    BY <2>1, <1>1, <1>4 DEF Returns
  <2> QED BY <2>2, Zenon DEF FlightInv, ExceptionUnwinds
<1>5. CASE Throws
  <2>1. ~jumped
    BY <1>1, <1>5, Zenon DEF Throws, FlightInv
  <2>2. flying' /\ ~jumped' /\ pending' = 1
    BY <2>1, <1>5 DEF Throws
  <2>3. stack # <<>> /\ Top.kind # "call" /\ stack' = Pop /\ (Top.kind = "ext" => ~ByPointer)
    BY <1>5, RunningFacts DEF Throws
  <2>4. Top'.site # "jsr_r_ext"
    BY <2>3, BelowLooks
  <2> QED BY <2>2, <2>4, Zenon DEF FlightInv, ExceptionUnwinds
<1>6. CASE JsrPropagates
  <2>1. ~jumped
    BY <1>6 DEF JsrPropagates, FlightInv
  <2>2. pending = 1 /\ pending' = 1 /\ jumped' = jumped /\ flying' = flying
    BY <1>6 DEF JsrPropagates
  <2>3. flying' /\ ~jumped'
    BY <2>1, <2>2, Zenon DEF FlightInv, ExceptionUnwinds
  <2>4. stack # <<>> /\ Top.kind # "call" /\ stack' = Pop /\ Top.kind # "ext"
    BY <1>6 DEF JsrPropagates, CallInv, Nesting, RUN
  <2>5. Top'.site # "jsr_r_ext"
    BY <2>4, BelowLooks
  <2> QED BY <2>2, <2>3, <2>5, Zenon DEF FlightInv, ExceptionUnwinds
<1>7. CASE JsrContinues
  <2>1. ~jumped
    BY <1>7 DEF JsrContinues, FlightInv
  <2>2. pending # 1
    BY <2>1, <1>7 DEF JsrContinues, GoesOn, FlightInv
  <2>3. ~flying
    BY <2>2, Zenon DEF FlightInv, ExceptionUnwinds
  <2>4. ~jumped' /\ ~flying' /\ pending' # 1
    BY <2>1, <2>3, <1>1, <1>7 DEF JsrContinues
  <2> QED BY <2>4, Zenon DEF FlightInv, ExceptionUnwinds
<1>8. CASE InvokeContinues
  <2>1. ~jumped
    BY <1>8 DEF InvokeContinues, FlightInv
  <2>2. ~flying'
    <3>1. CASE pending = 1
      BY <3>1, <1>8 DEF InvokeContinues
    <3>2. CASE pending # 1
      <4>1. ~flying
        BY <3>2, Zenon DEF FlightInv, ExceptionUnwinds
      <4> QED BY <3>2, <4>1, <1>8 DEF InvokeContinues
    <3> QED BY <3>1, <3>2
  <2>3. ~jumped' /\ pending' # 1
    BY <2>1, <1>1, <1>8 DEF InvokeContinues
  <2> QED BY <2>2, <2>3, Zenon DEF FlightInv, ExceptionUnwinds
<1>9. ASSUME NEW reason \in StopReasons, Stop(reason) PROVE FlightInv'
  <2>1. ~flying
    BY <1>1, <1>9, Zenon DEF Stop, FlightInv, ExceptionUnwinds
  <2>2. ~flying' /\ jumped' /\ pending' # RUN
    BY <2>1, <1>9, StopReasonsNotRun DEF Stop
  <2>3. iu_err_jmpbuf \in 1..Len(stack) /\ stack' = SubSeq(stack, 1, iu_err_jmpbuf)
    BY <1>9 DEF Stop
  <2>4. stack \in Seq(Activation) /\ Len(stack) \in Nat /\ iu_err_jmpbuf \in Nat
    BY <1>0, <2>3 DEF TypeOK
  <2>5. Len(stack') = iu_err_jmpbuf /\ stack'[iu_err_jmpbuf] = stack[iu_err_jmpbuf]
    BY <2>3, <2>4
  <2>6. iu_err_jmpbuf # NULL
    BY <2>3, <2>4 DEF NULL
  <2>7. stack[iu_err_jmpbuf].kind = "call"
    BY <2>6 DEF CallInv, JmpbufIsInnermost, InnermostBelow, IsCall
  <2>8. Top'.kind = "call"
    BY <2>5, <2>7 DEF Top
  <2> QED BY <2>2, <2>8, Zenon DEF FlightInv, ExceptionUnwinds
<1>10. CASE UNCHANGED vars
  BY <1>10 DEF vars, FlightInv, ExceptionUnwinds, Top
<1>11. ASSUME NEW kind \in {"exec", "ext"}, CallWithStash(kind) PROVE FlightInv'
  BY <1>2, <1>11 DEF CallWithStash, Enter, MayCall
<1>12. ASSUME NEW kind \in {"exec", "ext"}, NEW block \in Blocks, CallWithNewStack(kind, block)
       PROVE  FlightInv'
  BY <1>2, <1>12 DEF CallWithNewStack, Enter, MayCall
<1>13. CASE CallBadArguments \/ CallOutOfMemory
  BY <1>2, <1>13 DEF CallBadArguments, CallOutOfMemory, MayCall
<1>14. CASE Alloca
  BY <1>2, <1>14 DEF Alloca, Running
<1>15. ASSUME NEW p \in 0..MaxAlloca, StackRestore(p) PROVE FlightInv'
  BY <1>2, <1>15 DEF StackRestore, Running
<1>16. ASSUME NEW site \in {"jsr", "invoke"}, ExecCalls(site) PROVE FlightInv'
  BY <1>2, <1>16 DEF ExecCalls, Running
<1>17. ASSUME NEW site \in {"jsr", "jsr_r_ext", "invoke"}, ExecCallsExt(site) PROVE FlightInv'
  BY <1>2, <1>17 DEF ExecCallsExt, Running
<1> QED BY <1>3, <1>4, <1>5, <1>6, <1>7, <1>8, <1>9, <1>10, <1>11, <1>12, <1>13, <1>14,
           <1>15, <1>16, <1>17 DEF Next

LEMMA InitFlight == Init => FlightInv
<1> SUFFICES ASSUME Init PROVE FlightInv
  OBVIOUS
<1>1. ~flying /\ ~jumped /\ pending # 1
  BY DEF Init, RUN
<1> QED BY <1>1, Zenon DEF FlightInv, ExceptionUnwinds

(* Only a longjmp brings a reason of vm_stop. *)
LEMMA NextPlain ==
  ASSUME PlainReturns, [Next]_vars
  PROVE  PlainReturns'
<1>1. ASSUME UNCHANGED <<pending, jumped>> PROVE PlainReturns'
  BY <1>1 DEF PlainReturns
<1>2. ASSUME pending' = RUN \/ pending' = 0 \/ pending' = 1 PROVE PlainReturns'
  BY <1>2 DEF PlainReturns
<1>3. ASSUME NEW reason \in StopReasons, Stop(reason) PROVE PlainReturns'
  BY <1>3 DEF Stop, PlainReturns
<1>4. CASE CallReturns \/ Returns \/ Throws \/ JsrContinues \/ InvokeContinues
  BY <1>2, <1>4 DEF CallReturns, Returns, Throws, JsrContinues, InvokeContinues
<1>5. CASE UNCHANGED vars \/ JsrPropagates \/ CallBadArguments \/ CallOutOfMemory \/ Alloca
  BY <1>1, <1>5 DEF vars, JsrPropagates, CallBadArguments, CallOutOfMemory, Alloca
<1>6. ASSUME NEW kind \in {"exec", "ext"}, CallWithStash(kind) PROVE PlainReturns'
  BY <1>1, <1>6 DEF CallWithStash, Enter
<1>7. ASSUME NEW kind \in {"exec", "ext"}, NEW block \in Blocks, CallWithNewStack(kind, block)
      PROVE  PlainReturns'
  BY <1>1, <1>7 DEF CallWithNewStack, Enter
<1>8. ASSUME NEW p \in 0..MaxAlloca, StackRestore(p) PROVE PlainReturns'
  BY <1>1, <1>8 DEF StackRestore
<1>9. ASSUME NEW site \in {"jsr", "invoke"}, ExecCalls(site) PROVE PlainReturns'
  BY <1>1, <1>9 DEF ExecCalls
<1>10. ASSUME NEW site \in {"jsr", "jsr_r_ext", "invoke"}, ExecCallsExt(site) PROVE PlainReturns'
  BY <1>1, <1>10 DEF ExecCallsExt
<1> QED BY <1>3, <1>4, <1>5, <1>6, <1>7, <1>8, <1>9, <1>10 DEF Next

(* vmir_vm_function_call tells an exception, exit()'s reason 1, the reason *)
(* of std::terminate and a return apart.                                   *)
LEMMA CallReports ==
  ASSUME CallInv, FlightInv, PlainReturns, CallReturns
  PROVE  result' = Reported
<1>1. /\ pending \in {RUN, 0, 1} \cup StopReasons /\ pending # RUN
      /\ result' = Outcome(jumped, pending)
  BY DEF CallInv, TypeOK, CallReturns
<1>2. CASE jumped
  <2>1. ~flying
    BY <1>2, Zenon DEF FlightInv, ExceptionUnwinds
  <2> QED BY <1>1, <1>2, <2>1 DEF Outcome, Reported
<1>3. CASE ~jumped /\ pending = 1
  <2>1. flying
    BY <1>3, Zenon DEF FlightInv, ExceptionUnwinds
  <2> QED BY <1>1, <1>3, <2>1 DEF Outcome, Reported
<1>4. CASE ~jumped /\ pending # 1
  <2>1. ~flying
    BY <1>4, Zenon DEF FlightInv, ExceptionUnwinds
  <2>2. pending = 0
    BY <1>1, <1>4 DEF PlainReturns
  <2> QED BY <1>1, <1>4, <2>1, <2>2 DEF Outcome, Reported, VM_STOP_OK
<1> QED BY <1>2, <1>3, <1>4

(* While an exception is in flight nothing but its unwinding happens, and  *)
(* vmir_vm_function_call reports an exception that arrives there, the      *)
(* reason of every stop, and a return as one, whatever calls, invokes and  *)
(* stops came before.  The hypothesis is what the code needs: JSR_R drops  *)
(* what an external function called by pointer returns, so such a function *)
(* must not throw.                                                         *)
THEOREM CallExceptionsArrive == ~IndirectThrows => (Spec => ExceptionsArrive)
<1> SUFFICES ASSUME ~IndirectThrows PROVE Spec => ExceptionsArrive
  OBVIOUS
<1> DEFINE I == CallInv /\ FramesOK(stack) /\ FlightInv /\ PlainReturns
<1>1. Init => I
  BY InitCall, InitFrames, InitFlight DEF Init, PlainReturns
<1>2. I /\ [Next]_vars => I'
  BY NextCall, NextFrames, NextFlight, NextPlain
<1>3. I => ExceptionUnwinds
  BY DEF FlightInv
<1>4. I /\ [Next]_vars => [CallReturns => result' = Reported]_vars
  BY CallReports
<1> QED BY <1>1, <1>2, <1>3, <1>4, PTL DEF Spec, ExceptionsArrive
=============================================================================
