--------------------------- MODULE PhiLiftProofs ---------------------------
(***************************************************************************)
(* Proofs about leaving SSA form, for every set of values and any number   *)
(* of PHI entries.                                                         *)
(***************************************************************************)
EXTENDS PhiLift, SeqLemmas, TLAPS

(* The list operations return lists over the same nodes. *)
LEMMA ListType ==
  ASSUME NEW l \in Linked, NEW n \in Values
  PROVE  LIST_INSERT_HEAD(l, n) \in Linked /\ LIST_REMOVE(l, n) \in Linked
BY DEF Linked, LIST_INSERT_HEAD, LIST_REMOVE

LEMMA WithNodesType ==
  ASSUME NEW l \in Linked, NEW d \in Values, NEW s \in Values
  PROVE  WithNodes(l, d, s) \in Linked
BY ListType DEF WithNodes

LEMMA UnlinkType ==
  ASSUME NEW l \in Linked, NEW d \in Values, NEW s \in Values, NEW es
  PROVE  Unlink(l, d, s, es) \in Linked
BY ListType DEF Unlink

(* LIST_REMOVE of a pending edge removes that edge alone. *)
LEMMA WithoutFacts ==
  ASSUME NEW es \in Seq(Values), NoRepeat(es), NEW k \in 1..Len(es)
  PROVE  /\ Without(es, es[k]) \in Seq(Values)
         /\ NoRepeat(Without(es, es[k]))
         /\ \A v : (\E j \in 1..Len(Without(es, es[k])) : Without(es, es[k])[j] = v)
                     <=> (v # es[k] /\ \E j \in 1..Len(es) : es[j] = v)
<1> DEFINE i == CHOOSE i \in 1..Len(es) : es[i] = es[k]
           t == RemoveAt(es, i)
<1>1. i \in 1..Len(es) /\ es[i] = es[k]
  OBVIOUS
<1>2. Without(es, es[k]) = t
  BY DEF Without
<1>3. Distinct(es)
  BY DEF Distinct, NoRepeat
<1> HIDE DEF i
<1>4. t \in Seq(Values)
  BY <1>1, RemoveAtFacts
<1>5. /\ Distinct(t)
      /\ \A j \in 1..Len(t) : t[j] # es[i] /\ \E m \in 1..Len(es) : t[j] = es[m]
      /\ \A m \in 1..Len(es) : m # i => \E j \in 1..Len(t) : t[j] = es[m]
  BY <1>1, <1>3, RemoveDistinct
<1> HIDE DEF t
<1>6. NoRepeat(t)
  BY <1>5 DEF Distinct, NoRepeat
<1> QED BY <1>1, <1>2, <1>4, <1>5, <1>6

-----------------------------------------------------------------------------
LEMMA InitLift == Init => LiftInv
<1> SUFFICES ASSUME Init PROVE LiftInv
  OBVIOUS
<1>1. TypeOK
  <2>1. nodes \in Linked
    BY DEF Init, Linked
  <2>2. edges \in Seq(Values) /\ pass \in Seq(Values)
    BY DEF Init
  <2>3. /\ pln_dst \in [Values -> Values \cup {NIL}]
        /\ regs \in [Values -> Values]
    BY DEF Init
  <2> QED BY <2>1, <2>2, <2>3 DEF Init, TypeOK
<1>2. Pending = {}
  BY DEF Init, Pending
<1> QED BY <1>1, <1>2 DEF Init, LiftInv, NoRepeat, LiftIsParallel

LEMMA CollectLift ==
  ASSUME LiftInv, NEW dst \in Values, NEW src \in Values, Collect(dst, src)
  PROVE  LiftInv'
<1>0. TypeOK /\ NoRepeat(edges)
  BY DEF LiftInv
<1>1. nodes' \in Linked
  BY <1>0, WithNodesType DEF Collect, TypeOK
<1>2. CASE pln_dst[dst] # NIL
  <2>1. TypeOK'
    BY <1>0, <1>1, <1>2 DEF Collect, TypeOK
  <2>2. Pending' = Pending
    BY <1>2 DEF Collect, Pending
  <2> QED BY <2>1, <2>2, <1>2 DEF Collect, LiftInv, LiftIsParallel, NoRepeat
<1>3. CASE pln_dst[dst] = NIL
  <2>1. /\ pc' = "collect" /\ pc = "collect"
        /\ pln_dst' = [pln_dst EXCEPT ![dst] = src]
        /\ edges' = <<dst>> \o edges
        /\ UNCHANGED <<pass, progress, start, cur, regs, tmpreg>>
    BY <1>3 DEF Collect
  <2>2. edges \in Seq(Values)
    BY <1>0 DEF TypeOK
  <2>3. /\ edges' \in Seq(Values)
        /\ Len(edges') = Len(edges) + 1
        /\ edges'[1] = dst
        /\ \A i \in 2..(Len(edges)+1) : edges'[i] = edges[i-1]
    BY <2>1, <2>2
  <2>4. TypeOK'
    BY <1>0, <1>1, <2>1, <2>3 DEF TypeOK
  <2>5. Pending' = Pending \cup {dst}
    <3>1. \A i \in 1..Len(edges) : i + 1 \in 2..(Len(edges)+1) /\ (i + 1) - 1 = i
      BY <2>2
    <3>2. \A i \in 2..(Len(edges)+1) : i - 1 \in 1..Len(edges) /\ i \in 1..(Len(edges)+1)
      BY <2>2
    <3>3. \A i \in 1..(Len(edges)+1) : i = 1 \/ i \in 2..(Len(edges)+1)
      BY <2>2
    <3>4. 1 \in 1..(Len(edges)+1)
      BY <2>2
    <3>5. ASSUME NEW v \in Pending' PROVE v \in Pending \cup {dst}
      <4>1. PICK i \in 1..Len(edges') : v = edges'[i]
        BY <3>5 DEF Pending
      <4>2. i = 1 \/ i \in 2..(Len(edges)+1)
        BY <4>1, <3>3, <2>3
      <4> QED BY <4>1, <4>2, <3>2, <2>3 DEF Pending
    <3>6. ASSUME NEW v \in Pending PROVE v \in Pending'
      <4>1. PICK i \in 1..Len(edges) : v = edges[i]
        BY <3>6 DEF Pending
      <4>2. edges'[i+1] = v /\ i + 1 \in 1..Len(edges')
        BY <4>1, <3>1, <3>2, <2>3
      <4> QED BY <4>2 DEF Pending
    <3>7. dst \in Pending'
      BY <3>4, <2>3 DEF Pending
    <3> QED BY <3>5, <3>6, <3>7
  <2>6. dst \notin Pending
    BY <1>3, PhiNames DEF LiftInv
  <2>7. NoRepeat(edges')
    <3>1. ASSUME NEW i \in 2..(Len(edges)+1) PROVE edges'[i] \in Pending
      <4>1. i - 1 \in 1..Len(edges)
        BY <2>2
      <4> QED BY <4>1, <2>3 DEF Pending
    <3>2. ASSUME NEW i \in 2..(Len(edges)+1), NEW j \in 2..(Len(edges)+1), edges'[i] = edges'[j]
          PROVE  i = j
      <4>1. i - 1 \in 1..Len(edges) /\ j - 1 \in 1..Len(edges)
        BY <2>2
      <4>2. i - 1 = j - 1
        BY <4>1, <3>2, <2>3, <1>0 DEF NoRepeat
      <4> QED BY <4>2
    <3>3. \A i \in 1..Len(edges') : i = 1 \/ i \in 2..(Len(edges)+1)
      BY <2>2, <2>3
    <3> QED BY <3>1, <3>2, <3>3, <2>3, <2>6 DEF NoRepeat
  <2>8. \A v \in Values : regs'[v] = v /\ (pln_dst'[v] # NIL => v \in Pending')
    BY <2>1, <2>5, <1>0 DEF LiftInv, TypeOK
  <2>9. \A d \in Pending' : /\ pln_dst'[d] \in Values
                            /\ pln_dst'[pln_dst'[d]] # NIL => pln_dst'[d] \in Pending'
    <3>1. Pending' \subseteq Values
      BY <2>3 DEF Pending
    <3>2. \A d \in Pending' : pln_dst'[d] \in Values
      BY <2>1, <2>5, <1>0, <3>1 DEF LiftInv, TypeOK
    <3> QED BY <3>2, <2>8
  <2> QED BY <2>1, <2>4, <2>7, <2>8, <2>9, <1>0 DEF LiftInv, LiftIsParallel
<1> QED BY <1>2, <1>3

LEMMA LiftMoveLift ==
  ASSUME LiftInv, LiftMove
  PROVE  LiftInv'
<1> DEFINE d == Head(pass)  s == pln_dst[d]  left == Without(edges, d)
<1>0. /\ TypeOK /\ NoRepeat(edges) /\ pc = "lift" /\ start = NIL
      /\ NoRepeat(pass) /\ LiftIsParallel
      /\ edges \in Seq(Values) /\ pass \in Seq(Values) /\ pass # <<>>
  BY DEF LiftInv, LiftMove, TypeOK
<1>1. d = pass[1] /\ 1 \in 1..Len(pass)
  BY <1>0
<1>2. d \in Pending
  BY <1>0, <1>1 DEF LiftInv
<1>3. d \in Values /\ s \in Values
  BY <1>0, <1>1, <1>2 DEF LiftInv
<1>4. PICK k \in 1..Len(edges) : edges[k] = d
  BY <1>2 DEF Pending
<1>5. /\ left \in Seq(Values) /\ NoRepeat(left)
      /\ \A v : (\E j \in 1..Len(left) : left[j] = v)
                  <=> (v # d /\ \E j \in 1..Len(edges) : edges[j] = v)
  <2>1. left = Without(edges, edges[k])
    BY <1>4
  <2> DEFINE w == Without(edges, edges[k])
  <2>2. /\ w \in Seq(Values) /\ NoRepeat(w)
        /\ \A v : (\E j \in 1..Len(w) : w[j] = v)
                    <=> (v # edges[k] /\ \E j \in 1..Len(edges) : edges[j] = v)
    BY <1>0, WithoutFacts, Zenon
  <2> HIDE DEF w
  <2>3. left = w
    BY <2>1 DEF w
  <2> HIDE DEF d, left
  <2> QED BY <2>2, <2>3, <1>4
<1>6. /\ regs' = [regs EXCEPT ![d] = regs[s]]
      /\ edges' = left
      /\ nodes' = Unlink(nodes, d, s, left)
      /\ pass' = Tail(pass)
      /\ progress' = TRUE
      /\ UNCHANGED <<pc, pln_dst, start, cur, tmpreg>>
  BY DEF LiftMove, InsertMove
<1>7. \A i \in 1..Len(edges) : pln_dst[edges[i]] # d
  BY DEF LiftMove, Blocked, IsSource
<1>8. nodes' \in Linked
  BY <1>0, <1>3, <1>6, UnlinkType DEF TypeOK
<1> HIDE DEF d, s, left
<1>9. Pending' = Pending \ {d}
  BY <1>5, <1>6 DEF Pending
<1>10. \A e \in Pending : pln_dst[e] # d
  BY <1>7 DEF Pending
<1>11. /\ pass' \in Seq(Values)
       /\ Len(pass') = Len(pass) - 1
       /\ \A i \in 1..(Len(pass) - 1) : pass'[i] = pass[i+1]
  BY <1>0, <1>6
<1>12. TypeOK'
  BY <1>0, <1>3, <1>5, <1>6, <1>8, <1>11 DEF TypeOK
<1>13. NoRepeat(pass') /\ \A i \in 1..Len(pass') : pass'[i] \in Pending'
  <2>1. \A i \in 1..Len(pass') : i + 1 \in 1..Len(pass) /\ i + 1 # 1 /\ pass'[i] = pass[i+1]
    BY <1>0, <1>11
  <2>2. ASSUME NEW i \in 1..Len(pass'), NEW j \in 1..Len(pass'), pass'[i] = pass'[j]
        PROVE  i = j
    <3>1. i + 1 = j + 1
      BY <2>1, <2>2, <1>0 DEF NoRepeat
    <3> QED BY <3>1
  <2>3. ASSUME NEW i \in 1..Len(pass') PROVE pass'[i] \in Pending /\ pass'[i] # d
    BY <2>1, <1>0, <1>1 DEF NoRepeat, LiftInv
  <2> QED BY <2>2, <2>3, <1>9 DEF NoRepeat
<1>14. regs[s] = s
  <2>1. pln_dst[s] # NIL => s \in Pending
    BY <1>2 DEF LiftInv, s
  <2> QED BY <2>1, <1>0, <1>3 DEF LiftIsParallel
<1>15. \A e \in Pending' : /\ pln_dst'[e] \in Values
                           /\ pln_dst'[pln_dst'[e]] # NIL => pln_dst'[e] \in Pending'
  BY <1>6, <1>9, <1>10 DEF LiftInv
<1>16. LiftIsParallel'
  <2>1. pln_dst[d] = s /\ s # NIL
    BY <1>3, PhiNames DEF s
  <2>2. ASSUME NEW v \in Values
        PROVE  regs'[v] = IF pln_dst[v] # NIL /\ v \notin Pending' THEN pln_dst[v] ELSE v
    <3>1. CASE v = d
      BY <3>1, <2>1, <1>0, <1>3, <1>6, <1>9, <1>14 DEF TypeOK
    <3>2. CASE v # d
      <4>1. regs'[v] = regs[v] /\ (v \in Pending' <=> v \in Pending)
        BY <3>2, <1>0, <1>6, <1>9 DEF TypeOK
      <4> QED BY <4>1, <1>0 DEF LiftIsParallel
    <3> QED BY <3>1, <3>2
  <2> QED BY <2>2, <1>6 DEF LiftIsParallel
<1> QED BY <1>0, <1>5, <1>6, <1>12, <1>13, <1>15, <1>16 DEF LiftInv

LEMMA NextLift == LiftInv /\ [Next]_vars => LiftInv'
<1> SUFFICES ASSUME LiftInv, [Next]_vars PROVE LiftInv'
  OBVIOUS
<1>0. TypeOK
  BY DEF LiftInv
<1>1. ASSUME NEW dst \in Values, NEW src \in Values, Collect(dst, src) PROVE LiftInv'
  BY <1>1, CollectLift
<1>2. CASE CollectDone
  <2>1. TypeOK' /\ Pending' = Pending
    BY <1>0, <1>2 DEF CollectDone, TypeOK, Pending
  <2>2. \A i \in 1..Len(pass') : pass'[i] \in Pending'
    BY <1>2, <2>1 DEF CollectDone, Pending
  <2>3. NoRepeat(edges') /\ NoRepeat(pass')
    BY <1>2 DEF CollectDone, LiftInv, NoRepeat
  <2> QED BY <1>2, <2>1, <2>2, <2>3 DEF CollectDone, LiftInv, LiftIsParallel
<1>3. CASE LiftSkip
  <2>0. pass \in Seq(Values) /\ pass # <<>> /\ NoRepeat(pass) /\ pass' = Tail(pass)
    BY <1>0, <1>3 DEF LiftSkip, TypeOK, LiftInv
  <2>1. /\ pass' \in Seq(Values)
        /\ \A i \in 1..Len(pass') : i + 1 \in 1..Len(pass) /\ pass'[i] = pass[i+1]
    BY <2>0
  <2>2. TypeOK' /\ Pending' = Pending
    BY <1>0, <1>3, <2>1 DEF LiftSkip, TypeOK, Pending
  <2>3. ASSUME NEW i \in 1..Len(pass'), NEW j \in 1..Len(pass'), pass'[i] = pass'[j]
        PROVE  i = j
    <3>1. i + 1 = j + 1
      BY <2>0, <2>1, <2>3 DEF NoRepeat
    <3> QED BY <3>1
  <2>4. NoRepeat(edges') /\ NoRepeat(pass')
    BY <1>3, <2>3 DEF LiftSkip, LiftInv, NoRepeat
  <2>5. \A i \in 1..Len(pass') : pass'[i] \in Pending'
    BY <1>3, <2>1, <2>2 DEF LiftSkip, LiftInv
  <2> QED BY <1>3, <2>2, <2>4, <2>5 DEF LiftSkip, LiftInv, LiftIsParallel
<1>4. CASE LiftMove
  BY <1>4, LiftMoveLift
<1>5. CASE LiftPassDone
  <2>1. TypeOK' /\ Pending' = Pending
    BY <1>0, <1>5 DEF LiftPassDone, PassOutcome, TypeOK, Pending
  <2>2. pc' = "lift" => \A i \in 1..Len(pass') : pass'[i] \in Pending'
    BY <1>5, <2>1 DEF LiftPassDone, Pending
  <2>3. NoRepeat(edges') /\ (pc' = "lift" => NoRepeat(pass'))
    BY <1>5 DEF LiftPassDone, LiftInv, NoRepeat
  <2>4. pc' \in {"done", "lift", "cycle"}
    BY <1>5 DEF LiftPassDone, PassOutcome
  <2> QED BY <1>5, <2>1, <2>2, <2>3, <2>4 DEF LiftPassDone, LiftInv, LiftIsParallel
<1>6. CASE CycleStart
  <2>1. nodes.next[HEAD] \in Values
    BY <1>0, <1>6 DEF CycleStart, TypeOK, Linked
  <2>2. TypeOK' /\ Pending' = Pending
    BY <1>0, <1>6, <2>1 DEF CycleStart, TypeOK, Pending, Saved
  <2>3. cur' \in Values /\ start' \in Values /\ tmpreg' \in Values
    BY <1>0, <1>6, <2>1 DEF CycleStart, TypeOK, Saved
  <2> QED BY <1>6, <2>2, <2>3 DEF CycleStart, LiftInv, LiftIsParallel, NoRepeat
<1>7. CASE CyclesDone
  <2>1. TypeOK' /\ Pending' = Pending
    BY <1>0, <1>7 DEF CyclesDone, TypeOK, Pending
  <2> QED BY <1>7, <2>1 DEF CyclesDone, LiftInv, LiftIsParallel, NoRepeat
<1>8. CASE WalkMove /\ pln_dst[cur] = NIL
  <2>1. TypeOK' /\ Pending' = Pending
    BY <1>0, <1>8 DEF WalkMove, TypeOK, Pending
  <2> QED BY <1>8, <2>1 DEF WalkMove, LiftInv, LiftIsParallel, NoRepeat
<1>9. CASE WalkMove /\ pln_dst[cur] # NIL
  <2>1. cur \in Values /\ pln_dst[cur] \in Values
    BY <1>0, <1>9 DEF WalkMove, LiftInv, TypeOK
  <2>2. nodes' \in Linked
    BY <1>0, <1>9, <2>1, ListType DEF WalkMove, TypeOK
  <2>3. TypeOK' /\ Pending' = Pending
    BY <1>0, <1>9, <2>1, <2>2 DEF WalkMove, InsertMove, TypeOK, Pending
  <2> QED BY <1>9, <2>1, <2>3 DEF WalkMove, LiftInv, LiftIsParallel, NoRepeat
<1>10. CASE WalkClose
  <2>1. cur \in Values /\ start \in Values /\ tmpreg \in Values
    BY <1>10 DEF WalkClose, LiftInv
  <2>2. nodes' \in Linked
    BY <1>0, <1>10, <2>1, ListType DEF WalkClose, TypeOK
  <2>3. TypeOK' /\ Pending' = Pending
    BY <1>0, <1>10, <2>1, <2>2 DEF WalkClose, InsertMove, Closing, TypeOK, Pending
  <2>4. start' # NIL
    BY <1>10, <2>1, PhiNames DEF WalkClose
  <2> QED BY <1>10, <2>3, <2>4 DEF WalkClose, LiftInv, LiftIsParallel, NoRepeat
<1>11. CASE UNCHANGED vars
  <2>1. TypeOK' /\ Pending' = Pending
    BY <1>0, <1>11 DEF vars, TypeOK, Pending
  <2> QED BY <1>11, <2>1 DEF vars, LiftInv, LiftIsParallel, NoRepeat
<1> QED BY <1>1, <1>2, <1>3, <1>4, <1>5, <1>6, <1>7, <1>8, <1>9, <1>10, <1>11 DEF Next

-----------------------------------------------------------------------------
(* exit_ssa_edge keeps the inductive invariant. *)
THEOREM PhiLiftInvariant == Spec => []LiftInv
<1> QED BY InitLift, NextLift, PTL DEF Spec

(* Every variable of exit_ssa_edge keeps its type. *)
THEOREM PhiLiftTypeOK == Spec => []TypeOK
<1>1. LiftInv => TypeOK
  BY DEF LiftInv
<1> QED BY <1>1, PhiLiftInvariant, PTL

(* The passes of exit_ssa_edge implement the parallel moves they retire,   *)
(* however many PHI entries there are and in whatever order.               *)
THEOREM PhiLiftPassesParallel == Spec => []LiftIsParallel
<1>1. LiftInv => LiftIsParallel
  BY DEF LiftInv
<1> QED BY <1>1, PhiLiftInvariant, PTL

-----------------------------------------------------------------------------
(* The list l holds the elements of L.  Later elements are older: age says *)
(* when an element was inserted, so that no part of L is off the list.     *)
ListOf(l, L) ==
  /\ l \in Linked
  /\ L \subseteq Values
  /\ l.next[HEAD] \in L \cup {NIL}
  /\ \A v \in L : /\ l.next[v] \in L \cup {NIL}
                  /\ l.prev[v] \in L \cup {HEAD}
                  /\ l.next[l.prev[v]] = v
  /\ \A u \in L \cup {HEAD} : l.next[u] # NIL => l.prev[l.next[u]] = u
  /\ \E age \in [Values -> Nat], now \in Nat :
       \A v \in L : age[v] < now /\ (l.prev[v] # HEAD => age[v] < age[l.prev[v]])

(* LIST_FIRST is an element, and is NULL only when there is none. *)
LEMMA ListFirst ==
  ASSUME NEW l, NEW L, ListOf(l, L)
  PROVE  IF L = {} THEN l.next[HEAD] = NIL ELSE l.next[HEAD] \in L
<1>1. CASE L = {}
  BY <1>1 DEF ListOf
<1>2. CASE L # {}
  <2>1. PICK age \in [Values -> Nat], now \in Nat :
          \A v \in L : age[v] < now /\ (l.prev[v] # HEAD => age[v] < age[l.prev[v]])
    BY DEF ListOf
  <2> DEFINE T == {n \in Nat : \E v \in L : now - age[v] = n}
  <2>2. \A v \in L : age[v] \in Nat /\ now - age[v] \in Nat
    BY <2>1 DEF ListOf
  <2>3. T \subseteq Nat /\ T # {}
    BY <1>2, <2>2
  <2>4. PICK n \in T : \A m \in T : n <= m
    BY <2>3, LeastNatural
  <2>5. PICK v \in L : now - age[v] = n
    BY <2>4
  <2>6. \A w \in L : age[w] <= age[v]
    <3> TAKE w \in L
    <3>1. now - age[w] \in T
      BY <2>2
    <3>2. now - age[v] <= now - age[w]
      BY <3>1, <2>4, <2>5
    <3> QED BY <3>2, <2>2
  <2>7. l.prev[v] = HEAD
    <3>1. l.prev[v] \in L \cup {HEAD}
      BY DEF ListOf
    <3>2. ASSUME l.prev[v] # HEAD PROVE FALSE
      <4>1. l.prev[v] \in L
        BY <3>1, <3>2
      <4>2. age[v] < age[l.prev[v]] /\ age[l.prev[v]] <= age[v]
        BY <4>1, <3>2, <2>1, <2>6
      <4> QED BY <4>1, <4>2, <2>2
    <3> QED BY <3>2
  <2>8. l.next[HEAD] = v
    BY <2>7 DEF ListOf
  <2> QED BY <1>2, <2>8
<1> QED BY <1>1, <1>2

LEMMA ListInsert ==
  ASSUME NEW l, NEW L, ListOf(l, L), NEW n \in Values, n \notin L
  PROVE  ListOf(LIST_INSERT_HEAD(l, n), L \cup {n})
<1> DEFINE k == LIST_INSERT_HEAD(l, n)
           f == l.next[HEAD]
<1>0. /\ l \in Linked /\ L \subseteq Values /\ f \in L \cup {NIL}
      /\ HEAD \notin L /\ NIL \notin L
  BY PhiNames DEF ListOf
<1>1. /\ k \in Linked
      /\ k.next[HEAD] = n /\ k.next[n] = f
      /\ \A v \in L : k.next[v] = l.next[v]
      /\ k.prev[n] = HEAD
      /\ f # NIL => k.prev[f] = n
      /\ \A v \in L : v # f => k.prev[v] = l.prev[v]
  <2>1. k \in Linked
    BY <1>0, ListType
  <2>2. n # HEAD /\ HEAD \notin L /\ NIL \notin L
    BY <1>0, PhiNames
  <2>3. k.next = [l.next EXCEPT ![n] = f, ![HEAD] = n]
    BY DEF LIST_INSERT_HEAD
  <2>4. k.prev = [e \in Values |-> IF e = n THEN HEAD ELSE IF e = f THEN n ELSE l.prev[e]]
    BY DEF LIST_INSERT_HEAD
  <2>5. l.next \in [Values \cup {HEAD} -> Values \cup {NIL}]
    BY <1>0 DEF Linked
  <2> HIDE DEF k
  <2>6. k.next[HEAD] = n /\ k.next[n] = f /\ \A v \in L : k.next[v] = l.next[v]
    BY <2>2, <2>3, <2>5, <1>0
  <2>7. /\ k.prev[n] = HEAD
        /\ f # NIL => k.prev[f] = n
        /\ \A v \in L : v # f => k.prev[v] = l.prev[v]
    BY <2>4, <1>0
  <2> QED BY <2>1, <2>6, <2>7
<1> HIDE DEF k
<1>2. f # NIL => l.prev[f] = HEAD
  BY DEF ListOf, f
<1>3. ASSUME NEW v \in L, v # f PROVE l.prev[v] # HEAD
  BY <1>3 DEF ListOf, f
<1>4. ASSUME NEW v \in L \cup {n}
      PROVE  /\ k.next[v] \in L \cup {n, NIL}
             /\ k.prev[v] \in L \cup {n, HEAD}
             /\ k.next[k.prev[v]] = v
  <2>1. CASE v = n
    BY <2>1, <1>0, <1>1
  <2>2. CASE v = f /\ v # n
    <3>1. v \in L /\ f # NIL
      BY <2>2, <1>4, PhiNames, <1>0
    <3> QED BY <3>1, <2>2, <1>1 DEF ListOf
  <2>3. CASE v # f /\ v # n
    <3>1. v \in L /\ l.prev[v] \in L /\ l.next[l.prev[v]] = v /\ l.next[v] \in L \cup {NIL}
      BY <2>3, <1>3, <1>4 DEF ListOf
    <3> QED BY <3>1, <2>3, <1>1
  <2> QED BY <2>1, <2>2, <2>3
<1>5. ASSUME NEW u \in L \cup {n, HEAD}, k.next[u] # NIL PROVE k.prev[k.next[u]] = u
  <2>1. CASE u = HEAD
    BY <2>1, <1>1
  <2>2. CASE u = n
    BY <2>2, <1>1, <1>5
  <2>3. CASE u # HEAD /\ u # n
    <3>1. u \in L /\ k.next[u] = l.next[u] /\ l.next[u] \in L
      BY <2>3, <1>1, <1>5 DEF ListOf
    <3>2. l.prev[l.next[u]] = u
      BY <3>1, <1>5 DEF ListOf
    <3>3. l.next[u] # f
      BY <3>1, <3>2, <1>2, <1>5, <2>3
    <3> QED BY <3>1, <3>2, <3>3, <1>1
  <2> QED BY <2>1, <2>2, <2>3
<1>6. \E age \in [Values -> Nat], now \in Nat :
        \A v \in L \cup {n} : age[v] < now /\ (k.prev[v] # HEAD => age[v] < age[k.prev[v]])
  <2>1. PICK age \in [Values -> Nat], now \in Nat :
          \A v \in L : age[v] < now /\ (l.prev[v] # HEAD => age[v] < age[l.prev[v]])
    BY DEF ListOf
  <2> DEFINE a == [age EXCEPT ![n] = now]
  <2>2. a \in [Values -> Nat] /\ now + 1 \in Nat /\ a[n] = now /\ \A v \in L : a[v] = age[v] /\ age[v] \in Nat
    BY <1>0
  <2> HIDE DEF a
  <2>3. ASSUME NEW v \in L \cup {n}
        PROVE  a[v] < now + 1 /\ (k.prev[v] # HEAD => a[v] < a[k.prev[v]])
    <3>1. CASE v = n
      BY <3>1, <2>2, <1>1
    <3>2. CASE v = f /\ v # n
      <4>1. v \in L /\ k.prev[v] = n
        BY <3>2, <1>1, <1>4, <2>3, <1>0, PhiNames
      <4> QED BY <4>1, <2>1, <2>2
    <3>3. CASE v # f /\ v # n
      <4>1. v \in L /\ k.prev[v] = l.prev[v] /\ l.prev[v] \in L
        BY <3>3, <1>1, <1>3, <2>3 DEF ListOf
      <4>2. age[v] < now /\ age[v] < age[l.prev[v]]
        BY <4>1, <2>1, <1>3, <3>3
      <4> QED BY <4>1, <4>2, <2>2
    <3> QED BY <3>1, <3>2, <3>3
  <2> QED BY <2>2, <2>3
<1>7. k.next[HEAD] \in L \cup {n, NIL} /\ L \cup {n} \subseteq Values
  BY <1>0, <1>1
<1>8. (L \cup {n}) \cup {NIL} = L \cup {n, NIL} /\ (L \cup {n}) \cup {HEAD} = L \cup {n, HEAD}
  OBVIOUS
<1>9. ListOf(k, L \cup {n})
  BY <1>1, <1>4, <1>5, <1>6, <1>7, <1>8, Zenon DEF ListOf
<1> QED BY <1>9 DEF k

LEMMA ListRemove ==
  ASSUME NEW l, NEW L, ListOf(l, L), NEW n \in L
  PROVE  ListOf(LIST_REMOVE(l, n), L \ {n})
<1> DEFINE k == LIST_REMOVE(l, n)
           p == l.prev[n]
           e == l.next[n]
           M == L \ {n}
<1>0. /\ l \in Linked /\ L \subseteq Values /\ p \in L \cup {HEAD} /\ e \in L \cup {NIL}
      /\ l.next[p] = n
      /\ e # NIL => l.prev[e] = n
      /\ HEAD \notin L /\ NIL \notin L
  BY PhiNames DEF ListOf
<1>1. PICK age \in [Values -> Nat], now \in Nat :
        \A v \in L : age[v] < now /\ (l.prev[v] # HEAD => age[v] < age[l.prev[v]])
  BY DEF ListOf
<1>2. \A v \in L : age[v] \in Nat
  BY <1>0
<1>3. p # n
  BY <1>0, <1>1, <1>2
<1>4. e # n
  BY <1>0, <1>3
<1>5. /\ k \in Linked
      /\ k.next[p] = e
      /\ \A u \in L \cup {HEAD} : u # p => k.next[u] = l.next[u]
      /\ e # NIL => k.prev[e] = p
      /\ \A v \in L : v # e => k.prev[v] = l.prev[v]
  <2>1. k \in Linked
    BY <1>0, ListType
  <2>2. k.next = [l.next EXCEPT ![p] = e]
    BY DEF LIST_REMOVE
  <2>3. k.prev = [x \in Values |-> IF x = e THEN p ELSE l.prev[x]]
    BY DEF LIST_REMOVE
  <2>4. l.next \in [Values \cup {HEAD} -> Values \cup {NIL}]
    BY <1>0 DEF Linked
  <2> HIDE DEF k, p, e
  <2> QED BY <2>1, <2>2, <2>3, <2>4, <1>0
<1> HIDE DEF k
<1>6. \A u \in L \cup {HEAD} : l.next[u] = n => u = p
  BY <1>0, PhiNames DEF ListOf
<1>7. \A v \in L : l.prev[v] = n => v = e
  BY <1>0 DEF ListOf
<1>8. k.next[HEAD] \in M \cup {NIL}
  <2>1. CASE p = HEAD
    BY <2>1, <1>0, <1>4, <1>5
  <2>2. CASE p # HEAD
    BY <2>2, <1>5, <1>6 DEF ListOf
  <2> QED BY <2>1, <2>2
<1>9. ASSUME NEW v \in M
      PROVE  /\ k.next[v] \in M \cup {NIL}
             /\ k.prev[v] \in M \cup {HEAD}
             /\ k.next[k.prev[v]] = v
  <2>1. k.next[v] \in M \cup {NIL}
    <3>1. CASE v = p
      BY <3>1, <1>0, <1>4, <1>5
    <3>2. CASE v # p
      <4>1. k.next[v] = l.next[v] /\ l.next[v] # n /\ l.next[v] \in L \cup {NIL}
        BY <3>2, <1>5, <1>6, <1>9 DEF ListOf
      <4> QED BY <4>1
    <3> QED BY <3>1, <3>2
  <2>2. CASE v = e
    <3>1. e # NIL
      BY <2>2, <1>0
    <3> QED BY <2>1, <2>2, <3>1, <1>0, <1>3, <1>5
  <2>3. CASE v # e
    <3>1. k.prev[v] = l.prev[v] /\ l.prev[v] # n /\ l.prev[v] \in L \cup {HEAD} /\ l.next[l.prev[v]] = v
      BY <2>3, <1>5, <1>7 DEF ListOf
    <3>2. l.prev[v] # p
      BY <3>1, <1>0
    <3> QED BY <2>1, <3>1, <3>2, <1>5
  <2> QED BY <2>2, <2>3
<1>10. ASSUME NEW u \in M \cup {HEAD}, k.next[u] # NIL PROVE k.prev[k.next[u]] = u
  <2>1. CASE u = p
    BY <2>1, <1>5, <1>10
  <2>2. CASE u # p
    <3>1. k.next[u] = l.next[u] /\ l.next[u] \in L /\ l.prev[l.next[u]] = u
      BY <2>2, <1>5, <1>10 DEF ListOf
    <3>2. l.next[u] # e
      BY <3>1, <1>0, <1>10
    <3> QED BY <3>1, <3>2, <1>5
  <2> QED BY <2>1, <2>2
<1>11. \A v \in M : age[v] < now /\ (k.prev[v] # HEAD => age[v] < age[k.prev[v]])
  <2> TAKE v \in M
  <2>1. CASE v = e
    <3>1. e # NIL /\ k.prev[v] = p /\ l.prev[v] = n /\ n # HEAD
      BY <2>1, <1>0, <1>5
    <3>2. age[v] < age[n] /\ age[v] < now
      BY <3>1, <1>1
    <3>3. p # HEAD => age[n] < age[p] /\ p \in L
      BY <1>0, <1>1
    <3> QED BY <3>1, <3>2, <3>3, <1>2
  <2>2. CASE v # e
    BY <2>2, <1>1, <1>5
  <2> QED BY <2>1, <2>2
<1>12. M \subseteq Values
  BY <1>0
<1> HIDE DEF M
<1>13. ListOf(k, M)
  BY <1>1, <1>5, <1>8, <1>9, <1>10, <1>11, <1>12, Zenon DEF ListOf
<1> QED BY <1>13 DEF k, M

-----------------------------------------------------------------------------
(* The nodes a pending move names. *)
Live == Pending \cup {pln_dst[d] : d \in Pending}

(* The nodes on the list are L, the moves to them have yet to be emitted   *)
(* and all the others have been.                                           *)
ToMove(L) ==
  /\ ListOf(nodes, L)
  /\ \A v \in Values : regs[v] = IF pln_dst[v] # NIL /\ v \notin L THEN pln_dst[v] ELSE v

(* L is a union of cycles. *)
CyclesLeft(L) == ToMove(L) /\ \A v \in L : pln_dst[v] \in L

(* L is a union of cycles but for the one being walked, from which the     *)
(* nodes from start up to cur are gone.                                    *)
WalkLeft(L) ==
  /\ ToMove(L)
  /\ tmpreg = start
  /\ start \in ReadAndWritten
  /\ cur \in L
  /\ start \in L => cur = start
  /\ \A v \in L : pln_dst[v] \in L \cup {start}
  /\ cur # start => \A v \in L : pln_dst[v] # cur

(* Without chains a node is removed once, and what the passes leave are    *)
(* the cycles.                                                             *)
CyclesOnly ==
  /\ pc = "lift" => ListOf(nodes, Live) /\ ReadAndWritten \subseteq Pending
  /\ pc = "cycle" => \E L \in SUBSET ReadAndWritten : CyclesLeft(L)
  /\ pc = "walk" => \E L \in SUBSET ReadAndWritten : WalkLeft(L)

(* A move is left to a later pass only while it is blocked. *)
PassComplete ==
  \A d \in Pending : progress \/ (\E i \in 1..Len(pass) : pass[i] = d) \/ Blocked(d)

Sound == ParallelCopy /\ pc # "crash"

CopyInv ==
  /\ LiftInv
  /\ \A v \in Values : pln_dst[v] # v
  /\ pc = "collect" => ListOf(nodes, {v \in Values : Known(v)})
  /\ pc = "lift" => PassComplete
  /\ NoCycle => pc \notin {"cycle", "walk", "crash"}
  /\ NoChain => CyclesOnly
  /\ NoCycle \/ NoChain => Sound

LEMMA InitCopy == Init => CopyInv
<1> SUFFICES ASSUME Init PROVE CopyInv
  OBVIOUS
<1>1. LiftInv
  BY InitLift
<1>2. {v \in Values : Known(v)} = {}
  BY DEF Init, Known
<1>3. ListOf(nodes, {})
  <2>1. nodes \in Linked /\ nodes.next[HEAD] = NIL
    BY <1>1 DEF Init, LiftInv, TypeOK
  <2>2. [v \in Values |-> 0] \in [Values -> Nat] /\ 0 \in Nat
    OBVIOUS
  <2> QED BY <2>1, <2>2 DEF ListOf
<1>4. \A v \in Values : pln_dst[v] # v
  BY PhiNames DEF Init
<1> QED BY <1>1, <1>2, <1>3, <1>4 DEF Init, CopyInv, CyclesOnly, Sound, ParallelCopy

(* Once the PHIs have been read, what is moved where is settled. *)
LEMMA SamePhis ==
  ASSUME UNCHANGED pln_dst
  PROVE  /\ ReadAndWritten' = ReadAndWritten
         /\ NoChain' = NoChain
         /\ NoCycle' = NoCycle
         /\ (\A v \in Values : pln_dst[v] # v) => \A v \in Values : pln_dst'[v] # v
<1>1. ReadAndWritten' = ReadAndWritten
  BY DEF ReadAndWritten
<1> QED BY <1>1 DEF NoChain, NoCycle

LEMMA CollectCopy ==
  ASSUME CopyInv, NEW dst \in Values, NEW src \in Values, Collect(dst, src)
  PROVE  CopyInv'
<1>1. LiftInv' /\ TypeOK
  BY CollectLift DEF CopyInv, LiftInv
<1>2. \A v \in Values : pln_dst'[v] # v
  BY <1>1 DEF Collect, CopyInv, TypeOK
<1>3. pc' \in {"collect", "error"}
  BY DEF Collect
<1>4. ASSUME pc' = "collect"
      PROVE  ListOf(nodes', {v \in Values : Known(v)'})
  <2> DEFINE K == {v \in Values : Known(v)}
  <2>1. pc = "collect" /\ pln_dst' = [pln_dst EXCEPT ![dst] = src] /\ dst # src
        /\ nodes' = WithNodes(nodes, dst, src) /\ pln_dst[dst] = NIL
    BY <1>4 DEF Collect
  <2>2. ListOf(nodes, K)
    BY <2>1 DEF CopyInv
  <2>3. {v \in Values : Known(v)'} = K \cup {dst, src}
    <3>1. pln_dst \in [Values -> Values \cup {NIL}]
      BY <1>1 DEF TypeOK
    <3>2. \A d \in Values : pln_dst'[d] = IF d = dst THEN src ELSE pln_dst[d]
      BY <2>1, <3>1
    <3> QED BY <3>1, <3>2, <2>1, PhiNames DEF Known
  <2> DEFINE l1 == IF Known(dst) THEN nodes ELSE LIST_INSERT_HEAD(nodes, dst)
  <2>4. ListOf(l1, K \cup {dst})
    <3>1. CASE Known(dst)
      <4>1. K \cup {dst} = K /\ l1 = nodes
        BY <3>1
      <4> QED BY <4>1, <2>2, Zenon
    <3>2. CASE ~Known(dst)
      <4>1. dst \notin K /\ l1 = LIST_INSERT_HEAD(nodes, dst)
        BY <3>2
      <4> HIDE DEF K, l1
      <4> QED BY <4>1, <2>2, ListInsert, Zenon
    <3> QED BY <3>1, <3>2
  <2>5. nodes' = IF Known(src) THEN l1 ELSE LIST_INSERT_HEAD(l1, src)
    BY <2>1 DEF WithNodes
  <2>6. src \in K <=> Known(src)
    OBVIOUS
  <2> HIDE DEF l1, K
  <2>7. ListOf(nodes', K \cup {dst, src})
    <3>1. CASE Known(src)
      <4>1. K \cup {dst, src} = K \cup {dst} /\ nodes' = l1
        BY <3>1, <2>5, <2>6
      <4> QED BY <4>1, <2>4, Zenon
    <3>2. CASE ~Known(src)
      <4>1. src \notin K \cup {dst} /\ nodes' = LIST_INSERT_HEAD(l1, src)
            /\ K \cup {dst, src} = (K \cup {dst}) \cup {src}
        BY <3>2, <2>1, <2>5, <2>6
      <4>2. ListOf(LIST_INSERT_HEAD(l1, src), (K \cup {dst}) \cup {src})
        BY <4>1, <2>4, ListInsert, Zenon
      <4> QED BY <4>1, <4>2, Zenon
    <3> QED BY <3>1, <3>2
  <2> QED BY <2>3, <2>7, Zenon
<1> QED BY <1>1, <1>2, <1>3, <1>4 DEF CopyInv, CyclesOnly, Sound, ParallelCopy

LEMMA CollectDoneCopy ==
  ASSUME CopyInv, CollectDone
  PROVE  CopyInv'
<1>1. /\ pc = "collect" /\ pass' = edges /\ UNCHANGED <<pln_dst, edges, nodes, progress, regs>>
      /\ pc' = IF edges = <<>> THEN "done" ELSE "lift"
  BY DEF CollectDone
<1>2. LiftInv' /\ TypeOK
  BY NextLift DEF Next, CopyInv, LiftInv
<1>3. /\ Pending' = Pending
      /\ Pending = {d \in Values : pln_dst[d] # NIL}
      /\ Live' = Live
  <2>1. Pending' = Pending
    BY <1>1 DEF Pending
  <2>2. Pending \subseteq Values
    BY <1>2 DEF Pending, TypeOK
  <2>3. \A d \in Pending : pln_dst[d] # NIL
    BY PhiNames DEF CopyInv, LiftInv
  <2> QED BY <1>1, <2>1, <2>2, <2>3 DEF CopyInv, LiftInv, Live
<1>4. {v \in Values : Known(v)} = Live
  <2>1. \A d \in Values : pln_dst[d] # NIL => pln_dst[d] \in Values
    BY <1>2 DEF TypeOK
  <2> QED BY <1>3, <2>1 DEF Known, Live
<1>5. CASE edges = <<>>
  <2>1. Pending = {}
    BY <1>5 DEF Pending
  <2>2. ParallelCopy'
    BY <1>1, <1>3, <2>1 DEF ParallelCopy, CopyInv, LiftInv
  <2>3. pc' = "done"
    BY <1>1, <1>5
  <2> QED BY <1>1, <1>2, <2>2, <2>3 DEF CopyInv, CyclesOnly, Sound
<1>6. CASE edges # <<>>
  <2>1. pc' = "lift"
    BY <1>1, <1>6
  <2>2. ListOf(nodes', Live')
    BY <1>1, <1>3, <1>4 DEF CopyInv
  <2>3. ReadAndWritten' \subseteq Pending'
    BY <1>1, <1>3 DEF ReadAndWritten
  <2>4. PassComplete'
    BY <1>1, <1>3 DEF PassComplete, Pending
  <2> QED BY <1>1, <1>2, <2>1, <2>2, <2>3, <2>4 DEF CopyInv, CyclesOnly, Sound, ParallelCopy
<1> QED BY <1>5, <1>6

LEMMA LiftSkipCopy ==
  ASSUME CopyInv, LiftSkip
  PROVE  CopyInv'
<1>1. /\ pc = "lift" /\ pc' = "lift" /\ pass' = Tail(pass) /\ pass # <<>> /\ Blocked(Head(pass))
      /\ UNCHANGED <<pln_dst, edges, nodes, progress, regs>>
  BY DEF LiftSkip
<1>2. LiftInv' /\ TypeOK /\ pass \in Seq(Values)
  BY NextLift DEF Next, CopyInv, LiftInv, TypeOK
<1>3. Pending' = Pending /\ Live' = Live /\ \A d : Blocked(d)' <=> Blocked(d)
  BY <1>1 DEF Pending, Live, Blocked, IsSource
<1>4. PassComplete'
  <2> SUFFICES ASSUME NEW d \in Pending
               PROVE  progress \/ (\E i \in 1..Len(pass') : pass'[i] = d) \/ Blocked(d)
    BY <1>1, <1>3 DEF PassComplete
  <2>1. CASE \E i \in 1..Len(pass) : pass[i] = d
    <3>1. PICK i \in 1..Len(pass) : pass[i] = d
      BY <2>1
    <3>2. CASE i = 1
      BY <3>1, <3>2, <1>1, <1>2
    <3>3. CASE i # 1
      <4>1. i - 1 \in 1..Len(pass') /\ pass'[i - 1] = d
        BY <3>1, <3>3, <1>1, <1>2
      <4> QED BY <4>1
    <3> QED BY <3>2, <3>3
  <2>2. CASE progress \/ Blocked(d)
    BY <2>2
  <2> QED BY <2>1, <2>2, <1>1 DEF CopyInv, PassComplete
<1> QED BY <1>1, <1>2, <1>3, <1>4, SamePhis DEF CopyInv, CyclesOnly, Sound, ParallelCopy

LEMMA LiftMoveCopy ==
  ASSUME CopyInv, LiftMove
  PROVE  CopyInv'
<1> DEFINE d == Head(pass)  s == pln_dst[d]  left == Without(edges, d)
<1>1. /\ pc = "lift" /\ pc' = "lift" /\ pass # <<>> /\ progress' = TRUE
      /\ UNCHANGED pln_dst /\ ~Blocked(d)
      /\ edges' = left /\ nodes' = Unlink(nodes, d, s, left)
  BY DEF LiftMove
<1>2. LiftInv' /\ TypeOK /\ pass \in Seq(Values) /\ LiftInv
  BY NextLift DEF Next, CopyInv, LiftInv, TypeOK
<1>3. d \in Pending
  BY <1>1, <1>2 DEF LiftInv
<1>4. Pending \subseteq Values /\ d \in Values /\ s \in Values
  BY <1>2, <1>3 DEF Pending, TypeOK, LiftInv
<1>5. Pending' = Pending \ {d}
  <2>1. PICK k \in 1..Len(edges) : edges[k] = d
    BY <1>3 DEF Pending
  <2>2. edges \in Seq(Values) /\ NoRepeat(edges)
    BY <1>2 DEF TypeOK, LiftInv
  <2>3. left = Without(edges, edges[k])
    BY <2>1
  <2> DEFINE w == Without(edges, edges[k])
  <2>4. \A v : (\E j \in 1..Len(w) : w[j] = v) <=> (v # edges[k] /\ \E j \in 1..Len(edges) : edges[j] = v)
    BY <2>2, WithoutFacts, Zenon
  <2> HIDE DEF w
  <2>5. left = w
    BY <2>3 DEF w
  <2> HIDE DEF d, left
  <2> QED BY <2>1, <2>4, <2>5, <1>1 DEF Pending
<1>6. \A e \in Pending : pln_dst[e] # d
  BY <1>1 DEF Blocked, IsSource, Pending
<1>7. IsSource(left, s) <=> \E e \in Pending' : pln_dst[e] = s
  BY <1>1 DEF IsSource, Pending
<1>8. nodes' = IF IsSource(left, s) THEN LIST_REMOVE(nodes, d)
                                    ELSE LIST_REMOVE(LIST_REMOVE(nodes, d), s)
  BY <1>1 DEF Unlink
<1>9. s # d
  BY <1>4 DEF CopyInv
<1> HIDE DEF d, left
<1>10. ASSUME NoChain PROVE ListOf(nodes', Live') /\ ReadAndWritten \subseteq Pending'
  <2>1. ListOf(nodes, Live) /\ ReadAndWritten \subseteq Pending
    BY <1>1, <1>10 DEF CopyInv, CyclesOnly
  <2>2. \A v \in ReadAndWritten : \E w \in ReadAndWritten : pln_dst[w] = v
    BY <1>10 DEF NoChain
  <2>3. ReadAndWritten \subseteq Pending'
    BY <2>1, <2>2, <1>5, <1>6
  <2>4. Live' = Pending' \cup {pln_dst[e] : e \in Pending'}
    BY <1>1 DEF Live
  <2>5. d \in Live /\ s \in Live \ {d}
    BY <1>3, <1>9 DEF Live
  <2>6. ListOf(LIST_REMOVE(nodes, d), Live \ {d})
    BY <2>1, <2>5, ListRemove, Zenon
  <2>7. CASE IsSource(left, s)
    <3>1. Live' = Live \ {d}
      BY <2>4, <2>7, <1>3, <1>5, <1>6, <1>7 DEF Live
    <3> QED BY <3>1, <2>3, <2>6, <2>7, <1>8
  <2>8. CASE ~IsSource(left, s)
    <3>1. s \notin Pending'
      <4>1. ASSUME s \in Pending' PROVE FALSE
        <5>1. pln_dst[s] # NIL
          BY <4>1, <1>2, <1>5, PhiNames DEF LiftInv
        <5>2. s \in ReadAndWritten
          BY <5>1, <1>4 DEF ReadAndWritten
        <5>3. \E e \in Pending' : pln_dst[e] = s
          BY <5>2, <2>2, <2>3
        <5> QED BY <5>3, <1>7, <2>8
      <4> QED BY <4>1
    <3>2. Live' = (Live \ {d}) \ {s}
      BY <3>1, <2>4, <2>8, <1>3, <1>5, <1>6, <1>7 DEF Live
    <3>3. ListOf(LIST_REMOVE(LIST_REMOVE(nodes, d), s), (Live \ {d}) \ {s})
      BY <2>5, <2>6, ListRemove, Zenon
    <3> QED BY <3>2, <3>3, <2>3, <2>8, <1>8
  <2> QED BY <2>7, <2>8
<1>11. PassComplete'
  BY <1>1 DEF PassComplete
<1> QED BY <1>1, <1>2, <1>10, <1>11, SamePhis DEF CopyInv, CyclesOnly, Sound, ParallelCopy

LEMMA LiftPassDoneCopy ==
  ASSUME CopyInv, LiftPassDone
  PROVE  CopyInv'
<1>1. /\ pc = "lift" /\ pass = <<>> /\ progress' = FALSE
      /\ UNCHANGED <<pln_dst, edges, nodes, start, cur, regs, tmpreg>>
      /\ pc' = PassOutcome(edges, progress)
      /\ pass' = IF pc' = "lift" THEN edges ELSE <<>>
  BY DEF LiftPassDone
<1>2. LiftInv' /\ TypeOK /\ LiftInv /\ start = NIL
  BY <1>1, NextLift DEF Next, CopyInv, LiftInv
<1>3. Pending' = Pending /\ Live' = Live /\ Pending \subseteq Values
  BY <1>1, <1>2 DEF Pending, Live, TypeOK
<1>4. \A v \in Values : regs[v] = IF pln_dst[v] # NIL /\ v \notin Pending THEN pln_dst[v] ELSE v
  BY <1>1, <1>2 DEF LiftInv, LiftIsParallel
<1>5. CASE edges = <<>>
  <2>1. Pending = {} /\ pc' = "done"
    BY <1>1, <1>5 DEF Pending, PassOutcome
  <2>2. ParallelCopy'
    BY <1>1, <1>4, <2>1 DEF ParallelCopy
  <2> QED BY <1>1, <1>2, <2>1, <2>2, SamePhis DEF CopyInv, CyclesOnly, Sound
<1>6. CASE edges # <<>> /\ progress
  <2>1. pc' = "lift" /\ pass' = edges
    BY <1>1, <1>6 DEF PassOutcome
  <2>2. PassComplete'
    BY <1>1, <1>3, <2>1 DEF PassComplete, Pending
  <2> QED BY <1>1, <1>2, <1>3, <2>1, <2>2, SamePhis DEF CopyInv, CyclesOnly, Sound, ParallelCopy
<1>7. CASE edges # <<>> /\ ~progress
  <2>1. pc' = "cycle"
    BY <1>1, <1>7 DEF PassOutcome
  <2>2. Pending # {}
    <3>1. 1 \in 1..Len(edges)
      BY <1>2, <1>7 DEF TypeOK
    <3> QED BY <3>1 DEF Pending
  <2>3. \A d \in Pending : \E e \in Pending : pln_dst[e] = d
    BY <1>1, <1>7 DEF CopyInv, PassComplete, Blocked, IsSource, Pending
  <2>4. ~NoCycle
    <3>1. Pending \in SUBSET Values
      BY <1>3
    <3> QED BY <3>1, <2>2, <2>3 DEF NoCycle
  <2>5. ASSUME NoChain PROVE \E L \in SUBSET ReadAndWritten : CyclesLeft(L)'
    <3>1. ListOf(nodes, Live) /\ ReadAndWritten \subseteq Pending
      BY <1>1, <2>5 DEF CopyInv, CyclesOnly
    <3>2. \A d \in Pending : pln_dst[d] # NIL
      BY <1>2, PhiNames DEF LiftInv
    <3>3. Pending = ReadAndWritten
      BY <1>3, <2>3, <3>1, <3>2 DEF ReadAndWritten
    <3>4. \A v \in ReadAndWritten : pln_dst[v] \in ReadAndWritten
      BY <2>5 DEF NoChain
    <3>5. Live = ReadAndWritten
      BY <3>3, <3>4 DEF Live
    <3>6. ListOf(nodes, ReadAndWritten)
      BY <3>1, <3>5
    <3>7. CyclesLeft(ReadAndWritten)
      BY <1>4, <3>3, <3>4, <3>6 DEF CyclesLeft, ToMove
    <3>8. \A L : CyclesLeft(L)' <=> CyclesLeft(L)
      BY <1>1 DEF CyclesLeft, ToMove
    <3> QED BY <3>7, <3>8
  <2> QED BY <1>1, <1>2, <2>1, <2>4, <2>5, SamePhis DEF CopyInv, CyclesOnly, Sound, ParallelCopy
<1> QED BY <1>5, <1>6, <1>7

-----------------------------------------------------------------------------
(* Under NoChain each value that is read and written has one such reader. *)
LEMMA OneReader ==
  ASSUME NoChain, NEW u \in ReadAndWritten, NEW w \in ReadAndWritten,
         pln_dst[u] = pln_dst[w]
  PROVE  u = w
<1>1. pln_dst[u] \in ReadAndWritten
  BY DEF NoChain
<1>2. PICK r \in ReadAndWritten : \A x \in ReadAndWritten : pln_dst[x] = pln_dst[u] <=> x = r
  BY <1>1 DEF NoChain
<1> QED BY <1>2

(* The move to v is emitted and its node removed; w is what it copies.     *)
LEMMA MoveOne ==
  ASSUME NEW L, ToMove(L), TypeOK, NEW v \in L, pln_dst[v] \in Values,
         NEW w, w = pln_dst[v],
         regs' = [regs EXCEPT ![v] = w],
         nodes' = LIST_REMOVE(nodes, v),
         UNCHANGED pln_dst
  PROVE  \E M \in SUBSET L : M = L \ {v} /\ ToMove(M)'
<1>1. v \in Values
  BY DEF ToMove, ListOf
<1>2. ListOf(nodes', L \ {v})
  BY ListRemove DEF ToMove
<1>3. ASSUME NEW x \in Values
      PROVE  regs'[x] = IF pln_dst[x] # NIL /\ x \notin L \ {v} THEN pln_dst[x] ELSE x
  <2>1. CASE x = v
    BY <2>1, <1>1, PhiNames DEF TypeOK
  <2>2. CASE x # v
    <3>1. regs'[x] = regs[x]
      BY <2>2, <1>1 DEF TypeOK
    <3> QED BY <2>2, <3>1 DEF ToMove
  <2> QED BY <2>1, <2>2
<1>4. \A x \in Values : regs'[x] = IF pln_dst'[x] # NIL /\ x \notin L \ {v} THEN pln_dst'[x] ELSE x
  BY <1>3
<1>5. PICK M \in SUBSET L : M = L \ {v}
  OBVIOUS
<1> QED BY <1>2, <1>4, <1>5 DEF ToMove

LEMMA CycleStartCopy ==
  ASSUME CopyInv, CycleStart
  PROVE  CopyInv'
<1>1. /\ pc = "cycle" /\ pc' = "walk" /\ nodes.next[HEAD] # NIL
      /\ start' = nodes.next[HEAD] /\ cur' = start' /\ tmpreg' = regs[start']
      /\ UNCHANGED <<pln_dst, nodes, regs>>
  BY DEF CycleStart, Saved
<1>2. LiftInv' /\ TypeOK
  BY NextLift DEF Next, CopyInv, LiftInv
<1>3. ~NoCycle
  BY <1>1 DEF CopyInv
<1>4. ASSUME NoChain PROVE \E L \in SUBSET ReadAndWritten : WalkLeft(L)'
  <2>1. PICK L \in SUBSET ReadAndWritten : CyclesLeft(L)
    BY <1>1, <1>4 DEF CopyInv, CyclesOnly
  <2>2. ListOf(nodes, L) /\ \A v \in L : pln_dst[v] \in L
    BY <2>1 DEF CyclesLeft, ToMove
  <2>3. start' \in L
    BY <1>1, <2>2, ListFirst
  <2>4. start' \in Values /\ L \subseteq Values
    BY <2>1, <2>3 DEF ReadAndWritten
  <2>5. tmpreg' = start'
    BY <1>1, <2>1, <2>3, <2>4 DEF CyclesLeft, ToMove
  <2>6. ToMove(L)'
    BY <1>1, <2>1 DEF CyclesLeft, ToMove
  <2>7. start' \in ReadAndWritten'
    BY <1>1, <2>1, <2>3, SamePhis
  <2> QED BY <1>1, <2>1, <2>2, <2>3, <2>5, <2>6, <2>7 DEF WalkLeft
<1> QED BY <1>1, <1>2, <1>3, <1>4, SamePhis DEF CopyInv, CyclesOnly, Sound, ParallelCopy

LEMMA CyclesDoneCopy ==
  ASSUME CopyInv, CyclesDone
  PROVE  CopyInv'
<1>1. /\ pc = "cycle" /\ pc' = "done" /\ nodes.next[HEAD] = NIL
      /\ UNCHANGED <<pln_dst, nodes, regs>>
  BY DEF CyclesDone
<1>2. LiftInv' /\ TypeOK
  BY NextLift DEF Next, CopyInv, LiftInv
<1>3. ~NoCycle
  BY <1>1 DEF CopyInv
<1>4. ASSUME NoChain PROVE ParallelCopy'
  <2>1. PICK L \in SUBSET ReadAndWritten : CyclesLeft(L)
    BY <1>1, <1>4 DEF CopyInv, CyclesOnly
  <2>2. ListOf(nodes, L) /\ L \subseteq Values
    BY <2>1 DEF CyclesLeft, ToMove, ListOf
  <2>3. L = {}
    BY <1>1, <2>2, ListFirst, PhiNames
  <2> QED BY <1>1, <2>1, <2>3 DEF CyclesLeft, ToMove, ParallelCopy
<1> QED BY <1>1, <1>2, <1>3, <1>4, SamePhis DEF CopyInv, CyclesOnly, Sound

LEMMA WalkMoveCopy ==
  ASSUME CopyInv, WalkMove
  PROVE  CopyInv'
<1> DEFINE src == pln_dst[cur]
<1>1. pc = "walk" /\ src # start /\ UNCHANGED <<pln_dst, start, tmpreg>>
  BY DEF WalkMove
<1>2. LiftInv' /\ TypeOK /\ cur \in Values
  BY <1>1, NextLift DEF Next, CopyInv, LiftInv
<1>3. ~NoCycle
  BY <1>1 DEF CopyInv
<1>4. pc' \in {"walk", "crash"}
  BY <1>1 DEF WalkMove
<1>5. ASSUME NoChain
      PROVE  pc' = "walk" /\ \E L \in SUBSET ReadAndWritten : WalkLeft(L)'
  <2>1. PICK L \in SUBSET ReadAndWritten : WalkLeft(L)
    BY <1>1, <1>5 DEF CopyInv, CyclesOnly
  <2>2. cur \in L /\ src \in L /\ src # cur
    BY <1>1, <1>2, <2>1 DEF WalkLeft, CopyInv
  <2>3. L \subseteq Values
    BY <2>1 DEF ReadAndWritten
  <2>4. /\ pc' = "walk" /\ regs' = [regs EXCEPT ![cur] = regs[src]]
        /\ nodes' = LIST_REMOVE(nodes, cur) /\ cur' = src
    BY <1>1, <2>2, <2>3, PhiNames DEF WalkMove, InsertMove
  <2>5. regs[src] = src
    BY <2>1, <2>2, <2>3 DEF WalkLeft, ToMove
  <2>6. PICK M \in SUBSET L : M = L \ {cur} /\ ToMove(M)'
    <3>1. regs' = [regs EXCEPT ![cur] = src]
      BY <2>4, <2>5
    <3>2. ToMove(L) /\ src \in Values
      BY <2>1, <2>2, <2>3 DEF WalkLeft
    <3>3. PICK v \in L : v = cur
      BY <2>2
    <3>4. PICK w : w = pln_dst[v]
      OBVIOUS
    <3>5. regs' = [regs EXCEPT ![v] = w] /\ nodes' = LIST_REMOVE(nodes, v)
      BY <3>1, <3>3, <3>4, <2>4
    <3>6. \E M \in SUBSET L : M = L \ {v} /\ ToMove(M)'
      BY <3>2, <3>3, <3>4, <3>5, <1>1, <1>2, MoveOne
    <3> QED BY <3>3, <3>6
  <2>7. start \notin M /\ start \in ReadAndWritten /\ tmpreg = start
    BY <2>1, <2>6 DEF WalkLeft
  <2>8. \A v \in M : pln_dst[v] \in M \cup {start}
    BY <2>1, <2>6 DEF WalkLeft
  <2>9. \A v \in M : pln_dst[v] # src
    BY <1>5, <2>1, <2>2, <2>6, OneReader
  <2>10. ReadAndWritten' = ReadAndWritten
    BY <1>1, SamePhis
  <2>11. src \in M
    BY <2>2, <2>6
  <2>12. WalkLeft(M)'
    BY <1>1, <2>4, <2>6, <2>7, <2>8, <2>9, <2>10, <2>11 DEF WalkLeft
  <2>13. M \in SUBSET ReadAndWritten
    BY <2>1, <2>6
  <2> QED BY <2>4, <2>12, <2>13
<1>6. ReadAndWritten' = ReadAndWritten /\ NoChain' = NoChain /\ NoCycle' = NoCycle
      /\ \A v \in Values : pln_dst'[v] # v
  BY <1>1, SamePhis DEF CopyInv
<1> QED BY <1>2, <1>3, <1>4, <1>5, <1>6 DEF CopyInv, CyclesOnly, Sound, ParallelCopy

LEMMA WalkCloseCopy ==
  ASSUME CopyInv, WalkClose
  PROVE  CopyInv'
<1>1. /\ pc = "walk" /\ pc' = "cycle" /\ pln_dst[cur] = start
      /\ UNCHANGED <<pln_dst, start, cur, tmpreg>>
      /\ regs' = [regs EXCEPT ![cur] = tmpreg]
      /\ nodes' = LIST_REMOVE(nodes, cur)
  BY DEF WalkClose, InsertMove, Closing
<1>2. LiftInv' /\ TypeOK /\ cur \in Values /\ start \in Values
  BY <1>1, NextLift DEF Next, CopyInv, LiftInv
<1>3. ~NoCycle
  BY <1>1 DEF CopyInv
<1>4. ASSUME NoChain PROVE \E L \in SUBSET ReadAndWritten : CyclesLeft(L)'
  <2>1. PICK L \in SUBSET ReadAndWritten : WalkLeft(L)
    BY <1>1, <1>4 DEF CopyInv, CyclesOnly
  <2>2. cur \in L /\ cur # start /\ start \notin L /\ tmpreg = start /\ ToMove(L)
    BY <1>1, <1>2, <2>1 DEF WalkLeft, CopyInv
  <2>3. PICK M \in SUBSET L : M = L \ {cur} /\ ToMove(M)'
    <3>1. PICK v \in L : v = cur
      BY <2>2
    <3>2. PICK w : w = pln_dst[v]
      OBVIOUS
    <3>3. regs' = [regs EXCEPT ![v] = w] /\ nodes' = LIST_REMOVE(nodes, v) /\ w \in Values
      BY <3>1, <3>2, <1>1, <1>2, <2>2
    <3>4. \E M \in SUBSET L : M = L \ {v} /\ ToMove(M)'
      BY <3>1, <3>2, <3>3, <1>1, <1>2, <2>2, MoveOne
    <3> QED BY <3>1, <3>4
  <2>4. \A v \in M : pln_dst[v] \in M
    <3>1. \A v \in M : pln_dst[v] # start
      BY <1>1, <1>4, <2>1, <2>2, <2>3, OneReader
    <3> QED BY <3>1, <2>1, <2>2, <2>3 DEF WalkLeft
  <2>5. M \in SUBSET ReadAndWritten
    BY <2>1, <2>3
  <2>6. CyclesLeft(M)'
    BY <1>1, <2>3, <2>4 DEF CyclesLeft
  <2> QED BY <2>5, <2>6
<1> QED BY <1>1, <1>2, <1>3, <1>4, SamePhis DEF CopyInv, CyclesOnly, Sound, ParallelCopy

LEMMA NextCopy == CopyInv /\ [Next]_vars => CopyInv'
<1> SUFFICES ASSUME CopyInv, [Next]_vars PROVE CopyInv'
  OBVIOUS
<1>1. ASSUME NEW dst \in Values, NEW src \in Values, Collect(dst, src) PROVE CopyInv'
  BY <1>1, CollectCopy
<1>2. CASE CollectDone
  BY <1>2, CollectDoneCopy
<1>3. CASE LiftSkip
  BY <1>3, LiftSkipCopy
<1>4. CASE LiftMove
  BY <1>4, LiftMoveCopy
<1>5. CASE LiftPassDone
  BY <1>5, LiftPassDoneCopy
<1>6. CASE CycleStart
  BY <1>6, CycleStartCopy
<1>7. CASE CyclesDone
  BY <1>7, CyclesDoneCopy
<1>8. CASE WalkMove
  BY <1>8, WalkMoveCopy
<1>9. CASE WalkClose
  BY <1>9, WalkCloseCopy
<1>10. CASE UNCHANGED vars
  <2>1. LiftInv'
    BY <1>10, NextLift DEF CopyInv
  <2>2. UNCHANGED <<pc, pln_dst, edges, nodes, pass, progress, start, cur, regs, tmpreg>>
    BY <1>10 DEF vars
  <2>3. (pc = "collect" => ListOf(nodes, {v \in Values : Known(v)}))'
    BY <2>2 DEF CopyInv, Known
  <2>4. (pc = "lift" => PassComplete)'
    <3>1. Pending' = Pending /\ \A d : Blocked(d)' <=> Blocked(d)
      BY <2>2 DEF Pending, Blocked, IsSource
    <3>2. PassComplete' <=> PassComplete
      BY <2>2, <3>1 DEF PassComplete
    <3> QED BY <2>2, <3>2 DEF CopyInv
  <2>5. CyclesOnly' <=> CyclesOnly
    BY <2>2, SamePhis DEF CyclesOnly, Live, Pending, CyclesLeft, WalkLeft, ToMove
  <2>6. Sound' <=> Sound
    BY <2>2 DEF Sound, ParallelCopy
  <2> QED BY <2>1, <2>2, <2>3, <2>4, <2>5, <2>6, SamePhis DEF CopyInv
<1> QED BY <1>1, <1>2, <1>3, <1>4, <1>5, <1>6, <1>7, <1>8, <1>9, <1>10 DEF Next

-----------------------------------------------------------------------------
(* However many PHI entries there are and in whatever order, the moves     *)
(* exit_ssa_edge emits have the effect of one parallel assignment, and it  *)
(* never reads through NULL, unless the entries have both a cycle and a    *)
(* chain: only then can the double LIST_REMOVE lead the second loop to a   *)
(* retired node.                                                           *)
THEOREM PhiLiftParallelCopy ==
  Spec => [](NoCycle \/ NoChain => ParallelCopy /\ pc # "crash")
<1>1. CopyInv => (NoCycle \/ NoChain => ParallelCopy /\ pc # "crash")
  BY DEF CopyInv, Sound
<1>2. Spec => []CopyInv
  BY InitCopy, NextCopy, PTL DEF Spec
<1> QED BY <1>1, <1>2, PTL
=============================================================================
