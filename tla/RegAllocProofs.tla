--------------------------- MODULE RegAllocProofs ---------------------------
(***************************************************************************)
(* Proofs about RegAlloc, for every function and every width of the colour *)
(* table's words.  However many values coalesce merges, the edge counts    *)
(* stay right, the colour table has room and the colouring is proper; the  *)
(* rounds of liveness_update end with exactly what is live; and when the   *)
(* function is executed every instruction and every callee reads what the  *)
(* program says is there.                                                  *)
(*                                                                         *)
(* The last rests on a description of the compiled function in terms of    *)
(* three constants that no variable holds: the code that prepare_calls     *)
(* laid out, where the block of each instruction starts in it, and which   *)
(* value stands for each value after the merges of coalesce.               *)
(***************************************************************************)
EXTENDS RegAlloc, SeqLemmas, FiniteSetTheorems, TLAPS

(* The function handed over by the passes before. *)
ProgOK == prog.instrs \in Seq(ProgInstrs) /\ Len(prog.instrs) = NumInstrs

(* A move has a source. *)
MovesOK == \A i \in 1..Len(instrs) : instrs[i].class = "move" => instrs[i].uses # <<>>

CodeOK == instrs \in Seq(Instrs) /\ MovesOK

GraphOK == \A e \in mtx : \E x, y \in Values : x # y /\ e = {x, y}

Counted == \A v \in Values : iv_edges[v] = Cardinality(Neighbours(v))

EdgesOK ==
  /\ iv_edges \in [Values -> Nat]
  /\ phase \in {"coalesce", "color"} => Counted

Uncolored == \A v \in Values : colors[v] = -1

ColorsOK ==
  /\ colors \in [Values -> Int]
  /\ phase \in {"prepare", "liveness", "interference", "coalesce"} => Uncolored
  /\ phase = "color" => vi \subseteq Vertices

AllocInv == ProgOK /\ CodeOK /\ GraphOK /\ EdgesOK /\ ColorsOK /\ ProperColoring /\ ColorFound

-----------------------------------------------------------------------------
(* Values and their neighbours are finite sets. *)
LEMMA ValuesFinite == IsFiniteSet(Values) /\ Temps \subseteq Values /\ Values \subseteq Nat
  <1>1. NumTemps + 2 * MaxArgs \in Nat /\ NumTemps \in Nat /\ NumTemps <= NumTemps + 2 * MaxArgs
    BY RegAllocAssumption
  <1>2. IsFiniteSet(1..(NumTemps + 2 * MaxArgs)) BY <1>1, FS_Interval
  <1>3. QED BY <1>1, <1>2 DEF Values, Temps

LEMMA NeighboursFinite ==
  ASSUME NEW v
  PROVE  IsFiniteSet(Neighbours(v)) /\ Neighbours(v) \subseteq Values
         /\ Cardinality(Neighbours(v)) \in Nat
  <1>1. Neighbours(v) \subseteq Values BY DEF Neighbours
  <1>2. QED BY <1>1, ValuesFinite, FS_Subset, FS_CardinalityType

(* The words of the colour table have a bit more than graph_degree. *)
LEMMA ColorTableSize ==
  ASSUME NEW d \in Nat
  PROVE  /\ IsFiniteSet(ColorTable(d))
         /\ Cardinality(ColorTable(d)) > d
         /\ ColorTable(d) \subseteq Nat
  <1> DEFINE q == (d + WordBits) \div WordBits
             n == WordBits * q
  <1>1. WordBits \in Nat /\ WordBits > 0 BY RegAllocAssumption
  <1>2. q \in Nat /\ WordBits * q <= d + WordBits /\ d + WordBits < WordBits * q + WordBits
    BY <1>1
  <1>3. n \in Nat /\ n > d BY <1>1, <1>2
  <1> HIDE DEF n
  <1>4. ColorTable(d) = 0..(n - 1) BY DEF ColorTable, n
  <1>5. IsFiniteSet(0..(n-1)) /\ Cardinality(0..(n-1)) = IF 0 <= n - 1 THEN (n - 1) - 0 + 1 ELSE 0
    BY <1>3, FS_Interval, n - 1 \in Int
  <1>6. QED BY <1>3, <1>4, <1>5

-----------------------------------------------------------------------------
(* Merging two values that do not interfere. *)
LEMMA PairEq ==
  ASSUME NEW a, NEW b, NEW c, NEW d
  PROVE  {a, b} = {c, d} <=> ((a = c /\ b = d) \/ (a = d /\ b = c))
  OBVIOUS

LEMMA NoSelfLoop ==
  ASSUME GraphOK, NEW v
  PROVE  {v, v} \notin mtx
  <1>1. SUFFICES ASSUME {v, v} \in mtx PROVE FALSE OBVIOUS
  <1>2. PICK x, y \in Values : x # y /\ {v, v} = {x, y} BY <1>1 DEF GraphOK
  <1>3. QED BY <1>2, PairEq

LEMMA MergedPair ==
  ASSUME NEW killed \in Values, NEW saved \in Values, killed # saved, {killed, saved} \notin mtx,
         GraphOK, mtx' = Merged(killed, saved), NEW v \in Values, NEW w \in Values
  PROVE  {v, w} \in mtx' <=>
           \/ v # killed /\ w # killed /\ {v, w} \in mtx
           \/ v = saved /\ w \in Neighbours(killed)
           \/ w = saved /\ v \in Neighbours(killed)
  <1>1. killed \in {v, w} <=> (v = killed \/ w = killed) OBVIOUS
  <1>2. {v, w} \in {e \in mtx : killed \notin e} <=> v # killed /\ w # killed /\ {v, w} \in mtx
    BY <1>1
  <1>3. {v, w} \in {{saved, u} : u \in Neighbours(killed)}
          <=> (v = saved /\ w \in Neighbours(killed)) \/ (w = saved /\ v \in Neighbours(killed))
    BY PairEq
  <1>4. QED BY <1>2, <1>3 DEF Merged

LEMMA MergeCounts ==
  ASSUME NEW killed \in Values, NEW saved \in Values, killed # saved, {killed, saved} \notin mtx,
         GraphOK, Counted, iv_edges \in [Values -> Nat],
         mtx' = Merged(killed, saved), iv_edges' = EdgesMerged(killed, saved)
  PROVE  GraphOK' /\ Counted' /\ iv_edges' \in [Values -> Nat]
  <1> DEFINE K == Neighbours(killed)
             S == Neighbours(saved)
  <1>0. killed \notin K /\ saved \notin K /\ killed \notin S
    BY NoSelfLoop, {killed, saved} = {saved, killed} DEF Neighbours
  <1>f. IsFiniteSet(K) /\ IsFiniteSet(S) /\ K \subseteq Values /\ S \subseteq Values
    BY NeighboursFinite
  <1>1. GraphOK'
    <2>1. SUFFICES ASSUME NEW e \in mtx' PROVE \E x, y \in Values : x # y /\ e = {x, y}
      BY DEF GraphOK
    <2>2. CASE e \in mtx BY <2>2 DEF GraphOK
    <2>3. CASE e \in {{saved, u} : u \in K} BY <2>3, <1>0, <1>f
    <2>4. QED BY <2>1, <2>2, <2>3 DEF Merged
  <1>2. ASSUME NEW v \in Values
        PROVE  iv_edges'[v] = Cardinality(Neighbours(v)') /\ iv_edges'[v] \in Nat
    <2>0. Neighbours(v)' = {w \in Values : {v, w} \in mtx'} BY DEF Neighbours
    <2>n. iv_edges[v] = Cardinality(Neighbours(v)) /\ IsFiniteSet(Neighbours(v))
          /\ Cardinality(Neighbours(v)) \in Nat
      BY NeighboursFinite DEF Counted
    <2>1. CASE v = killed
      <3>1. Neighbours(v)' = {} BY <2>0, <2>1, <1>0, MergedPair
      <3>2. iv_edges'[v] = 0 BY <2>1 DEF EdgesMerged
      <3>3. QED BY <3>1, <3>2, FS_EmptySet
    <2>2. CASE v = saved
      <3>1. ASSUME NEW w \in Values PROVE {v, w} \in mtx' <=> w \in S \cup (K \ S)
        <4>1. {v, w} \in mtx' <=>
                \/ v # killed /\ w # killed /\ {v, w} \in mtx
                \/ v = saved /\ w \in K
                \/ w = saved /\ v \in K
            BY MergedPair
        <4>2. {v, w} \in mtx <=> w \in Neighbours(v) BY DEF Neighbours
        <4>3. w = killed => w \notin S BY <1>0
        <4> HIDE DEF K, S
        <4>4. QED BY <4>1, <4>2, <4>3, <2>2, <1>0 DEF S
      <3>2. Neighbours(v)' = S \cup (K \ S) BY <3>1, <2>0, <1>f
      <3>3. iv_edges'[v] = iv_edges[v] + Cardinality(K \ S) BY <2>2 DEF EdgesMerged
      <3>4. IsFiniteSet(K \ S) /\ Cardinality(K \ S) \in Nat BY <1>f, FS_Difference, FS_CardinalityType
      <3>5. S \cap (K \ S) = {} OBVIOUS
      <3>6. Cardinality(S \cup (K \ S)) = Cardinality(S) + Cardinality(K \ S) - Cardinality({})
        BY <3>4, <3>5, <1>f, FS_Union
      <3>7. QED BY <3>2, <3>3, <3>4, <3>6, <2>n, <2>2, FS_EmptySet
    <2>3. CASE v # killed /\ v # saved /\ v \in K /\ v \in S
      <3>1. ASSUME NEW w \in Values PROVE {v, w} \in mtx' <=> w \in Neighbours(v) \ {killed}
        <4>1. {v, w} \in mtx' <=>
                \/ v # killed /\ w # killed /\ {v, w} \in mtx
                \/ v = saved /\ w \in K
                \/ w = saved /\ v \in K
            BY MergedPair
        <4>2. {v, w} \in mtx <=> w \in Neighbours(v) BY DEF Neighbours
        <4>3. saved \in Neighbours(v) BY <2>3, {v, saved} = {saved, v} DEF Neighbours
        <4> HIDE DEF K, S
        <4>4. QED BY <4>1, <4>2, <4>3, <2>3
      <3>2. Neighbours(v)' = Neighbours(v) \ {killed} BY <3>1, <2>0 DEF Neighbours
      <3>3. killed \in Neighbours(v) BY <2>3, {v, killed} = {killed, v} DEF Neighbours
      <3>4. iv_edges'[v] = iv_edges[v] - 1 BY <2>3 DEF EdgesMerged
      <3>5. IsFiniteSet(Neighbours(v) \ {killed})
            /\ Cardinality(Neighbours(v) \ {killed}) = Cardinality(Neighbours(v)) - 1
        BY <3>3, <2>n, FS_RemoveElement
      <3>6. Cardinality(Neighbours(v) \ {killed}) \in Nat BY <3>5, FS_CardinalityType
      <3>7. QED BY <3>2, <3>4, <3>5, <3>6, <2>n
    <2>4. CASE v # killed /\ v # saved /\ v \in K /\ v \notin S
      <3> DEFINE M == Neighbours(v) \ {killed}
      <3>1. ASSUME NEW w \in Values PROVE {v, w} \in mtx' <=> w \in M \cup {saved}
        <4>1. {v, w} \in mtx' <=>
                \/ v # killed /\ w # killed /\ {v, w} \in mtx
                \/ v = saved /\ w \in K
                \/ w = saved /\ v \in K
            BY MergedPair
        <4>2. {v, w} \in mtx <=> w \in Neighbours(v) BY DEF Neighbours
        <4> HIDE DEF K, S
        <4>3. QED BY <4>1, <4>2, <2>4
      <3>2. Neighbours(v)' = M \cup {saved} BY <3>1, <2>0 DEF Neighbours
      <3>3. killed \in Neighbours(v) BY <2>4, {v, killed} = {killed, v} DEF Neighbours
      <3>4. saved \notin M BY <2>4, {v, saved} = {saved, v} DEF Neighbours
      <3>5. iv_edges'[v] = iv_edges[v] BY <2>4 DEF EdgesMerged
      <3>6. IsFiniteSet(M) /\ Cardinality(M) = Cardinality(Neighbours(v)) - 1
        BY <3>3, <2>n, FS_RemoveElement
      <3>7. Cardinality(M \cup {saved}) = Cardinality(M) + 1 BY <3>4, <3>6, FS_AddElement
      <3>8. QED BY <3>2, <3>5, <3>6, <3>7, <2>n
    <2>5. CASE v # killed /\ v # saved /\ v \notin K
      <3>1. killed \notin Neighbours(v) BY <2>5, {v, killed} = {killed, v} DEF Neighbours
      <3>2. ASSUME NEW w \in Values PROVE {v, w} \in mtx' <=> w \in Neighbours(v)
        BY <3>1, <2>5, MergedPair DEF Neighbours
      <3>3. Neighbours(v)' = Neighbours(v) BY <3>2, <2>0 DEF Neighbours
      <3>4. iv_edges'[v] = iv_edges[v] BY <2>5 DEF EdgesMerged
      <3>5. QED BY <3>3, <3>4, <2>n
    <2>6. QED BY <2>1, <2>2, <2>3, <2>4, <2>5
  <1>3. iv_edges' = [v \in Values |-> iv_edges'[v]] BY DEF EdgesMerged
  <1>4. QED BY <1>1, <1>2, <1>3 DEF Counted

-----------------------------------------------------------------------------
(* A value has fewer neighbours than there are colours. *)
LEMMA ColorLeft ==
  ASSUME NEW v \in Values, NEW d \in Nat, Cardinality(Neighbours(v)) <= d
  PROVE  ~(ColorTable(d) \subseteq Taken(v))
  <1>1. SUFFICES ASSUME ColorTable(d) \subseteq Taken(v) PROVE FALSE OBVIOUS
  <1> DEFINE T == ColorTable(d)
             N == Neighbours(v)
             f == [c \in T |-> CHOOSE w \in N : colors[w] = c]
  <1>2. ASSUME NEW c \in T PROVE f[c] \in N /\ colors[f[c]] = c
    <2>1. \E w \in N : colors[w] = c BY <1>1 DEF Taken
    <2>2. QED BY <2>1
  <1>3. f \in [T -> N] BY <1>2
  <1>4. IsFiniteSet(T) /\ IsFiniteSet(N) /\ Cardinality(N) < Cardinality(T)
    <2>1. IsFiniteSet(T) /\ Cardinality(T) > d /\ Cardinality(T) \in Nat
      BY ColorTableSize, FS_CardinalityType
    <2>2. IsFiniteSet(N) /\ Cardinality(N) \in Nat BY NeighboursFinite
    <2>3. QED BY <2>1, <2>2
  <1> HIDE DEF f, T, N
  <1>5. PICK x, y \in T : x # y /\ f[x] = f[y] BY <1>3, <1>4, FS_PigeonHole
  <1>6. QED BY <1>2, <1>5

-----------------------------------------------------------------------------
(* What prepare_calls adds is well formed. *)
LEMMA SlotsBound ==
  ASSUME NEW args \in Seq(Temps), NEW k \in 1..(Len(args) + 1)
  PROVE  SlotsBefore(args, k) \in (k - 1)..(2 * (k - 1))
  <1> DEFINE W == {j \in 1..(k-1) : value_regframe_slots(args[j]) = 2}
  <1>0. k - 1 \in Nat OBVIOUS
  <1>a. 1 \in Int /\ k - 1 \in Int BY <1>0
  <1>b. IsFiniteSet(1..(k-1)) /\ Cardinality(1..(k-1)) = IF 1 > k - 1 THEN 0 ELSE (k - 1) - 1 + 1
    BY <1>a, FS_Interval
  <1>1. IsFiniteSet(1..(k-1)) /\ Cardinality(1..(k-1)) = k - 1 BY <1>0, <1>b
  <1>2. W \in SUBSET (1..(k-1)) OBVIOUS
  <1> HIDE DEF W
  <1>3. Cardinality(W) \in Nat /\ Cardinality(W) <= k - 1
    BY <1>1, <1>2, FS_Subset, FS_CardinalityType
  <1>4. SlotsBefore(args, k) = k - 1 + Cardinality(W) BY DEF SlotsBefore, W
  <1>5. QED BY <1>0, <1>3, <1>4

LEMMA TempsInValues ==
  ASSUME NEW s \in Seq(Temps)
  PROVE  s \in Seq(Values)
  <1>1. Len(s) \in Nat /\ s = [j \in 1..Len(s) |-> s[j]] /\ \A j \in 1..Len(s) : s[j] \in Temps
    OBVIOUS
  <1>2. Temps \subseteq Values BY ValuesFinite
  <1>3. \A j \in 1..Len(s) : s[j] \in Values BY <1>1, <1>2
  <1>4. QED BY <1>1, <1>3

(* What an instruction of the function can be. *)
LEMMA ProgInstrFacts ==
  ASSUME NEW c \in ProgInstrs
  PROVE  /\ c.class \in {"op", "move", "call", "br"} /\ c.ret \in 0..NumTemps /\ c.uses \in Seq(Temps)
         /\ c.class = "move" => c.ret \in Temps /\ Len(c.uses) = 1
         /\ c.class = "br" => c.to \in 1..NumInstrs /\ c.ret = 0
         /\ c.class = "call" => c.to \in {0, 1} /\ Len(c.uses) - c.to \in 0..MaxArgs
  <1>1. CASE c \in [class : {"op"}, ret : 0..NumTemps, uses : Seq(Temps), to : {0}]
    BY <1>1
  <1>2. CASE c \in [class : {"br"}, ret : {0}, uses : Seq(Temps), to : 1..NumInstrs]
    BY <1>2, RegAllocAssumption
  <1>3. CASE c \in {Move(v, u) : v, u \in Temps}
    <2>1. PICK v, u \in Temps : c = Move(v, u) BY <1>3
    <2>2. c.class = "move" /\ c.ret = v /\ c.uses = <<u>> BY <2>1 DEF Move
    <2>3. <<u>> \in Seq(Temps) /\ Len(<<u>>) = 1 OBVIOUS
    <2>4. v \in 0..NumTemps BY RegAllocAssumption DEF Temps
    <2>5. QED BY <2>2, <2>3, <2>4
  <1>4. CASE c \in {d \in [class : {"call"}, ret : 0..NumTemps, uses : Seq(Temps), to : {0, 1}] :
                    Len(d.uses) - d.to \in 0..MaxArgs}
    BY <1>4
  <1>5. QED BY <1>1, <1>2, <1>3, <1>4 DEF ProgInstrs

LEMMA ArgsTyped ==
  ASSUME ProgOK, NEW i \in 1..NumInstrs, prog.instrs[i].class = "call"
  PROVE  /\ Args(i) \in Seq(Temps) /\ Len(Args(i)) \in 0..MaxArgs
         /\ SubSeq(prog.instrs[i].uses, Len(Args(i)) + 1, Len(prog.instrs[i].uses)) \in Seq(Temps)
         /\ prog.instrs[i].ret \in 0..NumTemps
  <1> DEFINE c == prog.instrs[i]
  <1>1. c \in ProgInstrs BY DEF ProgOK
  <1>2. c.ret \in 0..NumTemps /\ c.uses \in Seq(Temps) /\ c.to \in {0, 1}
        /\ Len(c.uses) - c.to \in 0..MaxArgs
    BY <1>1, ProgInstrFacts
  <1>3. c.uses \in Seq(Temps) /\ c.to \in {0, 1} /\ Len(c.uses) \in Nat BY <1>2
  <1>4. Args(i) = SubSeq(c.uses, 1, Len(c.uses) - c.to) BY DEF Args
  <1>5. Len(c.uses) - c.to \in 0..Len(c.uses) BY <1>2, <1>3
  <1> HIDE DEF c
  <1>6. Args(i) \in Seq(Temps) /\ Len(Args(i)) = Len(c.uses) - c.to
    BY <1>3, <1>4, <1>5
  <1>7. SubSeq(c.uses, Len(Args(i)) + 1, Len(c.uses)) \in Seq(Temps)
    BY <1>3, <1>5, <1>6
  <1>8. c.ret \in 0..NumTemps BY <1>2
  <1>9. QED BY <1>2, <1>6, <1>7, <1>8 DEF c

LEMMA ArgValueTyped ==
  ASSUME NEW args \in Seq(Temps), Len(args) <= MaxArgs, NEW k \in 1..Len(args)
  PROVE  ArgValue(args, k) \in Values /\ ArgValue(args, k) + 1 \in Values
  <1>1. SlotsBefore(args, k) \in (k - 1)..(2 * (k - 1)) BY SlotsBound
  <1>2. NumTemps \in Nat /\ MaxArgs \in Nat /\ Len(args) \in Nat BY RegAllocAssumption
  <1>3. QED BY <1>1, <1>2 DEF ArgValue, call_arg_base, Values

LEMMA RetTyped ==
  ASSUME NEW r \in 0..NumTemps
  PROVE  (IF r = 0 THEN <<>> ELSE <<r>>) \in Seq(Values)
  <1>1. r # 0 => r \in Values
    BY RegAllocAssumption, ValuesFinite DEF Temps
  <1>2. QED BY <1>1

LEMMA PreparedTyped ==
  ASSUME ProgOK, NEW i \in 1..NumInstrs, prog.instrs[i].class = "call"
  PROVE  /\ prepare_call(i) \in Seq(Instrs)
         /\ \A k \in 1..Len(prepare_call(i)) :
              prepare_call(i)[k].class = "move" => prepare_call(i)[k].uses # <<>>
  <1> DEFINE args == Args(i)
             callee == SubSeq(prog.instrs[i].uses, Len(args) + 1, Len(prog.instrs[i].uses))
             ret == IF prog.instrs[i].ret = 0 THEN <<>> ELSE <<prog.instrs[i].ret>>
             slots == [k \in 1..Len(args) |-> ArgValue(args, k)]
             moves == [k \in 1..Len(args) |-> ArgMove(i, k)]
             last == Instr("call", ret, slots \o callee, callee, i)
  <1>1. args \in Seq(Temps) /\ Len(args) \in 0..MaxArgs /\ callee \in Seq(Temps)
        /\ prog.instrs[i].ret \in 0..NumTemps
    BY ArgsTyped
  <1>2. ret \in Seq(Values) BY <1>1, RetTyped
  <1> HIDE DEF args, callee, ret
  <1>3. \A k \in 1..Len(args) : ArgValue(args, k) \in Values /\ ArgValue(args, k) + 1 \in Values
    BY <1>1, ArgValueTyped, RegAllocAssumption
  <1>4. slots \in Seq(Values) BY <1>1, <1>3
  <1>5. callee \in Seq(Values) BY <1>1, TempsInValues
  <1> HIDE DEF slots
  <1>6. last \in Instrs
    <2>1. slots \o callee \in Seq(Values) BY <1>4, <1>5
    <2>2. QED BY <2>1, <1>1, <1>2 DEF Instr, Instrs
  <1>7. ASSUME NEW k \in 1..Len(args) PROVE moves[k] \in Instrs /\ moves[k].uses # <<>>
    <2> DEFINE arg == ArgValue(args, k)
               v == args[k]
               rets == IF value_regframe_slots(v) = 2 THEN <<arg + 1, arg>> ELSE <<arg>>
    <2>a. Temps \subseteq Values BY ValuesFinite
    <2>b. args[k] \in Temps BY <1>1
    <2>1. v \in Temps /\ v \in Values BY <2>a, <2>b
    <2>2. arg \in Values /\ arg + 1 \in Values BY <1>3
    <2> HIDE DEF arg, v
    <2>3. rets \in Seq(Values) BY <2>2
    <2>4. <<v>> \in Seq(Values) /\ <<v>> \in Seq(Temps) /\ <<v>> # <<>> BY <2>1
    <2>5. moves[k] = Instr("move", rets, <<v>>, <<v>>, i) BY DEF ArgMove, arg, v, args
    <2> HIDE DEF rets, moves
    <2>6. QED BY <2>3, <2>4, <2>5 DEF Instr, Instrs
  <1> HIDE DEF last
  <1>8. moves \in Seq(Instrs) /\ Len(moves) = Len(args) BY <1>1, <1>7
  <1>9. prepare_call(i) = moves \o <<last>>
    BY DEF prepare_call, last, slots, callee, ret, args
  <1> HIDE DEF moves
  <1>10. prepare_call(i) \in Seq(Instrs) BY <1>6, <1>8, <1>9
  <1>11. ASSUME NEW k \in 1..Len(prepare_call(i)), prepare_call(i)[k].class = "move"
         PROVE  prepare_call(i)[k].uses # <<>>
    <2>1. Len(prepare_call(i)) = Len(args) + 1 BY <1>1, <1>6, <1>8, <1>9
    <2>2. CASE k \in 1..Len(args) BY <2>2, <1>6, <1>7, <1>8, <1>9
    <2>3. CASE k = Len(args) + 1
      <3>1. prepare_call(i)[k] = last BY <2>3, <1>1, <1>6, <1>8, <1>9
      <3>2. last.class = "call" BY DEF last, Instr
      <3>3. QED BY <3>1, <3>2, <1>11
    <2>4. QED BY <2>1, <2>2, <2>3, <1>1
  <1>12. QED BY <1>10, <1>11

LEMMA BindTyped ==
  ASSUME ProgOK, NEW i \in 1..NumInstrs, prog.instrs[i].class # "call"
  PROVE  /\ Bind(i) \in Seq(Instrs) /\ Len(Bind(i)) = 1
         /\ Bind(i)[1].class = "move" => Bind(i)[1].uses # <<>>
  <1> DEFINE c == prog.instrs[i]
             ret == IF c.ret = 0 THEN <<>> ELSE <<c.ret>>
  <1>1. c \in ProgInstrs BY DEF ProgOK
  <1>2. /\ c.class \in {"op", "move", "br"} /\ c.ret \in 0..NumTemps /\ c.uses \in Seq(Temps)
        /\ c.class = "move" => c.uses # <<>>
    <2>1. Len(<<>>) # 1 OBVIOUS
    <2>2. QED BY <1>1, <2>1, ProgInstrFacts
  <1>3. c.uses \in Seq(Values) BY <1>2, TempsInValues
  <1>4. ret \in Seq(Values) BY <1>2, RetTyped
  <1>5. Bind(i) = <<Instr(c.class, ret, c.uses, c.uses, i)>> BY DEF Bind
  <1> HIDE DEF c, ret
  <1>6. Instr(c.class, ret, c.uses, c.uses, i) \in Instrs BY <1>2, <1>3, <1>4 DEF Instr, Instrs
  <1>7. QED BY <1>2, <1>5, <1>6 DEF Instr

-----------------------------------------------------------------------------
(* Code with one more sequence of instructions, and with values replaced. *)
LEMMA CodeExtended ==
  ASSUME CodeOK, NEW more \in Seq(Instrs),
         \A k \in 1..Len(more) : more[k].class = "move" => more[k].uses # <<>>,
         instrs' = instrs \o more
  PROVE  CodeOK'
  <1>1. instrs \in Seq(Instrs) /\ MovesOK BY DEF CodeOK
  <1>2. instrs' \in Seq(Instrs) /\ Len(instrs') = Len(instrs) + Len(more) BY <1>1
  <1>3. ASSUME NEW j \in 1..Len(instrs'), instrs'[j].class = "move"
        PROVE  instrs'[j].uses # <<>>
    <2>1. CASE j \in 1..Len(instrs)
      <3>1. instrs'[j] = instrs[j] BY <2>1, <1>1
      <3>2. QED BY <3>1, <2>1, <1>1, <1>3 DEF MovesOK
    <2>2. CASE j \notin 1..Len(instrs)
      <3>1. j - Len(instrs) \in 1..Len(more) /\ instrs'[j] = more[j - Len(instrs)]
        BY <2>2, <1>1, <1>2
      <3>2. QED BY <3>1, <1>3
    <2>3. QED BY <2>1, <2>2
  <1>4. QED BY <1>2, <1>3 DEF CodeOK, MovesOK

LEMMA InstrTyped ==
  ASSUME CodeOK, NEW j \in 1..Len(instrs)
  PROVE  /\ instrs[j] \in Instrs
         /\ instrs[j].class \in {"op", "move", "call", "br", "destroyed"}
         /\ instrs[j].rets \in Seq(Values) /\ instrs[j].uses \in Seq(Values)
         /\ instrs[j].of \in Seq(Temps) /\ instrs[j].at \in 1..NumInstrs
         /\ instrs[j].class = "move" => instrs[j].uses # <<>>
  <1>1. instrs[j] \in Instrs BY DEF CodeOK
  <1>2. QED BY <1>1 DEF Instrs, CodeOK, MovesOK

LEMMA ReplacedTyped ==
  ASSUME NEW s \in Seq(Values), NEW from \in Values, NEW to \in Values
  PROVE  Replaced(s, from, to) \in Seq(Values) /\ (s # <<>> => Replaced(s, from, to) # <<>>)
  <1>1. Len(s) \in Nat /\ \A k \in 1..Len(s) : s[k] \in Values OBVIOUS
  <1>2. Replaced(s, from, to) \in Seq(Values) /\ Len(Replaced(s, from, to)) = Len(s)
    BY <1>1 DEF Replaced
  <1>3. QED BY <1>2

LEMMA DestroyedTyped ==
  ASSUME CodeOK, NEW j \in 1..Len(instrs)
  PROVE  Destroyed(instrs[j]) \in Instrs /\ Destroyed(instrs[j]).class = "destroyed"
  BY InstrTyped DEF Destroyed, Instr, Instrs

LEMMA InstrReplacedTyped ==
  ASSUME CodeOK, NEW j \in 1..Len(instrs), NEW from \in Values, NEW to \in Values
  PROVE  /\ instr_replace_values(instrs[j], from, to) \in Instrs
         /\ instr_replace_values(instrs[j], from, to).class = "move"
              => instr_replace_values(instrs[j], from, to).uses # <<>>
  <1> DEFINE ii == instrs[j]
             rets == Replaced(ii.rets, from, to)
             uses == Replaced(ii.uses, from, to)
  <1>1. rets \in Seq(Values) /\ uses \in Seq(Values) /\ (ii.uses # <<>> => uses # <<>>)
    BY InstrTyped, ReplacedTyped
  <1>2. instr_replace_values(ii, from, to) = Instr(ii.class, rets, uses, ii.of, ii.at)
    BY DEF instr_replace_values
  <1>3. ii.class \in {"op", "move", "call", "br", "destroyed"} /\ ii.of \in Seq(Temps)
        /\ ii.at \in 1..NumInstrs /\ (ii.class = "move" => ii.uses # <<>>)
    BY InstrTyped
  <1> HIDE DEF rets, uses, ii
  <1>4. Instr(ii.class, rets, uses, ii.of, ii.at) \in Instrs BY <1>1, <1>3 DEF Instr, Instrs
  <1>5. QED BY <1>1, <1>2, <1>3, <1>4 DEF Instr, ii

-----------------------------------------------------------------------------
LEMMA AllocInitOK == Init => AllocInv
  <1> SUFFICES ASSUME Init PROVE AllocInv OBVIOUS
  <1>1. ProgOK
    <2>1. PICK p, wide : WellFormed(p) /\ prog = [instrs |-> p, wide |-> wide] BY DEF Init
    <2>2. QED BY <2>1 DEF WellFormed, ProgOK
  <1>2. CodeOK BY DEF Init, CodeOK, MovesOK
  <1>3. GraphOK /\ EdgesOK BY DEF Init, GraphOK, EdgesOK
  <1>4. ColorsOK /\ ProperColoring /\ ColorFound
    <2>1. Temps \subseteq Values BY ValuesFinite
    <2>2. QED BY <2>1 DEF Init, ColorsOK, Uncolored, ProperColoring, ColorFound
  <1>5. QED BY <1>1, <1>2, <1>3, <1>4 DEF AllocInv

(* The steps that touch neither the graph nor the colours. *)
LEMMA FrameKept ==
  ASSUME AllocInv, UNCHANGED <<prog, mtx, iv_edges, dead, vi, colors>>, CodeOK',
         \/ phase' = phase
         \/ phase' \in {"liveness", "interference"} /\ phase \in {"prepare", "liveness"}
         \/ phase' \in {"wide", "finalize", "run"}
  PROVE  AllocInv'
  <1>1. ProgOK' /\ GraphOK' BY DEF AllocInv, ProgOK, GraphOK
  <1>2. Counted => Counted' BY DEF Counted, Neighbours
  <1>3. EdgesOK' BY <1>2 DEF AllocInv, EdgesOK
  <1>4. Vertices' = Vertices BY DEF Vertices
  <1>5. ColorsOK' BY <1>4 DEF AllocInv, ColorsOK, Uncolored
  <1>6. ProperColoring' BY DEF AllocInv, ProperColoring
  <1>7. ColorFound' BY <1>4 DEF AllocInv, ColorFound
  <1>8. QED BY <1>1, <1>3, <1>5, <1>6, <1>7 DEF AllocInv

LEMMA PrepareKeeps ==
  ASSUME AllocInv, NEW i \in 1..NumInstrs, prepare_calls(i)
  PROVE  AllocInv'
  <1>0. ProgOK /\ CodeOK BY DEF AllocInv
  <1>1. CASE prog.instrs[i].class = "call"
    <2>1. instrs' = instrs \o prepare_call(i) BY <1>1 DEF prepare_calls
    <2>2. CodeOK' BY <2>1, <1>0, <1>1, PreparedTyped, CodeExtended
    <2>3. QED BY <2>2, FrameKept DEF prepare_calls, graph, frame
  <1>2. CASE prog.instrs[i].class # "call"
    <2>1. instrs' = instrs \o Bind(i) BY <1>2 DEF prepare_calls
    <2>2. Bind(i) \in Seq(Instrs)
          /\ \A k \in 1..Len(Bind(i)) : Bind(i)[k].class = "move" => Bind(i)[k].uses # <<>>
      BY <1>0, <1>2, BindTyped
    <2>3. CodeOK' BY <2>1, <2>2, <1>0, CodeExtended
    <2>4. QED BY <2>3, FrameKept DEF prepare_calls, graph, frame
  <1>3. QED BY <1>1, <1>2

LEMMA InterfereKeeps ==
  ASSUME AllocInv, Interfere
  PROVE  AllocInv'
  <1>0. /\ mtx' = UNION {Conflicts(i) : i \in 1..Len(instrs)}
        /\ iv_edges' = [v \in Values |-> Cardinality(Neighbours(v)')]
        /\ phase = "interference" /\ phase' = "coalesce"
        /\ UNCHANGED <<prog, instrs, dead, vi, colors>>
    BY DEF Interfere, analysis, frame, execution
  <1>1. ProgOK' /\ CodeOK' BY <1>0 DEF AllocInv, ProgOK, CodeOK, MovesOK
  <1>2. GraphOK'
    <2>1. SUFFICES ASSUME NEW i \in 1..Len(instrs), NEW e \in Conflicts(i)
                   PROVE  \E x, y \in Values : x # y /\ e = {x, y}
      BY <1>0 DEF GraphOK
    <2>2. PICK x \in ToSet(instrs[i].rets), y \in Values : y # x /\ e = {x, y}
      BY DEF Conflicts
    <2>3. instrs[i].rets \in Seq(Values) BY InstrTyped DEF AllocInv
    <2>4. x \in Values BY <2>3 DEF ToSet
    <2>5. QED BY <2>2, <2>4
  <1>3. EdgesOK'
    <2>1. ASSUME NEW v \in Values PROVE Cardinality(Neighbours(v)') \in Nat
      <3>1. Neighbours(v)' \subseteq Values BY DEF Neighbours
      <3>2. QED BY <3>1, ValuesFinite, FS_Subset, FS_CardinalityType
    <2>2. iv_edges' \in [Values -> Nat] BY <1>0, <2>1
    <2>3. Counted' BY <1>0 DEF Counted
    <2>4. QED BY <2>2, <2>3 DEF EdgesOK
  <1>4. Uncolored' /\ ColorsOK' BY <1>0 DEF AllocInv, ColorsOK, Uncolored
  <1>5. ProperColoring'
    <2>1. Temps \subseteq Values BY ValuesFinite
    <2>2. QED BY <2>1, <1>4 DEF Uncolored, ProperColoring
  <1>6. ColorFound' BY <1>0 DEF ColorFound
  <1>7. QED BY <1>1, <1>2, <1>3, <1>4, <1>5, <1>6 DEF AllocInv

LEMMA MergeKeeps ==
  ASSUME AllocInv, NEW i \in 1..Len(instrs), Merge(i)
  PROVE  AllocInv'
  <1> DEFINE dst    == instrs[i].rets[1]
             src    == instrs[i].uses[1]
             killed == IF Precolored(src) THEN dst ELSE src
             saved  == IF Precolored(src) THEN src ELSE dst
  <1>0. /\ phase = "coalesce" /\ phase' = "coalesce"
        /\ instrs[i].class = "move" /\ Len(instrs[i].rets) = 1
        /\ dst # src /\ {dst, src} \notin mtx
        /\ instrs' = [j \in 1..Len(instrs) |->
                         IF j = i THEN Destroyed(instrs[j])
                         ELSE instr_replace_values(instrs[j], killed, saved)]
        /\ mtx' = Merged(killed, saved) /\ iv_edges' = EdgesMerged(killed, saved)
        /\ UNCHANGED <<prog, vi, colors>>
    BY DEF Merge, Visit, Mergeable, analysis, frame
  <1>c. CodeOK BY DEF AllocInv
  <1>1. dst \in Values /\ src \in Values
    <2>1. instrs[i].rets \in Seq(Values) /\ instrs[i].uses \in Seq(Values) /\ instrs[i].uses # <<>>
      BY <1>0, <1>c, InstrTyped
    <2>2. QED BY <2>1, <1>0
  <1>2. killed \in Values /\ saved \in Values /\ killed # saved /\ {killed, saved} \notin mtx
    BY <1>0, <1>1, {dst, src} = {src, dst}
  <1> HIDE DEF killed, saved, dst, src
  <1>3. GraphOK' /\ Counted' /\ iv_edges' \in [Values -> Nat]
    BY <1>0, <1>2, MergeCounts DEF AllocInv, EdgesOK
  <1>4. CodeOK'
    <2>0. instrs \in Seq(Instrs) BY <1>c DEF CodeOK
    <2>1. ASSUME NEW j \in 1..Len(instrs)
          PROVE  instrs'[j] \in Instrs /\ (instrs'[j].class = "move" => instrs'[j].uses # <<>>)
      <3>1. CASE j = i BY <3>1, <1>0, <1>c, DestroyedTyped
      <3>2. CASE j # i BY <3>2, <1>0, <1>2, <1>c, InstrReplacedTyped
      <3>3. QED BY <3>1, <3>2
    <2>2. Len(instrs) \in Nat /\ instrs' = [j \in 1..Len(instrs) |-> instrs'[j]] BY <1>0, <2>0
    <2>3. instrs' \in Seq(Instrs) /\ Len(instrs') = Len(instrs) BY <2>1, <2>2
    <2>4. QED BY <2>0, <2>1, <2>3, <1>0 DEF CodeOK, MovesOK
  <1>5. ProgOK' BY <1>0 DEF AllocInv, ProgOK
  <1>6. EdgesOK' BY <1>3 DEF EdgesOK
  <1>7. Uncolored' /\ ColorsOK' BY <1>0 DEF AllocInv, ColorsOK, Uncolored
  <1>8. ProperColoring'
    <2>1. Temps \subseteq Values BY ValuesFinite
    <2>2. QED BY <2>1, <1>7 DEF Uncolored, ProperColoring
  <1>9. ColorFound' BY <1>0 DEF ColorFound
  <1>10. QED BY <1>3, <1>4, <1>5, <1>6, <1>7, <1>8, <1>9 DEF AllocInv

LEMMA DestroyMoveKeeps ==
  ASSUME AllocInv, NEW i \in 1..Len(instrs), DestroyMove(i)
  PROVE  AllocInv'
  <1>0. /\ instrs' = [instrs EXCEPT ![i] = Destroyed(instrs[i])]
        /\ UNCHANGED <<prog, mtx, iv_edges, dead, vi, colors, phase>>
    BY DEF DestroyMove, analysis, graph, frame
  <1>c. CodeOK BY DEF AllocInv
  <1>1. instrs \in Seq(Instrs) /\ MovesOK BY <1>c DEF CodeOK
  <1>2. Destroyed(instrs[i]) \in Instrs /\ Destroyed(instrs[i]).class = "destroyed"
    BY <1>c, DestroyedTyped
  <1>3. instrs' \in Seq(Instrs) /\ Len(instrs') = Len(instrs) BY <1>0, <1>1, <1>2
  <1>4. ASSUME NEW j \in 1..Len(instrs'), instrs'[j].class = "move"
        PROVE  instrs'[j].uses # <<>>
    <2>1. j # i /\ instrs'[j] = instrs[j] BY <1>0, <1>1, <1>2, <1>3, <1>4
    <2>2. QED BY <2>1, <1>1, <1>3, <1>4 DEF MovesOK
  <1>5. CodeOK' BY <1>0, <1>1, <1>3, <1>4 DEF CodeOK, MovesOK
  <1>6. QED BY <1>0, <1>5, FrameKept

LEMMA CoalesceDoneKeeps ==
  ASSUME AllocInv, CoalesceDone
  PROVE  AllocInv'
  <1>0. /\ phase = "coalesce" /\ phase' = "color" /\ vi' = Vertices
        /\ UNCHANGED <<prog, instrs, mtx, iv_edges, dead, colors>>
    BY DEF CoalesceDone, analysis, graph, execution
  <1>1. ProgOK' /\ CodeOK' /\ GraphOK' BY <1>0 DEF AllocInv, ProgOK, CodeOK, MovesOK, GraphOK
  <1>2. EdgesOK' BY <1>0 DEF AllocInv, EdgesOK, Counted, Neighbours
  <1>3. Vertices' = Vertices BY <1>0 DEF Vertices
  <1>4. ColorsOK' BY <1>0, <1>3 DEF AllocInv, ColorsOK
  <1>5. ProperColoring' BY <1>0 DEF AllocInv, ProperColoring
  <1>6. ColorFound' BY <1>0, <1>3 DEF ColorFound
  <1>7. QED BY <1>1, <1>2, <1>4, <1>5, <1>6 DEF AllocInv

LEMMA VerticesInTemps ==
  ASSUME ProgOK
  PROVE  Vertices \subseteq Temps
  <1>1. SUFFICES ASSUME NEW i \in 1..NumInstrs, prog.instrs[i].ret # 0
                 PROVE  prog.instrs[i].ret \in Temps
    BY DEF Vertices, Defined, ProgOK
  <1>2. prog.instrs[i] \in ProgInstrs BY DEF ProgOK
  <1>3. prog.instrs[i].ret \in 0..NumTemps BY <1>2, ProgInstrFacts
  <1>4. QED BY <1>1, <1>3, RegAllocAssumption DEF Temps

LEMMA ColorNextKeeps ==
  ASSUME AllocInv, NEW v \in Temps, ColorNext(v)
  PROVE  AllocInv'
  <1>0. /\ phase = "color" /\ v \in vi /\ vi' = vi \ {v}
        /\ UNCHANGED <<prog, instrs, mtx, iv_edges, dead, phase>>
    BY DEF ColorNext, analysis, graph, execution
  <1>1. PICK d \in {0} \cup {iv_edges[w] : w \in Vertices} :
          /\ GraphDegree(d)
          /\ \E c \in ColorTable(d) \cup {-1} :
               FirstFree(c, ColorTable(d) \ Taken(v)) /\ colors' = [colors EXCEPT ![v] = c]
    BY DEF ColorNext
  <1>2. PICK c : FirstFree(c, ColorTable(d) \ Taken(v)) /\ colors' = [colors EXCEPT ![v] = c]
    BY <1>1
  <1>t. Temps \subseteq Values /\ Vertices \subseteq Temps /\ v \in Vertices
    BY <1>0, ValuesFinite, VerticesInTemps DEF AllocInv, ColorsOK
  <1>3. d \in Nat /\ Cardinality(Neighbours(v)) <= d
    BY <1>0, <1>1, <1>t DEF AllocInv, EdgesOK, Counted, GraphDegree
  <1>4. c \in ColorTable(d) \ Taken(v) BY <1>2, <1>3, <1>t, ColorLeft DEF FirstFree
  <1>5. c \in Nat /\ c # -1 BY <1>3, <1>4, ColorTableSize
  <1>6. colors \in [Values -> Int] /\ colors' \in [Values -> Int]
    <2>1. colors \in [Values -> Int] BY DEF AllocInv, ColorsOK
    <2>2. c \in Int BY <1>5
    <2>3. QED BY <2>1, <2>2, <1>2
  <1>7. ProgOK' /\ CodeOK' /\ GraphOK' BY <1>0 DEF AllocInv, ProgOK, CodeOK, MovesOK, GraphOK
  <1>8. EdgesOK' BY <1>0 DEF AllocInv, EdgesOK, Counted, Neighbours
  <1>9. Vertices' = Vertices BY <1>0 DEF Vertices
  <1>10. ColorsOK' BY <1>0, <1>6, <1>9 DEF AllocInv, ColorsOK
  <1>11. ProperColoring'
    <2>1. SUFFICES ASSUME NEW x \in Temps, NEW y \in Temps, {x, y} \in mtx, x # y, colors'[x] # -1
                   PROVE  colors'[x] # colors'[y]
      BY <1>0 DEF ProperColoring
    <2>2. CASE x = v
      <3>1. y \in Neighbours(v) BY <2>1, <2>2, <1>t DEF Neighbours
      <3>2. c # colors[y] BY <3>1, <1>4 DEF Taken
      <3>3. QED BY <3>2, <2>1, <2>2, <1>2, <1>6, <1>t
    <2>3. CASE y = v
      <3>1. x \in Neighbours(v) BY <2>1, <2>3, <1>t, {x, y} = {y, x} DEF Neighbours
      <3>2. c # colors[x] BY <3>1, <1>4 DEF Taken
      <3>3. QED BY <3>2, <2>1, <2>3, <1>2, <1>6, <1>t
    <2>4. CASE x # v /\ y # v
      BY <2>1, <2>4, <1>2, <1>6, <1>t DEF AllocInv, ProperColoring
    <2>5. QED BY <2>2, <2>3, <2>4
  <1>12. ColorFound'
    <2>1. SUFFICES ASSUME NEW w \in Vertices \ (vi \ {v}) PROVE colors'[w] # -1
      BY <1>0, <1>9 DEF ColorFound
    <2>2. CASE w = v BY <2>2, <1>2, <1>5, <1>6, <1>t
    <2>3. CASE w # v BY <2>3, <1>0, <1>2, <1>6, <1>t DEF AllocInv, ColorFound
    <2>4. QED BY <2>2, <2>3
  <1>13. QED BY <1>7, <1>8, <1>10, <1>11, <1>12 DEF AllocInv

-----------------------------------------------------------------------------
LEMMA AllocStep == AllocInv /\ [Next]_vars => AllocInv'
  <1> SUFFICES ASSUME AllocInv, [Next]_vars PROVE AllocInv' OBVIOUS
  <1>c. CodeOK BY DEF AllocInv
  <1>k. UNCHANGED instrs => CodeOK' BY <1>c DEF CodeOK, MovesOK
  <1>1. ASSUME NEW i \in 1..NumInstrs, prepare_calls(i) PROVE AllocInv' BY <1>1, PrepareKeeps
  <1>2. CASE StartLiveness
    BY <1>2, <1>k, FrameKept DEF StartLiveness, graph, frame
  <1>3. CASE liveness_update
    BY <1>3, <1>k, FrameKept DEF liveness_update, graph, frame, execution
  <1>4. CASE Interfere BY <1>4, InterfereKeeps
  <1>5. CASE CoalesceDone BY <1>5, CoalesceDoneKeeps
  <1>6. ASSUME NEW i \in 1..Len(instrs), Merge(i) PROVE AllocInv' BY <1>6, MergeKeeps
  <1>7. ASSUME NEW i \in 1..Len(instrs), DestroyMove(i) PROVE AllocInv' BY <1>7, DestroyMoveKeeps
  <1>8. ASSUME NEW i \in 1..Len(instrs), Keep(i) PROVE AllocInv'
    BY <1>8, <1>k, FrameKept DEF Keep, analysis, graph, frame
  <1>9. ASSUME NEW v \in Temps, ColorNext(v) PROVE AllocInv' BY <1>9, ColorNextKeeps
  <1>10. CASE AssignNarrow
    BY <1>10, <1>k, FrameKept DEF AssignNarrow, analysis, graph, execution
  <1>11. CASE AssignWide
    BY <1>11, <1>k, FrameKept DEF AssignWide, analysis, graph, execution
  <1>12. CASE finalize_call_args
    BY <1>12, <1>k, FrameKept DEF finalize_call_args, analysis, graph
  <1>13. ASSUME NEW i \in 1..Len(instrs),
                ExecDefine(i) \/ ExecMove(i) \/ ExecDestroyed(i) \/ ExecUse(i)
         PROVE  AllocInv'
    <2>1. UNCHANGED <<prog, instrs, mtx, iv_edges, dead, vi, colors, phase>>
      BY <1>13 DEF ExecDefine, ExecMove, ExecDestroyed, ExecUse, analysis, graph, frame
    <2>2. QED BY <2>1, <1>k, FrameKept
  <1>14. CASE UNCHANGED vars
    BY <1>14, <1>k, FrameKept DEF vars
  <1>15. QED
    BY <1>1, <1>2, <1>3, <1>4, <1>5, <1>6, <1>7, <1>8, <1>9, <1>10, <1>11, <1>12, <1>13, <1>14
    DEF Next

LEMMA AllocAlways == Spec => []AllocInv
  BY AllocInitOK, AllocStep, PTL DEF Spec

(* For every function, however coalesce merges its values, iv_edges is the *)
(* number of neighbours of each value while the graph is in use.           *)
THEOREM EdgeCountsRight == Spec => []EdgesCounted
  <1>1. AllocInv => EdgesCounted BY DEF AllocInv, EdgesOK, Counted, EdgesCounted
  <1>2. QED BY <1>1, AllocAlways, PTL

(* In reg_alloc, values that interfere never get the same colour. *)
THEOREM ColoringProper == Spec => []ProperColoring
  <1>1. AllocInv => ProperColoring BY DEF AllocInv
  <1>2. QED BY <1>1, AllocAlways, PTL

(* In reg_alloc, the colour table sized from the largest edge count has a  *)
(* colour left for every value, whatever the width of its words.           *)
THEOREM ColorAlwaysFound == Spec => []ColorFound
  <1>1. AllocInv => ColorFound BY DEF AllocInv
  <1>2. QED BY <1>1, AllocAlways, PTL

-----------------------------------------------------------------------------
(* What Found returns *)

(* f follows the edges from S up to n times. *)
Follows(f, S, edges, n) ==
  f = [k \in 0..n |-> IF k = 0 THEN S ELSE f[k-1] \cup UNION {edges[i] : i \in f[k-1]}]

LEMMA FollowsExists ==
  ASSUME NEW S, NEW edges, NEW n \in Nat
  PROVE  \E f : Follows(f, S, edges, n)
<1> DEFINE T == {k \in Nat : \E f : Follows(f, S, edges, k)}
<1>1. 0 \in T
  <2> DEFINE h == [k \in 0..0 |-> S]
  <2>0. h = [k \in 0..0 |-> IF k = 0 THEN S ELSE h[k-1] \cup UNION {edges[i] : i \in h[k-1]}]
    OBVIOUS
  <2> HIDE DEF h
  <2>1. Follows(h, S, edges, 0)
    BY <2>0, Zenon DEF Follows
  <2> QED BY <2>1
<1>2. ASSUME NEW k \in Nat, k \in T PROVE k + 1 \in T
  <2>1. PICK f : Follows(f, S, edges, k)
    BY <1>2
  <2> DEFINE more(l, g) == IF l = 0 THEN S ELSE g[l-1] \cup UNION {edges[i] : i \in g[l-1]}
             h == [l \in 0..(k+1) |-> IF l = k + 1 THEN more(l, f) ELSE f[l]]
  <2>2. \A l \in 0..k : f[l] = more(l, f)
    <3> DEFINE g == [l \in 0..k |-> more(l, f)]
    <3>1. f = g
      BY <2>1, Zenon DEF Follows
    <3>2. \A l \in 0..k : g[l] = more(l, f)
      OBVIOUS
    <3> HIDE DEF g, more
    <3> QED BY <3>1, <3>2
  <2>3. \A l \in 0..(k+1) : l # 0 => l - 1 \in 0..(k+1) /\ l - 1 # k + 1
    OBVIOUS
  <2>4. \A l \in 0..(k+1) : l # k + 1 => l \in 0..k
    OBVIOUS
  <2>5. ASSUME NEW l \in 0..(k+1) PROVE h[l] = more(l, h)
    <3>1. l # 0 => h[l-1] = f[l-1]
      BY <2>3
    <3>2. more(l, h) = more(l, f)
      BY <3>1
    <3> HIDE DEF more
    <3>3. h[l] = IF l = k + 1 THEN more(l, f) ELSE f[l]
      OBVIOUS
    <3> QED BY <3>2, <3>3, <2>2, <2>4
  <2>6. h = [l \in 0..(k+1) |-> more(l, h)]
    <3>1. h = [l \in 0..(k+1) |-> h[l]]
      OBVIOUS
    <3> HIDE DEF h, more
    <3> QED BY <3>1, <2>5
  <2> HIDE DEF h
  <2>7. Follows(h, S, edges, k + 1)
    BY <2>6, Zenon DEF Follows
  <2> QED BY <2>7
<1> HIDE DEF T
<1>3. Nat \subseteq T
  BY <1>1, <1>2, NatSetInduction
<1> QED BY <1>3 DEF T

StepByStep(f, S, edges, n) ==
  /\ f[0] = S
  /\ \A k \in 0..n : k # 0 => f[k] = f[k-1] \cup UNION {edges[i] : i \in f[k-1]}

LEMMA FoundUnfolds ==
  ASSUME NEW S, NEW edges, NEW n \in Nat
  PROVE  \E f : Found(S, edges, n) = f[n] /\ StepByStep(f, S, edges, n)
<1>1. \E f : Follows(f, S, edges, n)
  BY FollowsExists
<1> DEFINE F == CHOOSE f : Follows(f, S, edges, n)
<1>2. Follows(F, S, edges, n)
  BY <1>1, Zenon
<1>3. Found(S, edges, n) = F[n]
  BY Zenon DEF Found, Follows
<1> HIDE DEF F
<1>4. \A k \in 0..n : F[k] = IF k = 0 THEN S ELSE F[k-1] \cup UNION {edges[i] : i \in F[k-1]}
  <2> DEFINE f == [k \in 0..n |-> IF k = 0 THEN S ELSE F[k-1] \cup UNION {edges[i] : i \in F[k-1]}]
  <2>1. F = f
    BY <1>2, Zenon DEF Follows
  <2>2. \A k \in 0..n : f[k] = IF k = 0 THEN S ELSE F[k-1] \cup UNION {edges[i] : i \in F[k-1]}
    OBVIOUS
  <2> HIDE DEF f
  <2> QED BY <2>1, <2>2
<1>5. 0 \in 0..n
  OBVIOUS
<1>6. StepByStep(F, S, edges, n)
  BY <1>4, <1>5 DEF StepByStep
<1> QED BY <1>3, <1>6

(* Following edges between n places n times finds everything: the least    *)
(* set that contains S and is closed under them.                           *)
LEMMA FoundFacts ==
  ASSUME NEW n \in Nat, NEW S \in SUBSET (1..n), NEW edges \in [1..n -> SUBSET (1..n)]
  PROVE  /\ S \subseteq Found(S, edges, n) /\ Found(S, edges, n) \subseteq 1..n
         /\ \A i \in Found(S, edges, n) : edges[i] \subseteq Found(S, edges, n)
         /\ \A C \in SUBSET (1..n) :
              S \subseteq C /\ (\A i \in C : edges[i] \subseteq C) => Found(S, edges, n) \subseteq C
<1>0. PICK f : Found(S, edges, n) = f[n] /\ StepByStep(f, S, edges, n)
  BY FoundUnfolds, Zenon
<1>1. /\ Found(S, edges, n) = f[n]
      /\ f[0] = S
      /\ \A k \in 0..n : k # 0 => f[k] = f[k-1] \cup UNION {edges[i] : i \in f[k-1]}
  BY <1>0, Zenon DEF StepByStep
<1> DEFINE U == 1..n
           closed(C) == \A i \in C : edges[i] \subseteq C
           K == {k \in Nat : k <= n => f[k] \subseteq U /\ S \subseteq f[k]}
<1>2. IsFiniteSet(U) /\ Cardinality(U) = n
  <2>0. 1 \in Int /\ n \in Int
    OBVIOUS
  <2>1. IsFiniteSet(1..n) /\ Cardinality(1..n) = IF 1 > n THEN 0 ELSE n - 1 + 1
    BY <2>0, FS_Interval
  <2> QED BY <2>1
<1>3. \A k \in Nat : k + 1 <= n => /\ k <= n /\ k \in 0..n
                                   /\ f[k+1] = f[k] \cup UNION {edges[i] : i \in f[k]}
  <2> SUFFICES ASSUME NEW k \in Nat, k + 1 <= n
               PROVE  /\ k <= n /\ k \in 0..n
                      /\ f[k+1] = f[k] \cup UNION {edges[i] : i \in f[k]}
    OBVIOUS
  <2>1. k + 1 \in 0..n /\ k + 1 # 0 /\ (k + 1) - 1 = k /\ k <= n /\ k \in 0..n
    OBVIOUS
  <2>2. f[k+1] = f[(k+1)-1] \cup UNION {edges[i] : i \in f[(k+1)-1]}
    BY <1>1, <2>1
  <2> QED BY <2>1, <2>2
<1>a. edges \in [U -> SUBSET U] /\ S \subseteq U
  OBVIOUS
<1> HIDE DEF U
<1>4. Nat \subseteq K
  <2>1. 0 \in K
    BY <1>1, <1>a
  <2>2. ASSUME NEW k \in Nat, k \in K PROVE k + 1 \in K
    <3>1. SUFFICES ASSUME k + 1 <= n PROVE f[k+1] \subseteq U /\ S \subseteq f[k+1]
      OBVIOUS
    <3>2. f[k] \subseteq U /\ S \subseteq f[k] /\ f[k+1] = f[k] \cup UNION {edges[i] : i \in f[k]}
      BY <1>3, <2>2, <3>1
    <3> QED BY <3>2, <1>a
  <2> HIDE DEF K
  <2> QED BY <2>1, <2>2, NatSetInduction
<1>5. f[n] \subseteq U /\ S \subseteq f[n]
  BY <1>4
<1> DEFINE Q == {k \in Nat : k <= n => closed(f[k]) \/ Cardinality(f[k]) >= k}
<1>6. Nat \subseteq Q
  <2>1. 0 \in Q
    <3>1. IsFiniteSet(f[0])
      BY <1>1, <1>2, <1>a, FS_Subset
    <3>2. Cardinality(f[0]) \in Nat
      BY <3>1, FS_CardinalityType
    <3> QED BY <3>2
  <2>2. ASSUME NEW k \in Nat, k \in Q PROVE k + 1 \in Q
    <3>1. SUFFICES ASSUME k + 1 <= n, ~closed(f[k+1]) PROVE Cardinality(f[k+1]) >= k + 1
      OBVIOUS
    <3> DEFINE A == f[k]
               B == f[k+1]
    <3>2. k <= n /\ B = A \cup UNION {edges[i] : i \in A}
      BY <1>3, <3>1
    <3>3. A \subseteq U /\ B \subseteq U
      BY <1>4, <3>1, <3>2
    <3>4. ~closed(A)
      <4> SUFFICES ASSUME closed(A) PROVE FALSE
        OBVIOUS
      <4>1. B = A
        BY <3>2
      <4> QED BY <4>1, <3>1
    <3>5. Cardinality(A) >= k
      BY <2>2, <3>2, <3>4
    <3> HIDE DEF A, B
    <3>6. A \subseteq B /\ A # B
      BY <3>2, <3>4
    <3>7. IsFiniteSet(A) /\ IsFiniteSet(B)
      BY <1>2, <3>3, FS_Subset
    <3>8. Cardinality(A) \in Nat /\ Cardinality(B) \in Nat /\ Cardinality(A) < Cardinality(B)
      <4>1. Cardinality(A) <= Cardinality(B) /\ (Cardinality(A) = Cardinality(B) => A = B)
        BY <3>6, <3>7, FS_Subset
      <4>2. Cardinality(A) \in Nat /\ Cardinality(B) \in Nat
        BY <3>7, FS_CardinalityType
      <4> QED BY <3>6, <4>1, <4>2
    <3>9. Cardinality(B) >= k + 1
      BY <3>5, <3>8
    <3> QED BY <3>9 DEF B
  <2> HIDE DEF Q
  <2> QED BY <2>1, <2>2, NatSetInduction
<1>7. closed(f[n])
  <2>1. closed(f[n]) \/ Cardinality(f[n]) >= n
    BY <1>6
  <2>2. CASE Cardinality(f[n]) >= n
    <3>1. Cardinality(f[n]) <= Cardinality(U) /\ (Cardinality(f[n]) = Cardinality(U) => f[n] = U)
      BY <1>2, <1>5, FS_Subset
    <3>2. IsFiniteSet(f[n])
      BY <1>2, <1>5, FS_Subset
    <3>3. Cardinality(f[n]) \in Nat
      BY <3>2, FS_CardinalityType
    <3>4. f[n] = U
      BY <1>2, <2>2, <3>1, <3>3
    <3> QED BY <3>4, <1>a
  <2> QED BY <2>1, <2>2
<1>8. ASSUME NEW C \in SUBSET U, S \subseteq C, closed(C) PROVE f[n] \subseteq C
  <2> DEFINE J == {k \in Nat : k <= n => f[k] \subseteq C}
  <2>1. 0 \in J
    BY <1>1, <1>8
  <2>2. ASSUME NEW k \in Nat, k \in J PROVE k + 1 \in J
    <3>1. SUFFICES ASSUME k + 1 <= n PROVE f[k+1] \subseteq C
      OBVIOUS
    <3>2. f[k] \subseteq C /\ f[k+1] = f[k] \cup UNION {edges[i] : i \in f[k]}
      BY <1>3, <2>2, <3>1
    <3> QED BY <3>2, <1>8
  <2>3. Nat \subseteq J
    <3> HIDE DEF J
    <3> QED BY <2>1, <2>2, NatSetInduction
  <2> QED BY <2>3
<1> QED BY <1>1, <1>5, <1>7, <1>8 DEF U
-----------------------------------------------------------------------------
(* The code that prepare_calls lays out *)

(* The instructions that stand for instruction m of the function. *)
Block(m) == IF prog.instrs[m].class = "call" THEN prepare_call(m) ELSE Bind(m)

Ret(m) == IF prog.instrs[m].ret = 0 THEN <<>> ELSE <<prog.instrs[m].ret>>

Callee(m) == SubSeq(prog.instrs[m].uses, Len(Args(m)) + 1, Len(prog.instrs[m].uses))

CallOf(m) ==
  Instr("call", Ret(m), [k \in 1..Len(Args(m)) |-> ArgValue(Args(m), k)] \o Callee(m), Callee(m), m)

BindOf(m) == Instr(prog.instrs[m].class, Ret(m), prog.instrs[m].uses, prog.instrs[m].uses, m)

LEMMA InstrFields ==
  ASSUME NEW c, NEW r, NEW u, NEW o, NEW a
  PROVE  /\ Instr(c, r, u, o, a).class = c /\ Instr(c, r, u, o, a).rets = r
         /\ Instr(c, r, u, o, a).uses = u /\ Instr(c, r, u, o, a).of = o
         /\ Instr(c, r, u, o, a).at = a
BY DEF Instr

LEMMA BlockFacts ==
  ASSUME ProgOK, NEW m \in 1..NumInstrs
  PROVE  /\ Block(m) \in Seq(Instrs) /\ Len(Block(m)) \in Nat /\ Len(Block(m)) >= 1
         /\ prog.instrs[m].class = "call" =>
              /\ Len(Block(m)) = Len(Args(m)) + 1
              /\ \A k \in 1..Len(Args(m)) : Block(m)[k] = ArgMove(m, k)
              /\ Block(m)[Len(Args(m)) + 1] = CallOf(m)
         /\ prog.instrs[m].class # "call" => Len(Block(m)) = 1 /\ Block(m)[1] = BindOf(m)
         /\ \A k \in 1..Len(Block(m)) : Block(m)[k].at = m /\ Block(m)[k].class # "destroyed"
<1>1. CASE prog.instrs[m].class = "call"
  <2> DEFINE moves == [k \in 1..Len(Args(m)) |-> ArgMove(m, k)]
  <2>1. Block(m) = moves \o <<CallOf(m)>> /\ Block(m) = prepare_call(m)
    BY <1>1 DEF Block, prepare_call, CallOf, Ret, Callee
  <2>2. Len(Args(m)) \in Nat /\ Block(m) \in Seq(Instrs)
    <3>1. Len(Args(m)) \in 0..MaxArgs
      BY <1>1, ArgsTyped
    <3>2. prepare_call(m) \in Seq(Instrs)
      BY <1>1, PreparedTyped
    <3> QED BY <2>1, <3>1, <3>2
  <2>3. Len(moves) = Len(Args(m)) /\ \A k \in 1..Len(Args(m)) : moves[k] = ArgMove(m, k)
    BY <2>2
  <2>4. moves \in Seq({moves[k] : k \in 1..Len(Args(m))}) /\ <<CallOf(m)>> \in Seq({CallOf(m)})
    BY <2>2
  <2> HIDE DEF moves
  <2>5. /\ Len(Block(m)) = Len(Args(m)) + 1
        /\ \A k \in 1..Len(Args(m)) : Block(m)[k] = ArgMove(m, k)
        /\ Block(m)[Len(Args(m)) + 1] = CallOf(m)
    BY <2>1, <2>2, <2>3, <2>4
  <2>6. /\ CallOf(m).at = m /\ CallOf(m).class # "destroyed"
        /\ \A k : ArgMove(m, k).at = m /\ ArgMove(m, k).class # "destroyed"
    BY InstrFields DEF CallOf, ArgMove
  <2>7. \A k \in 1..(Len(Args(m)) + 1) : k \in 1..Len(Args(m)) \/ k = Len(Args(m)) + 1
    BY <2>2
  <2>8. \A k \in 1..Len(Block(m)) : Block(m)[k].at = m /\ Block(m)[k].class # "destroyed"
    BY <2>5, <2>6, <2>7
  <2>9. Len(Block(m)) \in Nat /\ Len(Block(m)) >= 1
    BY <2>2, <2>5
  <2> QED BY <1>1, <2>2, <2>5, <2>8, <2>9
<1>2. CASE prog.instrs[m].class # "call"
  <2>1. Block(m) = <<BindOf(m)>> /\ Block(m) = Bind(m)
    BY <1>2 DEF Block, Bind, BindOf, Ret
  <2>2. Block(m) \in Seq(Instrs) /\ Len(Block(m)) = 1 /\ Block(m)[1] = BindOf(m)
    BY <1>2, <2>1, BindTyped
  <2>3. BindOf(m).at = m /\ BindOf(m).class = prog.instrs[m].class
    BY InstrFields DEF BindOf
  <2>4. prog.instrs[m] \in ProgInstrs
    BY DEF ProgOK
  <2>5. BindOf(m).class # "destroyed"
    BY <2>3, <2>4, ProgInstrFacts
  <2>6. \A k \in 1..1 : k = 1
    OBVIOUS
  <2> QED BY <1>2, <2>2, <2>3, <2>5, <2>6
<1> QED BY <1>1, <1>2

(* code has the instructions of the blocks before n, block m behind        *)
(* position start[m].                                                      *)
Laid(code, start, n) ==
  /\ code \in Seq(Instrs)
  /\ start \in [1..(NumInstrs + 1) -> Nat] /\ start[1] = 0
  /\ Len(code) = start[n]
  /\ \A m \in 1..(n - 1) :
       /\ start[m + 1] = start[m] + Len(Block(m))
       /\ \A k \in 1..Len(Block(m)) : start[m] + k \in 1..Len(code) /\ code[start[m] + k] = Block(m)[k]
  /\ \A i \in 1..Len(code) :
       /\ code[i].at \in 1..(n - 1)
       /\ i - start[code[i].at] \in 1..Len(Block(code[i].at))
       /\ \A j \in 1..Len(code) : i < j => code[i].at <= code[j].at

LEMMA BlockFrame ==
  ASSUME prog' = prog, NEW m
  PROVE  Block(m)' = Block(m)
BY DEF Block, prepare_call, Bind, Args, ArgMove, ArgValue, SlotsBefore, value_regframe_slots

LEMMA LaidFrame ==
  ASSUME prog' = prog, NEW code, NEW start, NEW n
  PROVE  Laid(code, start, n)' <=> Laid(code, start, n)
<1>1. \A m : Block(m)' = Block(m)
  BY BlockFrame
<1> QED BY <1>1 DEF Laid

LEMMA LaidNothing ==
  Laid(<<>>, [m \in 1..(NumInstrs + 1) |-> 0], 1)
<1>1. 1 \in 1..(NumInstrs + 1) /\ \A m \in 1..(1 - 1) : FALSE
  BY RegAllocAssumption
<1> QED BY <1>1 DEF Laid

LEMMA ConcatFacts ==
  ASSUME NEW S, NEW a \in Seq(S), NEW b \in Seq(S)
  PROVE  /\ a \o b \in Seq(S) /\ Len(a \o b) = Len(a) + Len(b)
         /\ \A i \in 1..Len(a) : (a \o b)[i] = a[i] /\ i \in 1..(Len(a) + Len(b))
         /\ \A k \in 1..Len(b) : (a \o b)[Len(a) + k] = b[k] /\ Len(a) + k \in 1..(Len(a) + Len(b))
         /\ \A i \in 1..(Len(a) + Len(b)) :
              i \in 1..Len(a) \/ (i - Len(a) \in 1..Len(b) /\ i = Len(a) + (i - Len(a)))
<1>1. Len(a) \in Nat /\ Len(b) \in Nat
  OBVIOUS
<1>2. a \o b \in Seq(S) /\ Len(a \o b) = Len(a) + Len(b)
  OBVIOUS
<1>3. \A i \in 1..Len(a) : (a \o b)[i] = a[i] /\ i \in 1..(Len(a) + Len(b))
  BY <1>1
<1>4. \A k \in 1..Len(b) : (a \o b)[Len(a) + k] = b[k] /\ Len(a) + k \in 1..(Len(a) + Len(b))
  BY <1>1
<1>5. \A i \in 1..(Len(a) + Len(b)) :
        i \in 1..Len(a) \/ (i - Len(a) \in 1..Len(b) /\ i = Len(a) + (i - Len(a)))
  BY <1>1
<1> QED BY <1>2, <1>3, <1>4, <1>5

LEMMA LaidMore ==
  ASSUME ProgOK, NEW n \in 1..NumInstrs, NEW code, NEW start, Laid(code, start, n)
  PROVE  Laid(code \o Block(n), [start EXCEPT ![n + 1] = start[n] + Len(Block(n))], n + 1)
<1> DEFINE L == Len(code)
           B == Len(Block(n))
           more == code \o Block(n)
           s == [start EXCEPT ![n + 1] = start[n] + B]
<1>1. Block(n) \in Seq(Instrs) /\ B \in Nat /\ B >= 1 /\ \A k \in 1..B : Block(n)[k].at = n
  BY BlockFacts
<1>2. /\ code \in Seq(Instrs) /\ L \in Nat /\ start \in [1..(NumInstrs + 1) -> Nat]
      /\ start[1] = 0 /\ L = start[n]
  BY DEF Laid
<1>3. /\ NumInstrs \in Nat /\ n \in Nat /\ n + 1 \in 1..(NumInstrs + 1) /\ n \in 1..(NumInstrs + 1)
      /\ (n + 1) - 1 = n /\ n # n + 1
      /\ \A m \in 1..n : m = n \/ m \in 1..(n - 1)
      /\ \A m \in 1..(n - 1) : m \in 1..n /\ m # n + 1 /\ m + 1 # n + 1 /\ m <= n
      /\ \A m \in 1..n : m \in 1..(NumInstrs + 1) /\ m + 1 \in 1..(NumInstrs + 1) /\ m # n + 1
  BY RegAllocAssumption
<1>4. /\ more \in Seq(Instrs) /\ Len(more) = L + B
      /\ \A i \in 1..L : more[i] = code[i] /\ i \in 1..(L + B)
      /\ \A k \in 1..B : more[L + k] = Block(n)[k] /\ L + k \in 1..(L + B)
      /\ \A i \in 1..(L + B) : i \in 1..L \/ (i - L \in 1..B /\ i = L + (i - L))
  BY <1>1, <1>2, ConcatFacts, Zenon
<1>5. /\ s \in [1..(NumInstrs + 1) -> Nat] /\ s[n + 1] = L + B
      /\ \A m \in 1..n : s[m] = start[m]
  BY <1>1, <1>2, <1>3
<1> HIDE DEF more, s, L, B
<1>6. s[1] = 0 /\ s[n] = L
  <2>1. 1 \in 1..n
    BY <1>3
  <2> QED BY <1>2, <1>3, <1>5, <2>1
<1>7. ASSUME NEW m \in 1..n
      PROVE  /\ s[m + 1] = s[m] + Len(Block(m))
             /\ \A k \in 1..Len(Block(m)) : s[m] + k \in 1..Len(more) /\ more[s[m] + k] = Block(m)[k]
  <2>1. CASE m = n
    BY <1>4, <1>5, <1>6, <2>1 DEF B
  <2>2. CASE m \in 1..(n - 1)
    <3>1. m + 1 \in 1..n
      BY <1>3, <2>2
    <3>2. s[m] = start[m] /\ s[m + 1] = start[m + 1]
      BY <1>5, <3>1
    <3>3. /\ start[m + 1] = start[m] + Len(Block(m))
          /\ \A k \in 1..Len(Block(m)) : start[m] + k \in 1..L /\ code[start[m] + k] = Block(m)[k]
      BY <2>2 DEF Laid, L
    <3> QED BY <1>4, <3>2, <3>3
  <2> QED BY <1>3, <2>1, <2>2
<1>8. \A i \in 1..L : /\ code[i].at \in 1..(n - 1)
                      /\ i - start[code[i].at] \in 1..Len(Block(code[i].at))
                      /\ \A j \in 1..L : i < j => code[i].at <= code[j].at
  BY DEF Laid, L
<1>9. \A k \in 1..B : more[L + k].at = n
  BY <1>1, <1>4
<1>10. ASSUME NEW i \in 1..Len(more)
       PROVE  /\ more[i].at \in 1..n
              /\ i - s[more[i].at] \in 1..Len(Block(more[i].at))
              /\ \A j \in 1..Len(more) : i < j => more[i].at <= more[j].at
  <2>1. CASE i \in 1..L
    <3>1. more[i].at \in 1..(n - 1) /\ more[i] = code[i]
      BY <1>4, <1>8, <2>1
    <3>2. s[more[i].at] = start[more[i].at] /\ more[i].at \in 1..n
      BY <1>3, <1>5, <3>1
    <3>3. \A j \in 1..Len(more) : i < j => more[i].at <= more[j].at
      <4> SUFFICES ASSUME NEW j \in 1..Len(more), i < j PROVE more[i].at <= more[j].at
        OBVIOUS
      <4>1. CASE j \in 1..L
        BY <1>4, <1>8, <2>1, <4>1
      <4>2. CASE j - L \in 1..B /\ j = L + (j - L)
        <5>1. more[j].at = n
          BY <1>9, <4>2
        <5> QED BY <1>3, <3>1, <5>1
      <4> QED BY <1>4, <4>1, <4>2
    <3> QED BY <1>8, <2>1, <3>1, <3>2, <3>3
  <2>2. CASE i - L \in 1..B /\ i = L + (i - L)
    <3>1. more[i].at = n
      BY <1>9, <2>2
    <3>2. n \in 1..n
      BY <1>3
    <3>3. i - s[n] \in 1..B
      BY <1>6, <2>2
    <3>4. \A j \in 1..Len(more) : i < j => more[j].at = n
      <4> SUFFICES ASSUME NEW j \in 1..Len(more), i < j PROVE more[j].at = n
        OBVIOUS
      <4>1. j - L \in 1..B /\ j = L + (j - L)
        BY <1>1, <1>2, <1>4, <2>2 DEF L, B
      <4> QED BY <1>9, <4>1
    <3> QED BY <1>3, <3>1, <3>2, <3>3, <3>4 DEF B
  <2> QED BY <1>4, <2>1, <2>2
<1>11. Len(more) = s[n + 1]
  BY <1>4, <1>5
<1>12. Laid(more, s, n + 1)
  BY <1>3, <1>4, <1>5, <1>6, <1>7, <1>10, <1>11 DEF Laid
<1> QED BY <1>12 DEF more, s, B
(* What the instruction at position i stands for. *)
LEMMA CodeAt ==
  ASSUME ProgOK, NEW code, NEW start, Laid(code, start, NumInstrs + 1), NEW i \in 1..Len(code)
  PROVE  /\ code[i].at \in 1..NumInstrs
         /\ i - start[code[i].at] \in 1..Len(Block(code[i].at))
         /\ code[i] = Block(code[i].at)[i - start[code[i].at]]
         /\ start[code[i].at] \in Nat
<1> DEFINE m == code[i].at
           k == i - start[m]
<1>0. NumInstrs \in Nat /\ (NumInstrs + 1) - 1 = NumInstrs
  BY RegAllocAssumption
<1>1. m \in 1..NumInstrs /\ k \in 1..Len(Block(m))
  BY <1>0 DEF Laid
<1>2. code[start[m] + k] = Block(m)[k]
  BY <1>0, <1>1 DEF Laid
<1>3. start[m] \in Nat
  <2>1. m \in 1..(NumInstrs + 1)
    BY <1>0, <1>1
  <2>2. start \in [1..(NumInstrs + 1) -> Nat]
    BY DEF Laid
  <2> QED BY <2>1, <2>2
<1>4. start[m] + k = i
  BY <1>3
<1> QED BY <1>1, <1>2, <1>3, <1>4

(* The successors of an instruction of the code. *)
SuccOf(code, start, i) ==
  {j \in {i + 1} : j <= Len(code)}
  \cup IF code[i].class = "br" THEN {start[prog.instrs[code[i].at].to] + 1} ELSE {}

LEMMA BranchAt ==
  ASSUME ProgOK, NEW code, NEW start, Laid(code, start, NumInstrs + 1), NEW i \in 1..Len(code),
         code[i].class = "br"
  PROVE  prog.instrs[code[i].at].to \in 1..NumInstrs
<1> DEFINE m == code[i].at
           k == i - start[m]
<1>1. m \in 1..NumInstrs /\ k \in 1..Len(Block(m)) /\ code[i] = Block(m)[k]
  BY CodeAt
<1>2. prog.instrs[m] \in ProgInstrs
  BY <1>1 DEF ProgOK
<1> HIDE DEF m, k
<1>3. prog.instrs[m].class # "call"
  <2> SUFFICES ASSUME prog.instrs[m].class = "call" PROVE FALSE
    OBVIOUS
  <2>1. /\ Len(Block(m)) = Len(Args(m)) + 1
        /\ \A l \in 1..Len(Args(m)) : Block(m)[l] = ArgMove(m, l)
        /\ Block(m)[Len(Args(m)) + 1] = CallOf(m)
    BY <1>1, BlockFacts
  <2>2. Len(Args(m)) \in 0..MaxArgs
    BY <1>1, ArgsTyped
  <2>3. k \in 1..Len(Args(m)) \/ k = Len(Args(m)) + 1
    BY <1>1, <2>1, <2>2
  <2>4. CallOf(m).class = "call" /\ \A l : ArgMove(m, l).class = "move"
    BY InstrFields DEF CallOf, ArgMove
  <2> QED BY <1>1, <2>1, <2>3, <2>4
<1>4. Len(Block(m)) = 1 /\ Block(m)[1] = BindOf(m)
  BY <1>1, <1>3, BlockFacts
<1>5. k = 1
  BY <1>1, <1>4
<1>6. BindOf(m).class = prog.instrs[m].class
  BY InstrFields DEF BindOf
<1>7. prog.instrs[m].class = "br"
  BY <1>1, <1>4, <1>5, <1>6
<1> QED BY <1>2, <1>7, ProgInstrFacts DEF m

LEMMA SuccFacts ==
  ASSUME ProgOK, NEW code, NEW start, Laid(code, start, NumInstrs + 1), Len(instrs) = Len(code),
         \A i \in 1..Len(code) : instrs[i].at = code[i].at
                                 /\ (instrs[i].class = "br" <=> code[i].class = "br"),
         NEW i \in 1..Len(code)
  PROVE  /\ liveness_set_succ(i) = SuccOf(code, start, i)
         /\ SuccOf(code, start, i) \subseteq 1..Len(code)
<1>0. Len(code) \in Nat /\ start \in [1..(NumInstrs + 1) -> Nat] /\ NumInstrs \in Nat
      /\ (NumInstrs + 1) - 1 = NumInstrs
  BY RegAllocAssumption DEF Laid
<1>1. ASSUME code[i].class = "br"
      PROVE  /\ Target(i) = start[prog.instrs[code[i].at].to] + 1
             /\ start[prog.instrs[code[i].at].to] + 1 \in 1..Len(code)
  <2> DEFINE t == prog.instrs[code[i].at].to
             f == start[t] + 1
  <2>1. t \in 1..NumInstrs /\ instrs[i].at = code[i].at
    BY <1>1, BranchAt
  <2> HIDE DEF t
  <2>2. Len(Block(t)) >= 1 /\ Len(Block(t)) \in Nat /\ \A k \in 1..Len(Block(t)) : Block(t)[k].at = t
    BY <2>1, BlockFacts
  <2>3. f \in 1..Len(code) /\ code[f] = Block(t)[1]
    <3>1. 1 \in 1..Len(Block(t))
      BY <2>2
    <3> QED BY <1>0, <2>1, <3>1 DEF Laid
  <2>4. code[f].at = t
    BY <2>2, <2>3
  <2>5. start[t] \in Nat
    BY <1>0, <2>1
  <2>6. ASSUME NEW k \in 1..(f - 1) PROVE k \in 1..Len(code) /\ code[k].at < t
    <3>1. k \in 1..Len(code) /\ k < f
      BY <1>0, <2>3, <2>5
    <3>2. code[k].at <= t /\ code[k].at \in 1..NumInstrs
      BY <1>0, <2>3, <2>4, <3>1 DEF Laid
    <3>3. k - start[code[k].at] \in 1..Len(Block(code[k].at))
      BY <3>1, CodeAt
    <3>4. code[k].at # t
      BY <2>2, <2>5, <2>6, <3>3
    <3> QED BY <3>1, <3>2, <3>4, <2>1, <1>0
  <2> HIDE DEF f
  <2> DEFINE P(j) == instrs[j].at = t /\ \A k \in 1..(j-1) : instrs[k].at < instrs[j].at
  <2>7. P(f)
    BY <2>3, <2>4, <2>6
  <2>8. ASSUME NEW j \in 1..Len(instrs), P(j) PROVE j = f
    <3>1. instrs[j].at = t /\ instrs[f].at = t /\ t \in Nat /\ j \in Nat /\ f \in Nat
      BY <2>1, <2>3, <2>7, <2>8, <1>0
    <3>2. CASE j < f
      <4>1. j \in 1..(f - 1)
        BY <2>8, <3>1, <3>2
      <4>2. instrs[j].at < instrs[f].at
        BY <2>7, <4>1
      <4> QED BY <3>1, <4>2
    <3>3. CASE f < j
      <4>1. f \in 1..(j - 1)
        BY <2>3, <3>1, <3>3
      <4>2. instrs[f].at < instrs[j].at
        BY <2>8, <4>1
      <4> QED BY <3>1, <4>2
    <3> QED BY <3>1, <3>2, <3>3
  <2>9. Target(i) = CHOOSE j \in 1..Len(instrs) : P(j)
    BY <2>1 DEF Target, t
  <2> HIDE DEF P
  <2>10. Target(i) = f
    BY <2>3, <2>7, <2>8, <2>9
  <2> QED BY <2>3, <2>10 DEF f, t
<1>2. i + 1 <= Len(code) => i + 1 \in 1..Len(code)
  BY <1>0
<1> QED BY <1>0, <1>1, <1>2 DEF liveness_set_succ, SuccOf
-----------------------------------------------------------------------------
(* One round of liveness_update *)

RoundOut(in, i) == UNION {IF j > i THEN in[j] ELSE live[j].in : j \in liveness_set_succ(i)}

Round(in) == in = [i \in 1..Len(instrs) |-> LiveIn(i, RoundOut(in, i))]

SuccInside == Len(instrs) \in Nat /\ \A i \in 1..Len(instrs) : liveness_set_succ(i) \subseteq 1..Len(instrs)

LEMMA RoundOutSame ==
  ASSUME SuccInside, NEW f, NEW g, NEW i \in 1..Len(instrs),
         \A j \in 1..Len(instrs) : j > i => f[j] = g[j]
  PROVE  RoundOut(f, i) = RoundOut(g, i)
<1>1. \A j \in liveness_set_succ(i) : j \in 1..Len(instrs)
  BY DEF SuccInside
<1> QED BY <1>1, Zenon DEF RoundOut

(* The recursion from the last instruction to the first has a solution. *)
LEMMA RoundExists ==
  ASSUME SuccInside
  PROVE  \E in : Round(in)
<1> DEFINE L == Len(instrs)
           done(f, k) == /\ f = [i \in 1..L |-> f[i]]
                         /\ \A i \in 1..L : i > L - k => f[i] = LiveIn(i, RoundOut(f, i))
           T == {k \in Nat : k <= L => \E f : done(f, k)}
<1>0. L \in Nat
  BY DEF SuccInside
<1>1. 0 \in T
  <2> DEFINE h == [i \in 1..L |-> {}]
  <2>1. done(h, 0)
    BY <1>0
  <2> HIDE DEF done
  <2> QED BY <2>1
<1>2. ASSUME NEW k \in Nat, k \in T PROVE k + 1 \in T
  <2>1. SUFFICES ASSUME k + 1 <= L PROVE \E f : done(f, k + 1)
    OBVIOUS
  <2>2. PICK f : done(f, k)
    BY <1>0, <1>2, <2>1
  <2> DEFINE p == L - k
             h == [i \in 1..L |-> IF i = p THEN LiveIn(p, RoundOut(f, p)) ELSE f[i]]
  <2>3. /\ p \in 1..L
        /\ \A i \in 1..L : i > p => i > L - k /\ i # p
        /\ \A i \in 1..L : i > L - (k + 1) => i = p \/ i > p
    BY <1>0, <2>1
  <2>4. \A i \in 1..L : i # p => h[i] = f[i]
    OBVIOUS
  <2>5. h[p] = LiveIn(p, RoundOut(f, p))
    BY <2>3
  <2>6. h = [i \in 1..L |-> h[i]]
    OBVIOUS
  <2> HIDE DEF h, p
  <2>7. ASSUME NEW i \in 1..L, i > L - (k + 1) PROVE h[i] = LiveIn(i, RoundOut(h, i))
    <3>1. i \in Nat /\ p \in Nat /\ (i = p \/ i > p)
      BY <1>0, <2>3, <2>7
    <3>2. \A j \in 1..L : j > i => j > p /\ j # p
      BY <1>0, <3>1
    <3>3. \A j \in 1..L : j > i => h[j] = f[j]
      BY <2>4, <3>2
    <3>4. RoundOut(h, i) = RoundOut(f, i)
      BY <3>3, RoundOutSame
    <3>5. CASE i = p
      BY <2>5, <3>4, <3>5
    <3>6. CASE i > p
      BY <2>2, <2>3, <2>4, <3>4, <3>6
    <3> QED BY <3>1, <3>5, <3>6
  <2> QED BY <2>6, <2>7
<1> HIDE DEF T
<1>3. Nat \subseteq T
  BY <1>1, <1>2, NatSetInduction
<1>4. PICK f : done(f, L)
  BY <1>0, <1>3 DEF T
<1>5. \A i \in 1..L : i > L - L
  BY <1>0
<1>6. f = [i \in 1..L |-> f[i]] /\ \A i \in 1..L : f[i] = LiveIn(i, RoundOut(f, i))
  BY <1>4, <1>5
<1>7. f = [i \in 1..L |-> LiveIn(i, RoundOut(f, i))]
  <2>1. [i \in 1..L |-> f[i]] = [i \in 1..L |-> LiveIn(i, RoundOut(f, i))]
    BY <1>6
  <2> QED BY <1>6, <2>1
<1> QED BY <1>7 DEF Round

(* What a round stores. *)
RoundStored(in) ==
  /\ \A i \in 1..Len(instrs) : in[i] = LiveIn(i, RoundOut(in, i))
  /\ live' = [i \in 1..Len(instrs) |-> [in |-> in[i], out |-> RoundOut(in, i)]]
  /\ phase' = IF live' = live THEN "interference" ELSE "liveness"

LEMMA UpdateFacts ==
  ASSUME SuccInside, liveness_update
  PROVE  \E in : RoundStored(in)
<1>1. \E in : Round(in)
  BY RoundExists
<1> DEFINE F == CHOOSE in : Round(in)
<1>2. Round(F)
  BY <1>1, Zenon
<1> DEFINE new == [i \in 1..Len(instrs) |-> [in |-> F[i], out |-> RoundOut(F, i)]]
<1>3. live' = new /\ phase' = IF new = live THEN "interference" ELSE "liveness"
  BY Zenon DEF liveness_update, LiveStored, Round, RoundOut
<1> HIDE DEF F
<1>4. \A i \in 1..Len(instrs) : F[i] = LiveIn(i, RoundOut(F, i))
  <2> DEFINE f == [i \in 1..Len(instrs) |-> LiveIn(i, RoundOut(F, i))]
  <2>1. F = f
    BY <1>2, Zenon DEF Round
  <2>2. \A i \in 1..Len(instrs) : f[i] = LiveIn(i, RoundOut(F, i))
    OBVIOUS
  <2> HIDE DEF f
  <2> QED BY <2>1, <2>2
<1>5. RoundStored(F)
  BY <1>3, <1>4, Zenon DEF RoundStored
<1> QED BY <1>5
-----------------------------------------------------------------------------
(* What the rounds compute: the least sets that the equations of liveness  *)
(* allow.                                                                  *)

LEMMA DownInduction ==
  ASSUME NEW L \in Nat, NEW G,
         \A i \in 1..L : (\A j \in 1..L : j > i => j \in G) => i \in G
  PROVE  1..L \subseteq G
<1> DEFINE T == {k \in Nat : \A i \in 1..L : i > L - k => i \in G}
<1>1. 0 \in T
  <2>1. \A i \in 1..L : ~(i > L - 0)
    OBVIOUS
  <2> QED BY <2>1
<1>2. ASSUME NEW k \in Nat, k \in T PROVE k + 1 \in T
  <2> SUFFICES ASSUME NEW i \in 1..L, i > L - (k + 1) PROVE i \in G
    OBVIOUS
  <2>1. \A j \in 1..L : j > i => j > L - k
    OBVIOUS
  <2>2. \A j \in 1..L : j > i => j \in G
    BY <1>2, <2>1
  <2> QED BY <2>2
<1> HIDE DEF T
<1>3. L \in T
  BY <1>1, <1>2, NatSetInduction
<1>4. \A i \in 1..L : i > L - L
  OBVIOUS
<1> QED BY <1>3, <1>4 DEF T

(* C has the instructions that use v, and goes back over those that do not *)
(* define it.                                                              *)
Backward(code, start, v, C) ==
  \A i \in 1..Len(code) :
    /\ v \in ToSet(code[i].uses) => i \in C
    /\ v \notin ToSet(code[i].rets) /\ SuccOf(code, start, i) \cap C # {} => i \in C

LiveTyped(code, lv) == lv \in [1..Len(code) -> [in : SUBSET Values, out : SUBSET Values]]

LiveLeast(code, start, lv) ==
  \A v \in Values : \A C \in SUBSET (1..Len(code)) :
    Backward(code, start, v, C) => \A i \in 1..Len(code) : v \in lv[i].in => i \in C

LiveFixed(code, start, lv) ==
  \A i \in 1..Len(code) :
    /\ lv[i].out = UNION {lv[j].in : j \in SuccOf(code, start, i)}
    /\ lv[i].in = (lv[i].out \ ToSet(code[i].rets)) \cup ToSet(code[i].uses)

LEMMA SuccFrame ==
  ASSUME prog' = prog, NEW code, NEW start, NEW i
  PROVE  SuccOf(code, start, i)' = SuccOf(code, start, i)
BY DEF SuccOf

LEMMA ToSetTyped ==
  ASSUME NEW S, NEW s \in Seq(S)
  PROVE  /\ ToSet(s) \subseteq S
         /\ \A x : x \in ToSet(s) <=> \E i \in 1..Len(s) : x = s[i]
BY DEF ToSet

LEMMA CodeSets ==
  ASSUME NEW code \in Seq(Instrs), NEW i \in 1..Len(code)
  PROVE  ToSet(code[i].uses) \subseteq Values /\ ToSet(code[i].rets) \subseteq Values
<1>1. code[i] \in Instrs
  OBVIOUS
<1>2. code[i].uses \in Seq(Values) /\ code[i].rets \in Seq(Values)
  BY <1>1 DEF Instrs
<1> QED BY <1>2, ToSetTyped

LEMMA CodeSucc ==
  ASSUME ProgOK, NEW code, NEW start, Laid(code, start, NumInstrs + 1), instrs = code
  PROVE  /\ SuccInside /\ code \in Seq(Instrs) /\ Len(code) \in Nat
         /\ \A i \in 1..Len(code) : /\ liveness_set_succ(i) = SuccOf(code, start, i)
                                    /\ SuccOf(code, start, i) \subseteq 1..Len(code)
<1>1. \A i \in 1..Len(code) : /\ liveness_set_succ(i) = SuccOf(code, start, i)
                              /\ SuccOf(code, start, i) \subseteq 1..Len(code)
  BY SuccFacts
<1>2. code \in Seq(Instrs) /\ Len(code) \in Nat
  BY DEF Laid
<1> QED BY <1>1, <1>2 DEF SuccInside

LEMMA RoundTyped ==
  ASSUME ProgOK, NEW code, NEW start, Laid(code, start, NumInstrs + 1), instrs = code,
         LiveTyped(code, live), NEW in, RoundStored(in)
  PROVE  LiveTyped(code, live')
<1>0. /\ SuccInside /\ code \in Seq(Instrs) /\ Len(code) \in Nat
      /\ \A i \in 1..Len(code) : liveness_set_succ(i) \subseteq 1..Len(code)
  BY CodeSucc
<1> DEFINE G == {i \in 1..Len(code) : in[i] \subseteq Values}
<1>1. \A j \in 1..Len(code) : live[j].in \subseteq Values
  BY DEF LiveTyped
<1>2. ASSUME NEW i \in 1..Len(code), \A j \in 1..Len(code) : j > i => j \in G
      PROVE  RoundOut(in, i) \subseteq Values
  <2>1. \A j \in liveness_set_succ(i) : (IF j > i THEN in[j] ELSE live[j].in) \subseteq Values
    BY <1>0, <1>1, <1>2
  <2> QED BY <2>1 DEF RoundOut
<1>3. \A i \in 1..Len(code) : (\A j \in 1..Len(code) : j > i => j \in G) => i \in G
  <2> SUFFICES ASSUME NEW i \in 1..Len(code), \A j \in 1..Len(code) : j > i => j \in G
               PROVE  in[i] \subseteq Values
    OBVIOUS
  <2>1. RoundOut(in, i) \subseteq Values
    BY <1>2
  <2>2. in[i] = LiveIn(i, RoundOut(in, i))
    BY DEF RoundStored
  <2>3. ToSet(code[i].uses) \subseteq Values
    BY <1>0, CodeSets
  <2> QED BY <2>1, <2>2, <2>3 DEF LiveIn, liveness_set_gen
<1>4. 1..Len(code) \subseteq G
  <2> HIDE DEF G
  <2> QED BY <1>0, <1>3, DownInduction
<1>5. \A i \in 1..Len(code) : in[i] \in SUBSET Values /\ RoundOut(in, i) \in SUBSET Values
  BY <1>2, <1>4
<1>6. live' = [i \in 1..Len(code) |-> [in |-> in[i], out |-> RoundOut(in, i)]]
  BY DEF RoundStored
<1> QED BY <1>5, <1>6 DEF LiveTyped

LEMMA RoundLeast ==
  ASSUME ProgOK, NEW code, NEW start, Laid(code, start, NumInstrs + 1), instrs = code,
         LiveLeast(code, start, live), NEW in, RoundStored(in)
  PROVE  LiveLeast(code, start, live')
<1>0. /\ SuccInside /\ code \in Seq(Instrs) /\ Len(code) \in Nat
      /\ \A i \in 1..Len(code) : /\ liveness_set_succ(i) = SuccOf(code, start, i)
                                 /\ SuccOf(code, start, i) \subseteq 1..Len(code)
  BY CodeSucc
<1>1. SUFFICES ASSUME NEW v \in Values, NEW C \in SUBSET (1..Len(code)), Backward(code, start, v, C)
               PROVE  \A i \in 1..Len(code) : v \in live'[i].in => i \in C
  BY DEF LiveLeast
<1>2. \A j \in 1..Len(code) : v \in live[j].in => j \in C
  BY <1>1 DEF LiveLeast
<1> DEFINE G == {i \in 1..Len(code) : v \in in[i] => i \in C}
<1>3. \A i \in 1..Len(code) : (\A j \in 1..Len(code) : j > i => j \in G) => i \in G
  <2> SUFFICES ASSUME NEW i \in 1..Len(code), \A j \in 1..Len(code) : j > i => j \in G, v \in in[i]
               PROVE  i \in C
    OBVIOUS
  <2>1. in[i] = (RoundOut(in, i) \ ToSet(code[i].rets)) \cup ToSet(code[i].uses)
    BY DEF RoundStored, LiveIn, liveness_set_gen
  <2>2. CASE v \in ToSet(code[i].uses)
    BY <1>1, <2>2 DEF Backward
  <2>3. CASE v \in RoundOut(in, i) /\ v \notin ToSet(code[i].rets)
    <3>1. PICK j \in SuccOf(code, start, i) : v \in IF j > i THEN in[j] ELSE live[j].in
      BY <1>0, <2>3 DEF RoundOut
    <3>2. j \in 1..Len(code)
      BY <1>0
    <3>3. j \in C
      BY <1>2, <3>1, <3>2
    <3>4. SuccOf(code, start, i) \cap C # {}
      BY <3>3
    <3> QED BY <1>1, <2>3, <3>4 DEF Backward
  <2> QED BY <2>1, <2>2, <2>3
<1>4. 1..Len(code) \subseteq G
  <2> HIDE DEF G
  <2> QED BY <1>0, <1>3, DownInduction
<1>5. \A i \in 1..Len(code) : live'[i].in = in[i]
  BY DEF RoundStored
<1> QED BY <1>4, <1>5

LEMMA RoundFixed ==
  ASSUME ProgOK, NEW code, NEW start, Laid(code, start, NumInstrs + 1), instrs = code,
         NEW in, RoundStored(in), phase' = "interference"
  PROVE  LiveFixed(code, start, live')
<1>0. /\ SuccInside /\ code \in Seq(Instrs) /\ Len(code) \in Nat
      /\ \A i \in 1..Len(code) : /\ liveness_set_succ(i) = SuccOf(code, start, i)
                                 /\ SuccOf(code, start, i) \subseteq 1..Len(code)
  BY CodeSucc
<1>1. live' = live
  BY DEF RoundStored
<1>2. \A i \in 1..Len(code) : live'[i].in = in[i] /\ live'[i].out = RoundOut(in, i)
  BY DEF RoundStored
<1>3. \A i \in 1..Len(code) : live'[i].in = LiveIn(i, RoundOut(in, i))
  BY <1>2 DEF RoundStored
<1>4. ASSUME NEW i \in 1..Len(code)
      PROVE  RoundOut(in, i) = UNION {live'[j].in : j \in SuccOf(code, start, i)}
  <2>1. \A j \in SuccOf(code, start, i) : (IF j > i THEN in[j] ELSE live[j].in) = live'[j].in
    BY <1>0, <1>1, <1>2
  <2> QED BY <1>0, <2>1 DEF RoundOut
<1> QED BY <1>2, <1>3, <1>4 DEF LiveFixed, LiveIn, liveness_set_gen
-----------------------------------------------------------------------------
(* LivenessExact *)

(* prepare_calls has laid out code, and the rounds have computed no more   *)
(* than is live.                                                           *)
LiveOK(code, start) ==
  /\ phase = "prepare" => instrs = code /\ next \in 1..(NumInstrs + 1) /\ Laid(code, start, next)
  /\ phase \in {"liveness", "interference"} => instrs = code
  /\ phase # "prepare" => /\ Laid(code, start, NumInstrs + 1)
                          /\ LiveTyped(code, live) /\ LiveLeast(code, start, live)
  /\ phase \notin {"prepare", "liveness"} => LiveFixed(code, start, live)

LEMMA LiveFrame ==
  ASSUME prog' = prog, NEW code, NEW start
  PROVE  /\ LiveTyped(code, live)' <=> LiveTyped(code, live')
         /\ LiveLeast(code, start, live)' <=> LiveLeast(code, start, live')
         /\ LiveFixed(code, start, live)' <=> LiveFixed(code, start, live')
<1>1. \A i : SuccOf(code, start, i)' = SuccOf(code, start, i)
  BY SuccFrame
<1>2. LiveTyped(code, live)' <=> LiveTyped(code, live')
  BY DEF LiveTyped
<1>3. \A v, C : Backward(code, start, v, C)' <=> Backward(code, start, v, C)
  BY <1>1 DEF Backward
<1>4. LiveLeast(code, start, live)' <=> LiveLeast(code, start, live')
  BY <1>3 DEF LiveLeast
<1>5. LiveFixed(code, start, live)' <=> LiveFixed(code, start, live')
  BY <1>1 DEF LiveFixed
<1> QED BY <1>2, <1>4, <1>5

LEMMA LiveOKPrepared ==
  ASSUME ProgOK, NEW code, NEW start, LiveOK(code, start), NEW i \in 1..NumInstrs, prepare_calls(i),
         NEW c, NEW s, c = code \o Block(i), s = [start EXCEPT ![i + 1] = start[i] + Len(Block(i))]
  PROVE  LiveOK(c, s)'
<1>1. phase = "prepare" /\ next = i /\ next' = i + 1 /\ phase' = phase /\ prog' = prog
  BY DEF prepare_calls
<1>2. instrs' = instrs \o Block(i)
  BY DEF prepare_calls, Block
<1>3. instrs = code /\ Laid(code, start, i)
  BY <1>1 DEF LiveOK
<1>4. Laid(c, s, i + 1)
  BY <1>3, LaidMore
<1>5. i + 1 \in 1..(NumInstrs + 1)
  BY RegAllocAssumption
<1>6. Laid(c, s, i + 1)'
  BY <1>1, <1>4, LaidFrame
<1>7. Laid(c, s, next)'
  BY <1>1, <1>6
<1> QED BY <1>1, <1>2, <1>3, <1>5, <1>7 DEF LiveOK

LEMMA LiveOKKept ==
  ASSUME ProgOK, NEW code, NEW start, LiveOK(code, start), [Next]_vars,
         ~\E i \in 1..NumInstrs : prepare_calls(i)
  PROVE  LiveOK(code, start)' /\ prog' = prog
<1>1. CASE StartLiveness
  <2>1. /\ phase = "prepare" /\ phase' = "liveness" /\ prog' = prog /\ instrs' = instrs
        /\ next > NumInstrs /\ live' = [i \in 1..Len(instrs) |-> [in |-> {}, out |-> {}]]
    BY <1>1 DEF StartLiveness
  <2>2. instrs = code /\ next \in 1..(NumInstrs + 1) /\ Laid(code, start, next)
    BY <2>1 DEF LiveOK
  <2>3. next = NumInstrs + 1
    BY <2>1, <2>2, RegAllocAssumption
  <2>4. Laid(code, start, NumInstrs + 1)
    BY <2>2, <2>3
  <2>5. Laid(code, start, NumInstrs + 1)'
    BY <2>1, <2>4, LaidFrame
  <2>6. LiveTyped(code, live') /\ LiveLeast(code, start, live')
    BY <2>1, <2>2 DEF LiveTyped, LiveLeast
  <2> QED BY <2>1, <2>2, <2>5, <2>6, LiveFrame DEF LiveOK
<1>2. CASE liveness_update
  <2>1. phase = "liveness" /\ prog' = prog /\ instrs' = instrs
    BY <1>2 DEF liveness_update
  <2>2. /\ instrs = code /\ Laid(code, start, NumInstrs + 1)
        /\ LiveTyped(code, live) /\ LiveLeast(code, start, live)
    BY <2>1 DEF LiveOK
  <2>3. SuccInside
    BY <2>2, CodeSucc
  <2>4. PICK in : RoundStored(in)
    BY <1>2, <2>3, UpdateFacts
  <2>5. phase' \in {"liveness", "interference"}
    BY <2>4 DEF RoundStored
  <2>6. LiveTyped(code, live') /\ LiveLeast(code, start, live')
    BY <2>2, <2>4, RoundTyped, RoundLeast
  <2>7. phase' = "interference" => LiveFixed(code, start, live')
    BY <2>2, <2>4, RoundFixed
  <2>8. Laid(code, start, NumInstrs + 1)'
    BY <2>1, <2>2, LaidFrame
  <2> QED BY <2>1, <2>2, <2>5, <2>6, <2>7, <2>8, LiveFrame DEF LiveOK
<1>3. CASE \/ UNCHANGED vars
           \/ /\ phase \notin {"prepare", "liveness"} /\ phase' \notin {"prepare", "liveness", "interference"}
              /\ UNCHANGED <<prog, live>>
  <2>1. prog' = prog /\ live' = live
    BY <1>3 DEF vars
  <2>2. /\ \A n : Laid(code, start, n)' <=> Laid(code, start, n)
        /\ LiveTyped(code, live)' <=> LiveTyped(code, live)
        /\ LiveLeast(code, start, live)' <=> LiveLeast(code, start, live)
        /\ LiveFixed(code, start, live)' <=> LiveFixed(code, start, live)
    BY <2>1, LaidFrame, LiveFrame
  <2>3. CASE UNCHANGED vars
    <3>1. instrs' = instrs /\ next' = next /\ phase' = phase
      BY <2>3 DEF vars
    <3>2. Laid(code, start, next)' <=> Laid(code, start, next)
      <4>1. \A m : Block(m)' = Block(m)
        BY <2>1, BlockFrame
      <4> QED BY <3>1, <4>1 DEF Laid
    <3> QED BY <2>1, <2>2, <3>1, <3>2 DEF LiveOK
  <2>4. CASE /\ phase \notin {"prepare", "liveness"} /\ phase' \notin {"prepare", "liveness", "interference"}
             /\ UNCHANGED <<prog, live>>
    BY <2>1, <2>2, <2>4 DEF LiveOK
  <2> QED BY <1>3, <2>3, <2>4
<1>4. CASE Interfere \/ CoalesceDone \/ AssignNarrow \/ AssignWide \/ finalize_call_args
  BY <1>3, <1>4 DEF Interfere, CoalesceDone, AssignNarrow, AssignWide, finalize_call_args, analysis
<1>5. CASE \E i \in 1..Len(instrs) : Merge(i) \/ DestroyMove(i) \/ Keep(i)
  BY <1>3, <1>5 DEF Merge, DestroyMove, Keep, Visit, analysis
<1>6. CASE \E v \in Temps : ColorNext(v)
  BY <1>3, <1>6 DEF ColorNext, analysis
<1>7. CASE \E i \in 1..Len(instrs) : ExecDefine(i) \/ ExecMove(i) \/ ExecDestroyed(i) \/ ExecUse(i)
  BY <1>3, <1>7 DEF ExecDefine, ExecMove, ExecDestroyed, ExecUse, Executes, analysis
<1> QED BY <1>1, <1>2, <1>3, <1>4, <1>5, <1>6, <1>7 DEF Next

LiveInv == ProgOK /\ \E code, start : LiveOK(code, start)

LEMMA LiveInit ==
  ASSUME Init
  PROVE  LiveOK(<<>>, [m \in 1..(NumInstrs + 1) |-> 0])
<1>1. phase = "prepare" /\ instrs = <<>> /\ next = 1 /\ 1 \in 1..(NumInstrs + 1)
  BY RegAllocAssumption DEF Init
<1> QED BY <1>1, LaidNothing DEF LiveOK

LEMMA LiveAlways == Spec => []LiveInv
<1>1. Init => LiveInv
  <2> SUFFICES ASSUME Init PROVE LiveInv
    OBVIOUS
  <2>1. ProgOK
    BY AllocInitOK DEF AllocInv
  <2> QED BY <2>1, LiveInit DEF LiveInv
<1>2. LiveInv /\ AllocInv' /\ [Next]_vars => LiveInv'
  <2> SUFFICES ASSUME LiveInv, AllocInv', [Next]_vars PROVE LiveInv'
    OBVIOUS
  <2>1. ProgOK /\ ProgOK'
    BY DEF LiveInv, AllocInv
  <2>2. PICK code, start : LiveOK(code, start)
    BY DEF LiveInv
  <2>3. CASE \E i \in 1..NumInstrs : prepare_calls(i)
    <3>1. PICK i \in 1..NumInstrs : prepare_calls(i)
      BY <2>3
    <3>2. PICK c, s : c = code \o Block(i) /\ s = [start EXCEPT ![i + 1] = start[i] + Len(Block(i))]
      OBVIOUS
    <3>3. LiveOK(c, s)'
      BY <2>1, <2>2, <3>1, <3>2, LiveOKPrepared
    <3> QED BY <2>1, <3>3 DEF LiveInv
  <2>4. CASE ~\E i \in 1..NumInstrs : prepare_calls(i)
    BY <2>1, <2>2, <2>4, LiveOKKept DEF LiveInv
  <2> QED BY <2>3, <2>4
<1> QED BY <1>1, <1>2, AllocAlways, PTL DEF Spec

LEMMA WantingLeast ==
  ASSUME ProgOK, NEW code, NEW start, Laid(code, start, NumInstrs + 1), instrs = code, NEW v \in Values
  PROVE  /\ Wanting(v) \subseteq 1..Len(code) /\ Backward(code, start, v, Wanting(v))
         /\ \A C \in SUBSET (1..Len(code)) : Backward(code, start, v, C) => Wanting(v) \subseteq C
<1>0. /\ code \in Seq(Instrs) /\ Len(code) \in Nat
      /\ \A i \in 1..Len(code) : /\ liveness_set_succ(i) = SuccOf(code, start, i)
                                 /\ SuccOf(code, start, i) \subseteq 1..Len(code)
  BY CodeSucc
<1> DEFINE I == 1..Len(code)
           S == {i \in I : v \in ToSet(code[i].uses)}
           E == [j \in I |-> {i \in I : v \notin ToSet(code[i].rets) /\ j \in liveness_set_succ(i)}]
<1>1. Wanting(v) = Found(S, E, Len(code))
  BY DEF Wanting
<1>2. S \in SUBSET I /\ E \in [I -> SUBSET I]
  OBVIOUS
<1>3. \A j \in I : E[j] = {i \in I : v \notin ToSet(code[i].rets) /\ j \in SuccOf(code, start, i)}
  BY <1>0
<1> HIDE DEF E
<1>4. /\ S \subseteq Found(S, E, Len(code)) /\ Found(S, E, Len(code)) \subseteq 1..Len(code)
      /\ \A i \in Found(S, E, Len(code)) : E[i] \subseteq Found(S, E, Len(code))
      /\ \A C \in SUBSET (1..Len(code)) :
           S \subseteq C /\ (\A i \in C : E[i] \subseteq C) => Found(S, E, Len(code)) \subseteq C
  BY <1>0, <1>2, FoundFacts
<1> DEFINE W == Found(S, E, Len(code))
<1> HIDE DEF W
<1>5. /\ S \subseteq W /\ W \subseteq I /\ \A i \in W : E[i] \subseteq W
      /\ \A C \in SUBSET I : S \subseteq C /\ (\A i \in C : E[i] \subseteq C) => W \subseteq C
  BY <1>4 DEF W
<1>6. Backward(code, start, v, W)
  <2> SUFFICES ASSUME NEW i \in I
               PROVE  /\ v \in ToSet(code[i].uses) => i \in W
                      /\ v \notin ToSet(code[i].rets) /\ SuccOf(code, start, i) \cap W # {} => i \in W
    BY DEF Backward
  <2>1. v \in ToSet(code[i].uses) => i \in W
    BY <1>5
  <2>2. ASSUME v \notin ToSet(code[i].rets), NEW j \in SuccOf(code, start, i), j \in W PROVE i \in W
    BY <1>3, <1>5, <2>2
  <2> QED BY <2>1, <2>2
<1>7. ASSUME NEW C \in SUBSET I, Backward(code, start, v, C) PROVE W \subseteq C
  <2>1. S \subseteq C
    BY <1>7 DEF Backward
  <2>2. ASSUME NEW j \in C, NEW i \in E[j] PROVE i \in C
    <3>1. i \in I /\ v \notin ToSet(code[i].rets) /\ SuccOf(code, start, i) \cap C # {}
      BY <1>3, <2>2
    <3> QED BY <1>7, <3>1 DEF Backward
  <2> QED BY <1>5, <2>1, <2>2
<1> QED BY <1>1, <1>5, <1>6, <1>7 DEF W

(* For every function, when the rounds of liveness_update end, a value is  *)
(* live after an instruction exactly if some way from there uses it before *)
(* it is defined again.                                                    *)
THEOREM LivenessRight == Spec => []LivenessExact
<1>1. LiveInv => LivenessExact
  <2>1. SUFFICES ASSUME LiveInv, phase = "interference", NEW v \in Values, NEW i \in 1..Len(instrs)
                 PROVE  v \in live[i].out <=> liveness_set_succ(i) \cap Wanting(v) # {}
    BY DEF LivenessExact
  <2>2. ProgOK
    BY <2>1 DEF LiveInv
  <2>3. PICK code, start : LiveOK(code, start)
    BY <2>1 DEF LiveInv
  <2>4. /\ instrs = code /\ Laid(code, start, NumInstrs + 1)
        /\ LiveLeast(code, start, live) /\ LiveFixed(code, start, live)
    BY <2>1, <2>3 DEF LiveOK
  <2>5. /\ \A j \in 1..Len(code) : /\ liveness_set_succ(j) = SuccOf(code, start, j)
                                   /\ SuccOf(code, start, j) \subseteq 1..Len(code)
    BY <2>2, <2>4, CodeSucc
  <2> DEFINE W == Wanting(v)
  <2>6. /\ W \subseteq 1..Len(code) /\ Backward(code, start, v, W)
        /\ \A C \in SUBSET (1..Len(code)) : Backward(code, start, v, C) => W \subseteq C
    BY <2>2, <2>4, WantingLeast
  <2> HIDE DEF W
  <2>7. \A j \in 1..Len(code) : v \in live[j].in => j \in W
    BY <2>4, <2>6 DEF LiveLeast
  <2>8. \A j \in 1..Len(code) : j \in W => v \in live[j].in
    <3> DEFINE C == {j \in 1..Len(code) : v \in live[j].in}
    <3>1. ASSUME NEW j \in 1..Len(code)
          PROVE  /\ v \in ToSet(code[j].uses) => j \in C
                 /\ v \notin ToSet(code[j].rets) /\ SuccOf(code, start, j) \cap C # {} => j \in C
      <4>1. /\ live[j].out = UNION {live[k].in : k \in SuccOf(code, start, j)}
            /\ live[j].in = (live[j].out \ ToSet(code[j].rets)) \cup ToSet(code[j].uses)
        BY <2>4 DEF LiveFixed
      <4>2. SuccOf(code, start, j) \cap C # {} => v \in live[j].out
        BY <4>1
      <4> QED BY <4>1, <4>2
    <3>2. Backward(code, start, v, C)
      BY <3>1 DEF Backward
    <3> QED BY <2>6, <3>2
  <2>9. live[i].out = UNION {live[k].in : k \in SuccOf(code, start, i)}
    BY <2>4 DEF LiveFixed
  <2>10. v \in live[i].out <=> \E k \in SuccOf(code, start, i) : v \in live[k].in
    BY <2>9
  <2>11. v \in live[i].out <=> \E k \in SuccOf(code, start, i) : k \in W
    BY <2>4, <2>5, <2>7, <2>8, <2>10
  <2>12. v \in live[i].out <=> liveness_set_succ(i) \cap W # {}
    BY <2>4, <2>5, <2>11
  <2> QED BY <2>12 DEF W
<1> QED BY <1>1, LiveAlways, PTL

-----------------------------------------------------------------------------
(* What holds of the function for good *)

ProgGood ==
  /\ ProgOK
  /\ Used(prog.instrs) \subseteq Defined(prog.instrs)
  /\ prog.wide \subseteq Defined(prog.instrs)
  /\ \A m \in 1..NumInstrs :
       /\ prog.instrs[m].class = "move" =>
            (prog.instrs[m].ret \in prog.wide <=> prog.instrs[m].uses[1] \in prog.wide)
       /\ \A v \in ToSet(prog.instrs[m].uses) :
            m \notin Reached(prog.instrs, {1}, Defs(prog.instrs, v))

LEMMA ProgGoodInit == Init => ProgGood
<1> SUFFICES ASSUME Init PROVE ProgGood
  OBVIOUS
<1>0. ProgOK
  BY AllocInitOK DEF AllocInv
<1>1. PICK p, wide :
        /\ WellFormed(p) /\ wide \subseteq Defined(p)
        /\ \A i \in 1..NumInstrs : p[i].class = "move" => (p[i].ret \in wide <=> p[i].uses[1] \in wide)
        /\ prog = [instrs |-> p, wide |-> wide]
  BY Zenon DEF Init
<1>2. prog.instrs = p /\ prog.wide = wide
  BY <1>1
<1>3. ASSUME NEW m \in 1..NumInstrs, NEW v \in ToSet(p[m].uses) PROVE m \notin Reached(p, {1}, Defs(p, v))
  <2>1. p[m].uses \in Seq(Temps) /\ Len(p) = NumInstrs
    BY <1>0, <1>2, ProgInstrFacts DEF ProgOK
  <2>2. v \in Temps
    BY <2>1, ToSetTyped
  <2> QED BY <1>1, <2>1, <2>2 DEF WellFormed
<1>4. Used(p) \subseteq Defined(p)
  BY <1>1 DEF WellFormed
<1> QED BY <1>0, <1>1, <1>2, <1>3, <1>4 DEF ProgGood

LEMMA ProgNever == [Next]_vars => prog' = prog
<1> SUFFICES ASSUME [Next]_vars PROVE prog' = prog
  OBVIOUS
<1>1. CASE \E i \in 1..NumInstrs : prepare_calls(i)
  BY <1>1 DEF prepare_calls
<1>2. CASE \E i \in 1..Len(instrs) : Merge(i) \/ DestroyMove(i) \/ Keep(i)
  BY <1>2 DEF Merge, DestroyMove, Keep, analysis
<1>3. CASE \E v \in Temps : ColorNext(v)
  BY <1>3 DEF ColorNext, analysis
<1>4. CASE \E i \in 1..Len(instrs) : ExecDefine(i) \/ ExecMove(i) \/ ExecDestroyed(i) \/ ExecUse(i)
  BY <1>4 DEF ExecDefine, ExecMove, ExecDestroyed, ExecUse, analysis
<1> QED BY <1>1, <1>2, <1>3, <1>4
  DEF Next, StartLiveness, liveness_update, Interfere, CoalesceDone, AssignNarrow, AssignWide,
      finalize_call_args, analysis, vars

LEMMA ProgGoodKept == ProgGood /\ [Next]_vars => ProgGood'
BY ProgNever DEF ProgGood, ProgOK

(* The temporaries an instruction of the function names. *)
LEMMA ProgNames ==
  ASSUME ProgGood, NEW m \in 1..NumInstrs
  PROVE  /\ prog.instrs[m] \in ProgInstrs
         /\ \A u \in ToSet(prog.instrs[m].uses) : u \in Temps /\ u \in Defined(prog.instrs)
         /\ \A k \in 1..Len(prog.instrs[m].uses) : prog.instrs[m].uses[k] \in ToSet(prog.instrs[m].uses)
         /\ prog.instrs[m].ret # 0 => /\ prog.instrs[m].ret \in Temps
                                      /\ prog.instrs[m].ret \in Defined(prog.instrs)
<1>1. prog.instrs[m] \in ProgInstrs /\ Len(prog.instrs) = NumInstrs
      /\ Used(prog.instrs) \subseteq Defined(prog.instrs)
  BY DEF ProgGood, ProgOK
<1>2. prog.instrs[m].uses \in Seq(Temps) /\ prog.instrs[m].ret \in 0..NumTemps
  BY <1>1, ProgInstrFacts
<1>3. \A u \in ToSet(prog.instrs[m].uses) : u \in Temps
  BY <1>2, ToSetTyped
<1>4. \A u \in ToSet(prog.instrs[m].uses) : u \in Used(prog.instrs)
  BY <1>1 DEF Used
<1>5. \A k \in 1..Len(prog.instrs[m].uses) : prog.instrs[m].uses[k] \in ToSet(prog.instrs[m].uses)
  BY <1>2, ToSetTyped
<1>6. prog.instrs[m].ret # 0 => prog.instrs[m].ret \in Temps
  BY <1>2, RegAllocAssumption DEF Temps
<1>7. prog.instrs[m].ret # 0 => prog.instrs[m].ret \in Defined(prog.instrs)
  BY <1>1 DEF Defined
<1> QED BY <1>1, <1>3, <1>4, <1>5, <1>6, <1>7

LEMMA DefinedTemps ==
  ASSUME ProgGood
  PROVE  Defined(prog.instrs) \subseteq Temps /\ prog.wide \subseteq Temps
<1>1. ASSUME NEW v \in Defined(prog.instrs) PROVE v \in Temps
  <2>1. PICK m \in 1..NumInstrs : v = prog.instrs[m].ret /\ v # 0
    BY DEF Defined, ProgGood, ProgOK
  <2> QED BY <2>1, ProgNames
<1> QED BY <1>1 DEF ProgGood

(* Slots of the arguments of a call. *)
LEMMA SlotsNext ==
  ASSUME NEW args \in Seq(Temps), NEW k \in 1..Len(args)
  PROVE  /\ SlotsBefore(args, k) \in Nat /\ SlotsBefore(args, k + 1) \in Nat
         /\ SlotsBefore(args, k + 1) = SlotsBefore(args, k) + value_regframe_slots(args[k])
<1> DEFINE W(l) == {j \in 1..(l-1) : value_regframe_slots(args[j]) = 2}
<1>0. k \in Nat /\ (k + 1) - 1 = k /\ Len(args) \in Nat
  OBVIOUS
<1>1. \A j : j \in 1..k <=> j \in 1..(k - 1) \/ j = k
  BY <1>0
<1>2. W(k + 1) = IF value_regframe_slots(args[k]) = 2 THEN W(k) \cup {k} ELSE W(k)
  BY <1>0, <1>1
<1>3. IsFiniteSet(W(k)) /\ k \notin W(k)
  <2>1. 1 \in Int /\ k - 1 \in Int
    BY <1>0
  <2>2. IsFiniteSet(1..(k-1))
    BY <2>1, FS_Interval
  <2>3. W(k) \subseteq 1..(k-1) /\ k \notin 1..(k-1)
    BY <1>0
  <2> HIDE DEF W
  <2> QED BY <2>2, <2>3, FS_Subset
<1>4. SlotsBefore(args, k) = k - 1 + Cardinality(W(k)) /\ SlotsBefore(args, k + 1) = k + Cardinality(W(k + 1))
  BY <1>0 DEF SlotsBefore
<1> HIDE DEF W
<1>5. Cardinality(W(k)) \in Nat
  BY <1>3, FS_CardinalityType
<1>6. Cardinality(W(k) \cup {k}) = Cardinality(W(k)) + 1
  BY <1>3, FS_AddElement
<1>7. value_regframe_slots(args[k]) = 2 \/ value_regframe_slots(args[k]) = 1
  BY DEF value_regframe_slots
<1> QED BY <1>0, <1>2, <1>4, <1>5, <1>6, <1>7

LEMMA SlotsMore ==
  ASSUME NEW args \in Seq(Temps), NEW k \in 1..(Len(args) + 1), NEW l \in 1..(Len(args) + 1), k <= l
  PROVE  SlotsBefore(args, k) <= SlotsBefore(args, l)
<1> DEFINE W(n) == {j \in 1..(n-1) : value_regframe_slots(args[j]) = 2}
<1>0. k \in Nat /\ l \in Nat
  OBVIOUS
<1>1. W(k) \subseteq W(l)
  BY <1>0
<1>2. IsFiniteSet(W(l))
  <2>1. 1 \in Int /\ l - 1 \in Int
    BY <1>0
  <2>2. IsFiniteSet(1..(l-1))
    BY <2>1, FS_Interval
  <2>3. W(l) \subseteq 1..(l-1)
    BY <1>0
  <2> HIDE DEF W
  <2> QED BY <2>2, <2>3, FS_Subset
<1>3. SlotsBefore(args, k) = k - 1 + Cardinality(W(k)) /\ SlotsBefore(args, l) = l - 1 + Cardinality(W(l))
  BY DEF SlotsBefore
<1> HIDE DEF W
<1>4. IsFiniteSet(W(k)) /\ Cardinality(W(k)) <= Cardinality(W(l))
  BY <1>1, <1>2, FS_Subset
<1>5. Cardinality(W(k)) \in Nat /\ Cardinality(W(l)) \in Nat
  BY <1>2, <1>4, FS_CardinalityType
<1> QED BY <1>0, <1>3, <1>4, <1>5
-----------------------------------------------------------------------------
(* What the instructions of the code are *)

ArgAt(code, start, i) ==
  LET m == code[i].at
      k == i - start[m]
  IN  prog.instrs[m].class = "call" /\ k \in 1..Len(Args(m)) /\ code[i] = ArgMove(m, k)

CallAt(code, start, i) ==
  LET m == code[i].at
  IN  prog.instrs[m].class = "call" /\ i - start[m] = Len(Args(m)) + 1 /\ code[i] = CallOf(m)

BindAt(code, start, i) ==
  LET m == code[i].at
  IN  prog.instrs[m].class # "call" /\ i - start[m] = 1 /\ code[i] = BindOf(m)

LEMMA Kinds ==
  ASSUME ProgOK, NEW code, NEW start, Laid(code, start, NumInstrs + 1), NEW i \in 1..Len(code)
  PROVE  ArgAt(code, start, i) \/ CallAt(code, start, i) \/ BindAt(code, start, i)
<1> DEFINE m == code[i].at
           k == i - start[m]
<1>1. m \in 1..NumInstrs /\ k \in 1..Len(Block(m)) /\ code[i] = Block(m)[k]
  BY CodeAt
<1>2. CASE prog.instrs[m].class = "call"
  <2>1. /\ Len(Block(m)) = Len(Args(m)) + 1
        /\ \A l \in 1..Len(Args(m)) : Block(m)[l] = ArgMove(m, l)
        /\ Block(m)[Len(Args(m)) + 1] = CallOf(m)
    BY <1>1, <1>2, BlockFacts
  <2>2. Len(Args(m)) \in 0..MaxArgs
    BY <1>1, <1>2, ArgsTyped
  <2> HIDE DEF m, k
  <2>3. k \in 1..Len(Args(m)) \/ k = Len(Args(m)) + 1
    BY <1>1, <2>1, <2>2
  <2>4. \/ k \in 1..Len(Args(m)) /\ code[i] = ArgMove(m, k)
        \/ k = Len(Args(m)) + 1 /\ code[i] = CallOf(m)
    BY <1>1, <2>1, <2>3
  <2> QED BY <1>2, <2>4 DEF ArgAt, CallAt, m, k
<1>3. CASE prog.instrs[m].class # "call"
  <2>1. Len(Block(m)) = 1 /\ Block(m)[1] = BindOf(m)
    BY <1>1, <1>3, BlockFacts
  <2>2. k = 1
    BY <1>1, <2>1
  <2> HIDE DEF m, k
  <2>3. code[i] = BindOf(m)
    BY <1>1, <2>1, <2>2
  <2> QED BY <1>3, <2>2, <2>3 DEF BindAt, m, k
<1> QED BY <1>2, <1>3

LEMMA ArgFacts ==
  ASSUME ProgGood, NEW m \in 1..NumInstrs, prog.instrs[m].class = "call",
         NEW k \in 1..Len(Args(m)), NEW v, v = Args(m)[k], NEW s, s = SlotsBefore(Args(m), k)
  PROVE  /\ Args(m) \in Seq(Temps) /\ Len(Args(m)) \in 0..MaxArgs
         /\ v \in Temps /\ v \in Defined(prog.instrs) /\ v \in ToSet(prog.instrs[m].uses)
         /\ s \in Nat /\ call_arg_base + s \in Values /\ call_arg_base + s + 1 \in Values
         /\ SlotsBefore(Args(m), k + 1) = s + value_regframe_slots(v)
         /\ ArgMove(m, k).class = "move" /\ ArgMove(m, k).uses = <<v>> /\ ArgMove(m, k).of = <<v>>
         /\ v \in prog.wide => ArgMove(m, k).rets = <<call_arg_base + s + 1, call_arg_base + s>>
         /\ v \notin prog.wide => ArgMove(m, k).rets = <<call_arg_base + s>>
<1>1. Args(m) \in Seq(Temps) /\ Len(Args(m)) \in 0..MaxArgs
  BY ArgsTyped DEF ProgGood
<1>2. v \in Temps
  BY <1>1
<1>3. v \in ToSet(prog.instrs[m].uses)
  <2> DEFINE c == prog.instrs[m]
  <2>1. c \in ProgInstrs /\ c.uses \in Seq(Temps) /\ c.to \in {0, 1} /\ Len(c.uses) - c.to \in 0..MaxArgs
    BY ProgInstrFacts DEF ProgGood, ProgOK
  <2>2. Args(m) = SubSeq(c.uses, 1, Len(c.uses) - c.to)
    BY DEF Args
  <2> HIDE DEF c
  <2>3. Len(c.uses) \in Nat /\ Len(c.uses) - c.to \in 0..Len(c.uses)
    BY <2>1
  <2>4. Len(Args(m)) = Len(c.uses) - c.to /\ \A j \in 1..(Len(c.uses) - c.to) : Args(m)[j] = c.uses[j]
    BY <2>1, <2>2, <2>3
  <2>5. k \in 1..Len(c.uses) /\ v = c.uses[k]
    BY <2>3, <2>4
  <2>6. v \in ToSet(c.uses)
    BY <2>1, <2>5, ToSetTyped
  <2> QED BY <2>6 DEF c
<1>4. v \in Defined(prog.instrs)
  BY <1>3, ProgNames
<1>5. s \in Nat /\ SlotsBefore(Args(m), k + 1) = s + value_regframe_slots(v)
  BY <1>1, SlotsNext
<1>6. call_arg_base + s \in Values /\ call_arg_base + s + 1 \in Values
  <2>1. Len(Args(m)) <= MaxArgs
    BY <1>1, RegAllocAssumption
  <2>2. ArgValue(Args(m), k) \in Values /\ ArgValue(Args(m), k) + 1 \in Values
    BY <1>1, <2>1, ArgValueTyped
  <2> QED BY <2>2 DEF ArgValue
<1>7. ArgMove(m, k) = Instr("move", IF v \in prog.wide THEN <<call_arg_base + s + 1, call_arg_base + s>>
                                                       ELSE <<call_arg_base + s>>, <<v>>, <<v>>, m)
  BY DEF ArgMove, ArgValue, value_regframe_slots
<1> QED BY <1>1, <1>2, <1>3, <1>4, <1>5, <1>6, <1>7, InstrFields

LEMMA SubSeqRest ==
  ASSUME NEW S, NEW s \in Seq(S), NEW a \in 0..Len(s)
  PROVE  /\ Len(SubSeq(s, a + 1, Len(s))) = Len(s) - a
         /\ \A k \in 1..(Len(s) - a) : SubSeq(s, a + 1, Len(s))[k] = s[a + k] /\ a + k \in 1..Len(s)
<1>1. Len(s) \in Nat /\ a \in Nat /\ a <= Len(s)
  OBVIOUS
<1>2. Len(SubSeq(s, a + 1, Len(s))) = Len(s) - a
  BY <1>1
<1>3. ASSUME NEW k \in 1..(Len(s) - a) PROVE SubSeq(s, a + 1, Len(s))[k] = s[a + k] /\ a + k \in 1..Len(s)
  <2>1. k \in 1..(Len(s) - (a + 1) + 1) /\ a + k \in 1..Len(s) /\ a + k = (a + 1) + k - 1
    BY <1>1
  <2> QED BY <1>1, <2>1
<1> QED BY <1>2, <1>3

LEMMA CallFacts ==
  ASSUME ProgGood, NEW m \in 1..NumInstrs, prog.instrs[m].class = "call"
  PROVE  /\ Args(m) \in Seq(Temps) /\ Len(Args(m)) \in Nat
         /\ CallOf(m).class = "call" /\ CallOf(m).rets = Ret(m) /\ CallOf(m).of = Callee(m)
         /\ CallOf(m).uses \in Seq(Values) /\ Len(CallOf(m).uses) = Len(Args(m)) + Len(Callee(m))
         /\ \A k \in 1..Len(Args(m)) : CallOf(m).uses[k] = ArgValue(Args(m), k)
                                       /\ ArgValue(Args(m), k) \notin Temps
         /\ Len(Callee(m)) \in Nat
         /\ \A k \in 1..Len(Callee(m)) :
              /\ Callee(m)[k] \in ToSet(prog.instrs[m].uses) /\ Len(Args(m)) + k \in 1..Len(CallOf(m).uses)
              /\ CallOf(m).uses[Len(Args(m)) + k] = Callee(m)[k]
<1> DEFINE c == prog.instrs[m]
           slots == [k \in 1..Len(Args(m)) |-> ArgValue(Args(m), k)]
<1>1. Args(m) \in Seq(Temps) /\ Len(Args(m)) \in 0..MaxArgs /\ Callee(m) \in Seq(Temps)
  BY ArgsTyped DEF ProgGood, Callee
<1>2. c \in ProgInstrs /\ c.uses \in Seq(Temps) /\ c.to \in {0, 1} /\ Len(c.uses) - c.to \in 0..MaxArgs
  BY ProgInstrFacts DEF ProgGood, ProgOK
<1>3. Args(m) = SubSeq(c.uses, 1, Len(c.uses) - c.to) /\ Callee(m) = SubSeq(c.uses, Len(Args(m)) + 1, Len(c.uses))
  BY DEF Args, Callee
<1> HIDE DEF c
<1>4. Len(c.uses) \in Nat /\ Len(c.uses) - c.to \in 0..Len(c.uses)
  BY <1>2
<1>5. Len(Args(m)) = Len(c.uses) - c.to
  BY <1>2, <1>3, <1>4
<1>6. /\ Len(Callee(m)) = c.to
      /\ \A k \in 1..c.to : Callee(m)[k] = c.uses[Len(Args(m)) + k] /\ Len(Args(m)) + k \in 1..Len(c.uses)
  <2>1. Len(Args(m)) \in 0..Len(c.uses) /\ Len(c.uses) - Len(Args(m)) = c.to
    BY <1>2, <1>4, <1>5
  <2>2. /\ Len(SubSeq(c.uses, Len(Args(m)) + 1, Len(c.uses))) = Len(c.uses) - Len(Args(m))
        /\ \A k \in 1..(Len(c.uses) - Len(Args(m))) :
             /\ SubSeq(c.uses, Len(Args(m)) + 1, Len(c.uses))[k] = c.uses[Len(Args(m)) + k]
             /\ Len(Args(m)) + k \in 1..Len(c.uses)
    BY <1>2, <2>1, SubSeqRest
  <2> QED BY <1>3, <2>1, <2>2
<1>7. \A k \in 1..Len(Callee(m)) : Callee(m)[k] \in ToSet(c.uses)
  BY <1>2, <1>6, ToSetTyped
<1>8. /\ CallOf(m).class = "call" /\ CallOf(m).rets = Ret(m) /\ CallOf(m).of = Callee(m)
      /\ CallOf(m).uses = slots \o Callee(m)
  <2>1. CallOf(m) = Instr("call", Ret(m), slots \o Callee(m), Callee(m), m)
    BY DEF CallOf
  <2> DEFINE u == slots \o Callee(m)
  <2>2. CallOf(m) = Instr("call", Ret(m), u, Callee(m), m)
    BY <2>1
  <2> HIDE DEF u
  <2>3. /\ CallOf(m).class = "call" /\ CallOf(m).rets = Ret(m) /\ CallOf(m).of = Callee(m)
        /\ CallOf(m).uses = u
    BY <2>2, InstrFields
  <2> QED BY <2>3 DEF u
<1>9. \A k \in 1..Len(Args(m)) : ArgValue(Args(m), k) \in Values /\ ArgValue(Args(m), k) \notin Temps
  <2> SUFFICES ASSUME NEW k \in 1..Len(Args(m))
               PROVE  ArgValue(Args(m), k) \in Values /\ ArgValue(Args(m), k) \notin Temps
    OBVIOUS
  <2>1. Len(Args(m)) <= MaxArgs
    BY <1>1, RegAllocAssumption
  <2>2. ArgValue(Args(m), k) \in Values /\ SlotsBefore(Args(m), k) \in Nat
    BY <1>1, <2>1, ArgValueTyped, SlotsNext
  <2> QED BY <2>2, RegAllocAssumption DEF ArgValue, call_arg_base, Temps
<1>10. slots \in Seq(Values) /\ Len(slots) = Len(Args(m)) /\ \A k \in 1..Len(Args(m)) : slots[k] = ArgValue(Args(m), k)
  BY <1>1, <1>9
<1>11. Callee(m) \in Seq(Values)
  BY <1>1, TempsInValues
<1> HIDE DEF slots
<1>12. /\ CallOf(m).uses \in Seq(Values) /\ Len(CallOf(m).uses) = Len(slots) + Len(Callee(m))
       /\ \A k \in 1..Len(slots) : CallOf(m).uses[k] = slots[k]
       /\ \A k \in 1..Len(Callee(m)) : /\ CallOf(m).uses[Len(slots) + k] = Callee(m)[k]
                                       /\ Len(slots) + k \in 1..(Len(slots) + Len(Callee(m)))
  <2>1. /\ slots \o Callee(m) \in Seq(Values) /\ Len(slots \o Callee(m)) = Len(slots) + Len(Callee(m))
        /\ \A k \in 1..Len(slots) : (slots \o Callee(m))[k] = slots[k]
        /\ \A k \in 1..Len(Callee(m)) : /\ (slots \o Callee(m))[Len(slots) + k] = Callee(m)[k]
                                        /\ Len(slots) + k \in 1..(Len(slots) + Len(Callee(m)))
    BY <1>10, <1>11, ConcatFacts
  <2> QED BY <1>8, <2>1
<1>13. Len(Args(m)) \in Nat /\ Len(Callee(m)) \in Nat
  BY <1>1
<1> QED BY <1>1, <1>7, <1>8, <1>9, <1>10, <1>12, <1>13 DEF c

LEMMA BindFacts ==
  ASSUME ProgGood, NEW m \in 1..NumInstrs
  PROVE  /\ BindOf(m).class = prog.instrs[m].class /\ BindOf(m).rets = Ret(m)
         /\ BindOf(m).uses = prog.instrs[m].uses /\ BindOf(m).of = prog.instrs[m].uses
         /\ prog.instrs[m].class \in {"op", "move", "call", "br"} /\ prog.instrs[m].uses \in Seq(Temps)
<1>1. prog.instrs[m] \in ProgInstrs
  BY DEF ProgGood, ProgOK
<1> QED BY <1>1, InstrFields, ProgInstrFacts DEF BindOf

(* The temporaries of an instruction are those of the one it stands for. *)
LEMMA CodeNames ==
  ASSUME ProgGood, NEW code, NEW start, Laid(code, start, NumInstrs + 1), NEW i \in 1..Len(code)
  PROVE  /\ \A x \in ToSet(code[i].uses) :
              x \in Temps => x \in ToSet(prog.instrs[code[i].at].uses) /\ x \in Defined(prog.instrs)
         /\ \A x \in ToSet(code[i].rets) : x \in Temps => x \in Defined(prog.instrs)
<1> DEFINE m == code[i].at
           k == i - start[m]
<1>1. m \in 1..NumInstrs
  BY CodeAt DEF ProgGood
<1>2. ASSUME NEW v PROVE ToSet(<<v>>) = {v}
  BY DEF ToSet
<1>3. ToSet(<<>>) = {}
  BY DEF ToSet
<1>4. \A x \in ToSet(Ret(m)) : x \in Defined(prog.instrs)
  BY <1>1, <1>2, <1>3, ProgNames DEF Ret
<1>5. \A x \in ToSet(prog.instrs[m].uses) : x \in Defined(prog.instrs)
  BY <1>1, ProgNames
<1>6. CASE ArgAt(code, start, i)
  <2>1. prog.instrs[m].class = "call" /\ k \in 1..Len(Args(m)) /\ code[i] = ArgMove(m, k)
    BY <1>6 DEF ArgAt
  <2> DEFINE v == Args(m)[k]
             s == SlotsBefore(Args(m), k)
  <2> HIDE DEF m, k
  <2>2. /\ v \in ToSet(prog.instrs[m].uses) /\ code[i].uses = <<v>>
        /\ s \in Nat /\ call_arg_base + s \notin Temps /\ call_arg_base + s + 1 \notin Temps
        /\ code[i].rets = <<call_arg_base + s + 1, call_arg_base + s>> \/ code[i].rets = <<call_arg_base + s>>
    <3>1. /\ v \in ToSet(prog.instrs[m].uses) /\ ArgMove(m, k).uses = <<v>> /\ s \in Nat
          /\ v \in prog.wide => ArgMove(m, k).rets = <<call_arg_base + s + 1, call_arg_base + s>>
          /\ v \notin prog.wide => ArgMove(m, k).rets = <<call_arg_base + s>>
      BY <1>1, <2>1, ArgFacts
    <3>2. call_arg_base + s \notin Temps /\ call_arg_base + s + 1 \notin Temps
      BY <3>1, RegAllocAssumption DEF call_arg_base, Temps
    <3> QED BY <2>1, <3>1, <3>2
  <2>3. ToSet(code[i].rets) \subseteq {call_arg_base + s, call_arg_base + s + 1}
    <3> HIDE DEF s
    <3>1. \A a, b : ToSet(<<a, b>>) = {a, b}
      BY DEF ToSet
    <3>2. CASE code[i].rets = <<call_arg_base + s + 1, call_arg_base + s>>
      <4> DEFINE a == call_arg_base + s + 1
                 b == call_arg_base + s
      <4>1. code[i].rets = <<a, b>>
        BY <3>2
      <4> HIDE DEF a, b
      <4>2. ToSet(code[i].rets) = {a, b}
        BY <3>1, <4>1
      <4> QED BY <4>2 DEF a, b
    <3>3. CASE code[i].rets = <<call_arg_base + s>>
      BY <1>2, <3>3, Zenon
    <3> QED BY <2>2, <3>2, <3>3
  <2> QED BY <1>2, <1>5, <2>2, <2>3 DEF m
<1>7. CASE CallAt(code, start, i)
  <2>1. prog.instrs[m].class = "call" /\ code[i] = CallOf(m)
    BY <1>7 DEF CallAt
  <2> HIDE DEF m, k
  <2>2. /\ Len(Args(m)) \in Nat /\ Len(Callee(m)) \in Nat
        /\ code[i].rets = Ret(m) /\ code[i].uses \in Seq(Values)
        /\ Len(code[i].uses) = Len(Args(m)) + Len(Callee(m))
        /\ \A j \in 1..Len(Args(m)) : code[i].uses[j] = ArgValue(Args(m), j) /\ ArgValue(Args(m), j) \notin Temps
        /\ \A j \in 1..Len(Callee(m)) : /\ Callee(m)[j] \in ToSet(prog.instrs[m].uses)
                                        /\ code[i].uses[Len(Args(m)) + j] = Callee(m)[j]
    BY <1>1, <2>1, CallFacts
  <2>3. ASSUME NEW x \in ToSet(code[i].uses), x \in Temps PROVE x \in ToSet(prog.instrs[m].uses)
    <3>1. PICK j \in 1..Len(code[i].uses) : x = code[i].uses[j]
      BY <2>2, ToSetTyped
    <3>2. j \in 1..Len(Args(m)) \/ (j - Len(Args(m)) \in 1..Len(Callee(m)) /\ j = Len(Args(m)) + (j - Len(Args(m))))
      BY <2>2
    <3>3. j \notin 1..Len(Args(m))
      BY <2>2, <2>3, <3>1
    <3> QED BY <2>2, <3>1, <3>2, <3>3
  <2> QED BY <1>4, <1>5, <2>2, <2>3 DEF m
<1>8. CASE BindAt(code, start, i)
  <2>1. code[i] = BindOf(m)
    BY <1>8 DEF BindAt
  <2> HIDE DEF m, k
  <2>2. code[i].rets = Ret(m) /\ code[i].uses = prog.instrs[m].uses
    BY <1>1, <2>1, BindFacts
  <2> QED BY <1>4, <1>5, <2>2 DEF m
<1> QED BY <1>6, <1>7, <1>8, Kinds DEF ProgGood
-----------------------------------------------------------------------------
(* Where an instruction leads *)

LEMMA FirstAt ==
  ASSUME ProgOK, NEW code, NEW start, Laid(code, start, NumInstrs + 1), NEW t \in 1..NumInstrs
  PROVE  start[t] \in Nat /\ start[t] + 1 \in 1..Len(code) /\ code[start[t] + 1].at = t
<1>0. Len(code) \in Nat /\ start \in [1..(NumInstrs + 1) -> Nat] /\ NumInstrs \in Nat
      /\ (NumInstrs + 1) - 1 = NumInstrs
  BY RegAllocAssumption DEF Laid
<1>1. Len(Block(t)) >= 1 /\ Len(Block(t)) \in Nat /\ \A k \in 1..Len(Block(t)) : Block(t)[k].at = t
  BY BlockFacts
<1>2. 1 \in 1..Len(Block(t))
  BY <1>1
<1>3. start[t] + 1 \in 1..Len(code) /\ code[start[t] + 1] = Block(t)[1]
  BY <1>0, <1>2 DEF Laid
<1>4. start[t] \in Nat
  BY <1>0
<1> QED BY <1>1, <1>2, <1>3, <1>4

Inner(code, start, i) == i - start[code[i].at] < Len(Block(code[i].at))

First(code, start, i) == i - start[code[i].at] = 1

LEMMA NextPos ==
  ASSUME ProgOK, NEW code, NEW start, Laid(code, start, NumInstrs + 1), NEW i \in 1..Len(code)
  PROVE  /\ Inner(code, start, i) => i + 1 \in 1..Len(code) /\ code[i + 1].at = code[i].at
         /\ ~Inner(code, start, i) /\ i + 1 \in 1..Len(code) =>
              /\ First(code, start, i + 1) /\ code[i + 1].at = code[i].at + 1
              /\ code[i].at + 1 \in 1..NumInstrs
<1>0. Len(code) \in Nat /\ start \in [1..(NumInstrs + 1) -> Nat] /\ NumInstrs \in Nat
      /\ (NumInstrs + 1) - 1 = NumInstrs /\ Len(code) = start[NumInstrs + 1]
  BY RegAllocAssumption DEF Laid
<1> DEFINE m == code[i].at
           k == i - start[m]
<1>1. m \in 1..NumInstrs /\ k \in 1..Len(Block(m)) /\ start[m] \in Nat
  BY CodeAt
<1>2. Len(Block(m)) \in Nat /\ \A l \in 1..Len(Block(m)) : Block(m)[l].at = m
  BY <1>1, BlockFacts
<1>3. /\ start[m + 1] = start[m] + Len(Block(m))
      /\ \A l \in 1..Len(Block(m)) : start[m] + l \in 1..Len(code) /\ code[start[m] + l] = Block(m)[l]
  BY <1>0, <1>1 DEF Laid
<1>4. ASSUME k < Len(Block(m)) PROVE i + 1 \in 1..Len(code) /\ code[i + 1].at = m
  <2>1. k + 1 \in 1..Len(Block(m)) /\ start[m] + (k + 1) = i + 1
    BY <1>1, <1>2, <1>4
  <2>2. i + 1 \in 1..Len(code) /\ code[i + 1] = Block(m)[k + 1]
    BY <1>3, <2>1
  <2> QED BY <1>2, <2>1, <2>2
<1>5. ASSUME ~(k < Len(Block(m))), i + 1 \in 1..Len(code)
      PROVE  m + 1 \in 1..NumInstrs /\ code[i + 1].at = m + 1 /\ (i + 1) - start[m + 1] = 1
  <2> HIDE DEF m
  <2>1. k = Len(Block(m)) /\ i = start[m + 1]
    BY <1>1, <1>2, <1>3, <1>5
  <2>2. m # NumInstrs
    BY <1>0, <1>5, <2>1
  <2>3. m + 1 \in 1..NumInstrs
    BY <1>0, <1>1, <2>2
  <2>4. start[m + 1] \in Nat /\ code[start[m + 1] + 1].at = m + 1
    BY <2>3, FirstAt
  <2> QED BY <2>1, <2>3, <2>4
<1> QED BY <1>4, <1>5 DEF Inner, First

LEMMA SuccPos ==
  ASSUME ProgGood, NEW code, NEW start, Laid(code, start, NumInstrs + 1), NEW i \in 1..Len(code),
         NEW j \in SuccOf(code, start, i)
  PROVE  /\ j \in 1..Len(code)
         /\ \/ Inner(code, start, i) /\ j = i + 1 /\ code[j].at = code[i].at
            \/ /\ ~Inner(code, start, i) /\ First(code, start, j)
               /\ code[j].at \in Succ(prog.instrs, code[i].at)
<1>0. ProgOK /\ Len(prog.instrs) = NumInstrs /\ NumInstrs \in Nat /\ Len(code) \in Nat
  BY RegAllocAssumption DEF ProgGood, ProgOK, Laid
<1> DEFINE m == code[i].at
<1>1. m \in 1..NumInstrs
  BY <1>0, CodeAt
<1>2. CASE j = i + 1 /\ j <= Len(code)
  <2>1. j \in 1..Len(code)
    BY <1>0, <1>2
  <2>2. CASE Inner(code, start, i)
    BY <1>0, <1>2, <2>1, <2>2, NextPos
  <2>3. CASE ~Inner(code, start, i)
    <3>1. First(code, start, j) /\ code[j].at = m + 1 /\ m + 1 \in 1..NumInstrs
      BY <1>0, <1>2, <2>1, <2>3, NextPos
    <3>2. m + 1 \in Succ(prog.instrs, m)
      BY <1>0, <3>1 DEF Succ
    <3> QED BY <2>1, <2>3, <3>1, <3>2
  <2> QED BY <2>2, <2>3
<1>3. CASE code[i].class = "br" /\ j = start[prog.instrs[m].to] + 1
  <2> DEFINE t == prog.instrs[m].to
  <2>1. t \in 1..NumInstrs
    BY <1>0, <1>3, BranchAt
  <2>2. j \in 1..Len(code) /\ code[j].at = t /\ start[t] \in Nat
    <3> HIDE DEF t
    <3>1. start[t] \in Nat /\ start[t] + 1 \in 1..Len(code) /\ code[start[t] + 1].at = t
      BY <1>0, <2>1, FirstAt
    <3>2. j = start[t] + 1
      BY <1>3 DEF t
    <3> QED BY <3>1, <3>2
  <2>3. First(code, start, j)
    BY <1>3, <2>2 DEF First
  <2>4. ~ArgAt(code, start, i) /\ ~CallAt(code, start, i)
    <3>1. CASE ArgAt(code, start, i)
      <4>1. code[i] = ArgMove(m, i - start[m])
        BY <3>1 DEF ArgAt
      <4>2. \A k : ArgMove(m, k).class = "move"
        BY InstrFields DEF ArgMove
      <4> QED BY <1>3, <4>1, <4>2
    <3>2. CASE CallAt(code, start, i)
      <4>1. code[i] = CallOf(m)
        BY <3>2 DEF CallAt
      <4>2. CallOf(m).class = "call"
        BY InstrFields DEF CallOf
      <4> QED BY <1>3, <4>1, <4>2
    <3> QED BY <3>1, <3>2
  <2>5. prog.instrs[m].class # "call" /\ i - start[m] = 1 /\ code[i] = BindOf(m)
    BY <1>0, <2>4, Kinds DEF BindAt
  <2>6. prog.instrs[m].class = "br" /\ Len(Block(m)) = 1
    BY <1>0, <1>1, <1>3, <2>5, BindFacts, BlockFacts
  <2>7. ~Inner(code, start, i)
    BY <2>5, <2>6 DEF Inner
  <2>8. t \in Succ(prog.instrs, m)
    BY <1>0, <2>1, <2>6 DEF Succ
  <2> QED BY <2>2, <2>3, <2>7, <2>8
<1> QED BY <1>2, <1>3 DEF SuccOf

(* A temporary that is live is one of the function's. *)
LEMMA LiveDefined ==
  ASSUME ProgGood, NEW code, NEW start, Laid(code, start, NumInstrs + 1), LiveLeast(code, start, live),
         NEW v \in Temps, NEW i \in 1..Len(code), v \in live[i].in
  PROVE  v \in Defined(prog.instrs)
<1> SUFFICES ASSUME v \notin Defined(prog.instrs) PROVE FALSE
  OBVIOUS
<1>1. \A j \in 1..Len(code) : v \notin ToSet(code[j].uses)
  BY CodeNames
<1>2. Backward(code, start, v, {})
  BY <1>1 DEF Backward
<1>3. v \in Values /\ {} \in SUBSET (1..Len(code))
  BY ValuesFinite
<1> QED BY <1>2, <1>3 DEF LiveLeast

(* None is live where the function begins. *)
LEMMA EntryClean ==
  ASSUME ProgGood, NEW code, NEW start, Laid(code, start, NumInstrs + 1), LiveLeast(code, start, live)
  PROVE  1 \in 1..Len(code) /\ First(code, start, 1) /\ \A v \in Temps : v \notin live[1].in
<1>0. ProgOK /\ Len(prog.instrs) = NumInstrs /\ NumInstrs \in Nat /\ 1 \in 1..NumInstrs /\ Len(code) \in Nat
      /\ start[1] = 0
  BY RegAllocAssumption DEF ProgGood, ProgOK, Laid
<1>1. 1 \in 1..Len(code) /\ code[1].at = 1 /\ First(code, start, 1)
  <2>1. start[1] + 1 \in 1..Len(code) /\ code[start[1] + 1].at = 1
    BY <1>0, FirstAt
  <2> QED BY <1>0, <2>1 DEF First
<1>2. ASSUME NEW v \in Temps PROVE v \notin live[1].in
  <2> DEFINE p == prog.instrs
             D == Defs(p, v)
             E == [m \in 1..NumInstrs |-> IF m \in D THEN {} ELSE Succ(p, m)]
             R == Found({1}, E, NumInstrs)
             C == {i \in 1..Len(code) : code[i].at \notin R}
  <2>1. Reached(p, {1}, D) = R
    BY <1>0 DEF Reached
  <2>2. {1} \in SUBSET (1..NumInstrs) /\ E \in [1..NumInstrs -> SUBSET (1..NumInstrs)]
    BY <1>0 DEF Succ
  <2>e. \A m \in 1..NumInstrs : m \notin D => E[m] = Succ(p, m)
    OBVIOUS
  <2> HIDE DEF E
  <2>3. {1} \subseteq R /\ R \subseteq 1..NumInstrs /\ \A m \in R : E[m] \subseteq R
    BY <1>0, <2>2, FoundFacts
  <2>4. \A m \in R : m \notin D => Succ(p, m) \subseteq R
    BY <2>3, <2>e
  <2>5. \A m \in 1..NumInstrs : v \in ToSet(p[m].uses) => m \notin R
    BY <2>1 DEF ProgGood
  <2> HIDE DEF R
  <2>6. ASSUME NEW i \in 1..Len(code)
        PROVE  /\ v \in ToSet(code[i].uses) => i \in C
               /\ v \notin ToSet(code[i].rets) /\ SuccOf(code, start, i) \cap C # {} => i \in C
    <3>0. code[i].at \in 1..NumInstrs
      BY <1>0, CodeAt
    <3>1. v \in ToSet(code[i].uses) => i \in C
      BY <2>5, <3>0, CodeNames
    <3>2. ASSUME v \notin ToSet(code[i].rets), NEW j \in SuccOf(code, start, i), j \in C, i \notin C
          PROVE  FALSE
      <4>1. code[i].at \in R /\ code[j].at \notin R
        BY <3>2
      <4>2. /\ ~Inner(code, start, i) /\ code[j].at \in Succ(p, code[i].at)
        BY <3>2, <4>1, SuccPos
      <4>3. code[i].at \in D
        BY <2>4, <4>1, <4>2
      <4>4. p[code[i].at].ret = v
        BY <4>3 DEF Defs
      <4>5. ~ArgAt(code, start, i)
        <5> SUFFICES ASSUME ArgAt(code, start, i) PROVE FALSE
          OBVIOUS
        <5> DEFINE m == code[i].at
        <5>1. p[m].class = "call" /\ i - start[m] \in 1..Len(Args(m))
          BY DEF ArgAt
        <5>2. Len(Block(m)) = Len(Args(m)) + 1
          BY <1>0, <3>0, <5>1, BlockFacts
        <5>3. Len(Args(m)) \in 0..MaxArgs
          BY <1>0, <3>0, <5>1, ArgsTyped
        <5> QED BY <4>2, <5>1, <5>2, <5>3 DEF Inner
      <4>6. code[i] = CallOf(code[i].at) \/ code[i] = BindOf(code[i].at)
        BY <1>0, <4>5, Kinds DEF CallAt, BindAt
      <4>7. code[i].rets = Ret(code[i].at)
        <5>1. CallOf(code[i].at).rets = Ret(code[i].at) /\ BindOf(code[i].at).rets = Ret(code[i].at)
          BY InstrFields DEF CallOf, BindOf
        <5> QED BY <4>6, <5>1
      <4>8. v # 0
        BY DEF Temps
      <4>9. code[i].rets = <<v>>
        BY <4>4, <4>7, <4>8 DEF Ret
      <4>10. v \in ToSet(<<v>>)
        BY DEF ToSet
      <4> QED BY <3>2, <4>9, <4>10
    <3>3. v \notin ToSet(code[i].rets) /\ SuccOf(code, start, i) \cap C # {} => i \in C
      BY <3>2
    <3> QED BY <3>1, <3>3
  <2>7. Backward(code, start, v, C)
    BY <2>6 DEF Backward
  <2>8. C \in SUBSET (1..Len(code)) /\ v \in Values
    BY ValuesFinite
  <2>9. 1 \notin C
    BY <1>1, <2>3
  <2> HIDE DEF C
  <2> QED BY <1>1, <2>7, <2>8, <2>9 DEF LiveLeast
<1> QED BY <1>1, <1>2

-----------------------------------------------------------------------------
(* What coalesce makes of the code.  rep says which value stands for each  *)
(* value, the merged ones included.                                        *)

Mapped(s, t, rep) == Len(s) = Len(t) /\ \A k \in 1..Len(t) : s[k] = rep[t[k]]

KeptAs(ii, c, rep) ==
  ii.class = c.class /\ Mapped(ii.rets, c.rets, rep) /\ Mapped(ii.uses, c.uses, rep)

GoneAs(ii, c, rep) ==
  /\ ii.class = "destroyed" /\ c.class = "move"
  /\ Len(c.rets) = 1 /\ Len(c.uses) = 1 /\ rep[c.rets[1]] = rep[c.uses[1]]

(* The instructions are those of the code, renamed, without some moves. *)
RenamedTo(ins, code, rep) ==
  /\ Len(ins) = Len(code)
  /\ \A i \in 1..Len(code) :
       /\ ins[i].at = code[i].at /\ ins[i].of = code[i].of
       /\ KeptAs(ins[i], code[i], rep) \/ GoneAs(ins[i], code[i], rep)

(* A slot stands for itself; a temporary is merged into one of its width   *)
(* or, if it has 32 bits, into a slot.                                     *)
RepGood(rep, wide, defined, gone, slots) ==
  /\ rep \in [Values -> Values]
  /\ \A v \in Values : (v \notin Temps => rep[v] = v) /\ rep[v] \notin gone
  /\ \A v \in Temps :
       /\ rep[v] \in Temps => (rep[v] \in wide <=> v \in wide) /\ (v \in defined => rep[v] \in defined)
       /\ rep[v] \notin Temps => v \notin wide /\ rep[v] - call_arg_base \in 0..(slots - 1)

(* What an instruction defines interferes with what is live after it. *)
ApartIn(code, lv, edges, rep) ==
  \A i \in 1..Len(code) : \A x \in ToSet(code[i].rets) : \A y \in lv[i].out :
    y # x /\ ~(code[i].class = "move" /\ y \in ToSet(code[i].uses)) => {rep[x], rep[y]} \in edges

(* There is room for the arguments of the calls seen so far. *)
ArgsFit ==
  /\ num_call_args \in Nat
  /\ \A m \in 1..NumInstrs :
       prog.instrs[m].class = "call" /\ (phase = "prepare" => m < next) =>
         SlotsBefore(Args(m), Len(Args(m)) + 1) <= num_call_args

Early == {"prepare", "liveness", "interference"}

Unmerged == [v \in Values |-> v]

Compiled(code, start, rep) ==
  /\ LiveOK(code, start)
  /\ ArgsFit
  /\ RenamedTo(instrs, code, rep)
  /\ RepGood(rep, prog.wide, Defined(prog.instrs), dead, num_call_args)
  /\ phase \in Early => rep = Unmerged /\ dead = {}
  /\ phase \notin Early => ApartIn(code, live, mtx, rep)

LEMMA InstrSeqs ==
  ASSUME NEW code \in Seq(Instrs), NEW i \in 1..Len(code)
  PROVE  /\ code[i].rets \in Seq(Values) /\ code[i].uses \in Seq(Values)
         /\ \A k \in 1..Len(code[i].rets) : code[i].rets[k] \in Values
         /\ \A k \in 1..Len(code[i].uses) : code[i].uses[k] \in Values
<1>1. code[i] \in Instrs
  OBVIOUS
<1>2. code[i].uses \in Seq(Values) /\ code[i].rets \in Seq(Values)
  BY <1>1 DEF Instrs
<1> QED BY <1>2

LEMMA RenamedUnmerged ==
  ASSUME NEW code \in Seq(Instrs)
  PROVE  RenamedTo(code, code, Unmerged)
<1>1. \A v \in Values : Unmerged[v] = v
  BY DEF Unmerged
<1>2. ASSUME NEW i \in 1..Len(code) PROVE KeptAs(code[i], code[i], Unmerged)
  BY <1>1, InstrSeqs DEF KeptAs, Mapped
<1> QED BY <1>2 DEF RenamedTo

LEMMA RepUnmerged ==
  ASSUME NEW wide, NEW defined, NEW slots
  PROVE  RepGood(Unmerged, wide, defined, {}, slots)
<1>1. Temps \subseteq Values
  BY ValuesFinite
<1> QED BY <1>1 DEF RepGood, Unmerged

LEMMA CompiledInit ==
  ASSUME Init
  PROVE  Compiled(<<>>, [m \in 1..(NumInstrs + 1) |-> 0], Unmerged)
<1>1. phase = "prepare" /\ instrs = <<>> /\ next = 1 /\ dead = {} /\ num_call_args = 0
  BY DEF Init
<1>2. LiveOK(<<>>, [m \in 1..(NumInstrs + 1) |-> 0])
  BY LiveInit
<1>3. ArgsFit
  BY <1>1 DEF ArgsFit
<1>4. RenamedTo(instrs, <<>>, Unmerged)
  <2>1. <<>> \in Seq(Instrs)
    OBVIOUS
  <2> QED BY <1>1, <2>1, RenamedUnmerged
<1>5. RepGood(Unmerged, prog.wide, Defined(prog.instrs), dead, num_call_args)
  BY <1>1, RepUnmerged
<1> QED BY <1>1, <1>2, <1>3, <1>4, <1>5 DEF Compiled, Early

LEMMA ArgsFrame ==
  ASSUME prog' = prog
  PROVE  /\ \A m : Args(m)' = Args(m)
         /\ \A args, k : SlotsBefore(args, k)' = SlotsBefore(args, k)
         /\ \A v : value_regframe_slots(v)' = value_regframe_slots(v)
BY DEF Args, SlotsBefore, value_regframe_slots

LEMMA CompiledPrepared ==
  ASSUME ProgGood, NEW code, NEW start, NEW rep, Compiled(code, start, rep),
         NEW i \in 1..NumInstrs, prepare_calls(i),
         NEW c, NEW s, c = code \o Block(i), s = [start EXCEPT ![i + 1] = start[i] + Len(Block(i))]
  PROVE  Compiled(c, s, rep)'
<1>1. phase = "prepare" /\ next = i /\ next' = i + 1 /\ phase' = phase /\ prog' = prog /\ dead' = dead
  BY DEF prepare_calls, graph
<1>2. LiveOK(c, s)'
  BY LiveOKPrepared DEF ProgGood, Compiled
<1>3. instrs' = c /\ c \in Seq(Instrs)
  <2>1. instrs' = c /\ Laid(c, s, next)'
    BY <1>1, <1>2 DEF LiveOK
  <2> QED BY <2>1 DEF Laid
<1>4. rep = Unmerged /\ dead = {}
  BY <1>1 DEF Compiled, Early
<1>5. RenamedTo(instrs', c, rep)
  BY <1>3, <1>4, RenamedUnmerged
<1>6. RepGood(rep, prog'.wide, Defined(prog.instrs)', dead', num_call_args')
  BY <1>1, <1>4, RepUnmerged
<1>7. ArgsFit'
  <2>0. ArgsFit
    BY DEF Compiled
  <2> DEFINE tot(m) == SlotsBefore(Args(m), Len(Args(m)) + 1)
  <2>1. ASSUME prog.instrs[i].class = "call" PROVE tot(i) \in Nat
    <3>1. Args(i) \in Seq(Temps) /\ Len(Args(i)) \in Nat
      BY <2>1, CallFacts
    <3>2. Len(Args(i)) + 1 \in 1..(Len(Args(i)) + 1)
      BY <3>1
    <3>3. SlotsBefore(Args(i), Len(Args(i)) + 1)
             \in ((Len(Args(i)) + 1) - 1)..(2 * ((Len(Args(i)) + 1) - 1))
      BY <3>1, <3>2, SlotsBound
    <3> QED BY <3>1, <3>3
  <2>2. /\ prog.instrs[i].class = "call" =>
             num_call_args' = IF tot(i) > num_call_args THEN tot(i) ELSE num_call_args
        /\ prog.instrs[i].class # "call" => num_call_args' = num_call_args
    BY DEF prepare_calls
  <2>3. \A m : (SlotsBefore(Args(m), Len(Args(m)) + 1))' = tot(m)
    BY <1>1, ArgsFrame
  <2> HIDE DEF tot
  <2>4. num_call_args \in Nat /\ \A m \in 1..NumInstrs :
          prog.instrs[m].class = "call" /\ m < i => tot(m) <= num_call_args
    BY <1>1, <2>0 DEF ArgsFit, tot
  <2>5. num_call_args' \in Nat /\ num_call_args <= num_call_args'
        /\ (prog.instrs[i].class = "call" => tot(i) <= num_call_args')
    BY <2>1, <2>2, <2>4
  <2>6. ASSUME NEW m \in 1..NumInstrs, prog.instrs[m].class = "call", m < i + 1
        PROVE  tot(m) <= num_call_args'
    <3>1. m = i \/ m < i
      BY <2>6
    <3>2. tot(m) \in Int
      <4>1. Args(m) \in Seq(Temps) /\ Len(Args(m)) \in Nat
        BY <2>6, CallFacts
      <4>2. Len(Args(m)) + 1 \in 1..(Len(Args(m)) + 1)
        BY <4>1
      <4>3. SlotsBefore(Args(m), Len(Args(m)) + 1)
               \in ((Len(Args(m)) + 1) - 1)..(2 * ((Len(Args(m)) + 1) - 1))
        BY <4>1, <4>2, SlotsBound
      <4> QED BY <4>1, <4>3 DEF tot
    <3> QED BY <2>4, <2>5, <2>6, <3>1, <3>2
  <2> QED BY <1>1, <2>3, <2>5, <2>6 DEF ArgsFit
<1> QED BY <1>1, <1>2, <1>4, <1>5, <1>6, <1>7 DEF Compiled, Early
(* A move of the code has one source, of the width of what it defines. *)
LEMMA MoveSource ==
  ASSUME ProgGood, NEW code, NEW start, Laid(code, start, NumInstrs + 1), NEW i \in 1..Len(code),
         code[i].class = "move"
  PROVE  /\ Len(code[i].uses) = 1 /\ code[i].of = code[i].uses
         /\ code[i].uses[1] \in Temps /\ code[i].uses[1] \in Defined(prog.instrs)
         /\ ArgAt(code, start, i) \/ (BindAt(code, start, i) /\ prog.instrs[code[i].at].class = "move")
         /\ BindAt(code, start, i) =>
              /\ code[i].rets = <<prog.instrs[code[i].at].ret>> /\ prog.instrs[code[i].at].ret \in Temps
              /\ prog.instrs[code[i].at].ret \in Defined(prog.instrs)
              /\ (prog.instrs[code[i].at].ret \in prog.wide <=> code[i].uses[1] \in prog.wide)
<1> DEFINE m == code[i].at
           k == i - start[m]
<1>0. ProgOK /\ m \in 1..NumInstrs
  BY CodeAt DEF ProgGood
<1>1. CASE ArgAt(code, start, i)
  <2>1. prog.instrs[m].class = "call" /\ k \in 1..Len(Args(m)) /\ code[i] = ArgMove(m, k)
    BY <1>1 DEF ArgAt
  <2> DEFINE v == Args(m)[k]
  <2>2. v \in Temps /\ v \in Defined(prog.instrs) /\ ArgMove(m, k).uses = <<v>> /\ ArgMove(m, k).of = <<v>>
    BY <1>0, <2>1, ArgFacts
  <2> HIDE DEF v
  <2>3. code[i].uses = <<v>> /\ code[i].of = <<v>> /\ ~BindAt(code, start, i)
    BY <2>1, <2>2 DEF BindAt
  <2> QED BY <1>1, <2>2, <2>3
<1>2. CASE CallAt(code, start, i)
  <2>1. code[i] = CallOf(m) /\ prog.instrs[m].class = "call"
    BY <1>2 DEF CallAt
  <2> QED BY <1>0, <2>1, CallFacts
<1>3. CASE BindAt(code, start, i)
  <2>1. code[i] = BindOf(m)
    BY <1>3 DEF BindAt
  <2> DEFINE c == prog.instrs[m]
  <2>2. /\ c.class = "move" /\ code[i].rets = Ret(m) /\ code[i].uses = c.uses /\ code[i].of = c.uses
    BY <1>0, <2>1, BindFacts
  <2>3. c \in ProgInstrs /\ c.ret \in Temps /\ Len(c.uses) = 1 /\ c.uses \in Seq(Temps)
    BY <1>0, <2>2, ProgInstrFacts DEF ProgOK
  <2>4. c.ret # 0 /\ c.uses[1] \in Temps /\ c.uses[1] \in Defined(prog.instrs) /\ c.ret \in Defined(prog.instrs)
    <3>1. c.ret # 0 /\ 1 \in 1..Len(c.uses)
      BY <2>3 DEF Temps
    <3> QED BY <1>0, <3>1, ProgNames
  <2>5. Ret(m) = <<c.ret>>
    BY <2>4 DEF Ret
  <2>6. c.ret \in prog.wide <=> c.uses[1] \in prog.wide
    BY <1>0, <2>2 DEF ProgGood
  <2> QED BY <1>3, <2>2, <2>3, <2>4, <2>5, <2>6
<1> QED BY <1>0, <1>1, <1>2, <1>3, Kinds
LEMMA ArgsFitKept ==
  ASSUME ArgsFit, prog' = prog, num_call_args' = num_call_args,
         (phase # "prepare" /\ phase' # "prepare") \/ (phase' = phase /\ next' = next)
           \/ (phase = "prepare" /\ phase' # "prepare" /\ next = NumInstrs + 1)
  PROVE  ArgsFit'
<1>1. \A m \in 1..NumInstrs : m < NumInstrs + 1
  BY RegAllocAssumption
<1>2. \A m : (SlotsBefore(Args(m), Len(Args(m)) + 1))' = SlotsBefore(Args(m), Len(Args(m)) + 1)
  BY ArgsFrame
<1> QED BY <1>1, <1>2 DEF ArgsFit

(* The steps that touch neither the instructions nor the graph. *)
LEMMA CompiledFrame ==
  ASSUME NEW code, NEW start, NEW rep, Compiled(code, start, rep), LiveOK(code, start)', ArgsFit',
         UNCHANGED <<prog, instrs, num_call_args, mtx, dead>>,
         phase' \in Early <=> phase \in Early,
         phase \notin Early => live' = live
  PROVE  Compiled(code, start, rep)'
BY DEF Compiled

LEMMA CompiledKept ==
  ASSUME ProgGood, NEW code, NEW start, NEW rep, Compiled(code, start, rep), [Next]_vars,
         ~(\E i \in 1..NumInstrs : prepare_calls(i)), ~Interfere,
         ~(\E i \in 1..Len(instrs) : Merge(i) \/ DestroyMove(i))
  PROVE  Compiled(code, start, rep)'
<1>0. ArgsFit /\ LiveOK(code, start) /\ ProgOK
  BY DEF Compiled, ProgGood
<1>1. LiveOK(code, start)' /\ prog' = prog
  BY <1>0, LiveOKKept
<1>2. CASE StartLiveness
  <2>1. /\ UNCHANGED <<prog, instrs, num_call_args, mtx, dead>>
        /\ phase = "prepare" /\ next > NumInstrs /\ phase' = "liveness"
    BY <1>2 DEF StartLiveness, graph
  <2>2. next = NumInstrs + 1
    BY <1>0, <2>1, RegAllocAssumption DEF LiveOK
  <2>3. ArgsFit'
    BY <1>0, <2>1, <2>2, ArgsFitKept
  <2> QED BY <1>1, <2>1, <2>3, CompiledFrame DEF Early
<1>3. CASE liveness_update
  <2>1. UNCHANGED <<prog, instrs, num_call_args, mtx, dead>> /\ phase = "liveness"
        /\ phase' \in {"liveness", "interference"}
    BY <1>3 DEF liveness_update, graph
  <2>2. ArgsFit'
    BY <1>0, <2>1, ArgsFitKept
  <2> QED BY <1>1, <2>1, <2>2, CompiledFrame DEF Early
<1>4. CASE /\ UNCHANGED <<prog, instrs, num_call_args, live, mtx, dead>>
           /\ \/ phase \notin Early /\ phase' \notin Early
              \/ phase' = phase /\ next' = next
  <2>1. ArgsFit'
    BY <1>0, <1>4, ArgsFitKept DEF Early
  <2> QED BY <1>1, <1>4, <2>1, CompiledFrame
<1>5. CASE CoalesceDone \/ AssignNarrow \/ AssignWide \/ finalize_call_args
  BY <1>4, <1>5 DEF CoalesceDone, AssignNarrow, AssignWide, finalize_call_args, analysis, graph, Early
<1>6. CASE \E i \in 1..Len(instrs) : Keep(i)
  BY <1>4, <1>6 DEF Keep, Visit, analysis, graph, Early
<1>7. CASE \E v \in Temps : ColorNext(v)
  BY <1>4, <1>7 DEF ColorNext, analysis, graph, Early
<1>8. CASE \E i \in 1..Len(instrs) : ExecDefine(i) \/ ExecMove(i) \/ ExecDestroyed(i) \/ ExecUse(i)
  BY <1>4, <1>8 DEF ExecDefine, ExecMove, ExecDestroyed, ExecUse, Executes, analysis, graph, Early
<1>9. CASE UNCHANGED vars
  BY <1>4, <1>9 DEF vars
<1> QED BY <1>2, <1>3, <1>5, <1>6, <1>7, <1>8, <1>9 DEF Next

LEMMA CompiledInterfere ==
  ASSUME ProgGood, NEW code, NEW start, NEW rep, Compiled(code, start, rep), Interfere
  PROVE  Compiled(code, start, rep)'
<1>0. /\ UNCHANGED <<prog, instrs, num_call_args, live, dead>> /\ phase = "interference" /\ phase' = "coalesce"
      /\ mtx' = UNION {Conflicts(i) : i \in 1..Len(instrs)}
  BY DEF Interfere, analysis
<1>a. ProgOK /\ LiveOK(code, start) /\ ArgsFit
  BY DEF ProgGood, Compiled
<1>n. [Next]_vars /\ ~\E i \in 1..NumInstrs : prepare_calls(i)
  BY <1>0 DEF Next, prepare_calls
<1>1. LiveOK(code, start)'
  BY <1>a, <1>n, LiveOKKept
<1>2. ArgsFit'
  BY <1>0, <1>a, ArgsFitKept
<1>3. instrs = code /\ rep = Unmerged /\ LiveTyped(code, live) /\ Laid(code, start, NumInstrs + 1)
  BY <1>0, <1>a DEF LiveOK, Compiled, Early
<1>4. code \in Seq(Instrs)
  BY <1>3 DEF Laid
<1>5. ASSUME NEW i \in 1..Len(code), NEW x \in ToSet(code[i].rets), NEW y \in live[i].out, y # x,
             ~(code[i].class = "move" /\ y \in ToSet(code[i].uses))
      PROVE  {rep[x], rep[y]} \in mtx'
  <2>1. x \in Values /\ y \in Values
    BY <1>3, <1>4, CodeSets DEF LiveTyped
  <2>2. rep[x] = x /\ rep[y] = y
    BY <1>3, <2>1 DEF Unmerged
  <2>3. {x, y} \in Conflicts(i)
    <3> DEFINE moved == IF instrs[i].class = "move" THEN ToSet(instrs[i].uses) ELSE {}
               pairs(a) == {{a, b} : b \in {v \in Values : v \in live[i].out /\ v \notin moved \cup {a}}}
    <3>1. Conflicts(i) = UNION {pairs(a) : a \in ToSet(instrs[i].rets)}
      BY DEF Conflicts
    <3>2. y \notin moved \cup {x}
      BY <1>3, <1>5
    <3>3. {x, y} \in pairs(x)
      BY <2>1, <3>2
    <3> HIDE DEF pairs
    <3> QED BY <1>3, <3>1, <3>3
  <2> QED BY <1>0, <1>3, <2>2, <2>3
<1>6. ApartIn(code, live, mtx', rep)
  BY <1>5 DEF ApartIn
<1> QED BY <1>0, <1>1, <1>2, <1>6 DEF Compiled, Early

LEMMA CompiledDestroy ==
  ASSUME ProgGood, NEW code, NEW start, NEW rep, Compiled(code, start, rep),
         NEW i \in 1..Len(instrs), DestroyMove(i), AllocInv
  PROVE  Compiled(code, start, rep)'
<1>0. /\ UNCHANGED <<prog, num_call_args, live, mtx, dead, phase>> /\ phase = "coalesce"
      /\ instrs' = [instrs EXCEPT ![i] = Destroyed(instrs[i])] /\ SelfMove(i)
  BY DEF DestroyMove, Visit, analysis, graph
<1>a. ProgOK /\ LiveOK(code, start) /\ ArgsFit /\ instrs \in Seq(Instrs) /\ RenamedTo(instrs, code, rep)
  BY DEF ProgGood, Compiled, AllocInv, CodeOK
<1>n. [Next]_vars /\ ~\E j \in 1..NumInstrs : prepare_calls(j)
  BY <1>0 DEF Next, prepare_calls
<1>1. LiveOK(code, start)'
  BY <1>a, <1>n, LiveOKKept
<1>2. ArgsFit'
  BY <1>0, <1>a, ArgsFitKept
<1>3. Laid(code, start, NumInstrs + 1)
  BY <1>0, <1>a DEF LiveOK
<1>4. Len(instrs) = Len(code) /\ Len(instrs') = Len(code) /\ instrs'[i] = Destroyed(instrs[i])
      /\ \A j \in 1..Len(code) : j # i => instrs'[j] = instrs[j]
  BY <1>0, <1>a DEF RenamedTo
<1>5. KeptAs(instrs[i], code[i], rep) /\ instrs[i].at = code[i].at /\ instrs[i].of = code[i].of
  <2>1. instrs[i].class = "move"
    BY <1>0 DEF SelfMove
  <2> QED BY <1>4, <1>a, <2>1 DEF RenamedTo, GoneAs
<1>6. GoneAs(instrs'[i], code[i], rep)
  <2>1. instrs[i].class = "move" /\ instrs[i].rets = instrs[i].uses
    BY <1>0 DEF SelfMove
  <2>2. code[i].class = "move" /\ Mapped(instrs[i].rets, code[i].rets, rep) /\ Mapped(instrs[i].uses, code[i].uses, rep)
    BY <1>5, <2>1 DEF KeptAs
  <2>3. Len(code[i].uses) = 1
    BY <1>3, <1>4, <2>2, MoveSource
  <2>4. Len(code[i].rets) = 1 /\ rep[code[i].rets[1]] = rep[code[i].uses[1]]
    BY <2>1, <2>2, <2>3 DEF Mapped
  <2>5. instrs'[i].class = "destroyed"
    BY <1>4, InstrFields DEF Destroyed
  <2> QED BY <2>2, <2>3, <2>4, <2>5 DEF GoneAs
<1>7. instrs'[i].at = code[i].at /\ instrs'[i].of = code[i].of
  BY <1>4, <1>5, InstrFields DEF Destroyed
<1>8. RenamedTo(instrs', code, rep)
  <2> SUFFICES ASSUME NEW j \in 1..Len(code)
               PROVE  /\ instrs'[j].at = code[j].at /\ instrs'[j].of = code[j].of
                      /\ KeptAs(instrs'[j], code[j], rep) \/ GoneAs(instrs'[j], code[j], rep)
    BY <1>4 DEF RenamedTo
  <2>1. CASE j = i
    BY <1>6, <1>7, <2>1
  <2>2. CASE j # i
    BY <1>4, <1>a, <2>2 DEF RenamedTo
  <2> QED BY <2>1, <2>2
<1> QED BY <1>0, <1>1, <1>2, <1>8 DEF Compiled
(* The renaming after killed is merged into saved. *)
Redirected(rep, killed, saved) == [v \in Values |-> IF rep[v] = killed THEN saved ELSE rep[v]]

LEMMA MappedReplaced ==
  ASSUME NEW rep, NEW killed, NEW saved, NEW s, NEW t \in Seq(Values), Mapped(s, t, rep)
  PROVE  Mapped(Replaced(s, killed, saved), t, Redirected(rep, killed, saved))
<1>1. Len(s) = Len(t) /\ Len(t) \in Nat /\ \A k \in 1..Len(t) : s[k] = rep[t[k]] /\ t[k] \in Values
  BY DEF Mapped
<1>2. Len(Replaced(s, killed, saved)) = Len(t)
  BY <1>1 DEF Replaced
<1>3. ASSUME NEW k \in 1..Len(t) PROVE Replaced(s, killed, saved)[k] = Redirected(rep, killed, saved)[t[k]]
  BY <1>1 DEF Replaced, Redirected
<1> QED BY <1>2, <1>3 DEF Mapped

LEMMA RenamedMerge ==
  ASSUME NEW code \in Seq(Instrs), NEW rep, NEW killed, NEW saved, NEW ins, RenamedTo(ins, code, rep),
         NEW i \in 1..Len(code), code[i].class = "move", Len(code[i].rets) = 1, Len(code[i].uses) = 1,
         NEW r, r = Redirected(rep, killed, saved), r[code[i].rets[1]] = r[code[i].uses[1]],
         NEW new, new = [j \in 1..Len(ins) |-> IF j = i THEN Destroyed(ins[j])
                                               ELSE instr_replace_values(ins[j], killed, saved)]
  PROVE  RenamedTo(new, code, r)
<1>1. Len(ins) = Len(code) /\ Len(code) \in Nat
  BY DEF RenamedTo
<1>2. Len(new) = Len(code) /\ new[i] = Destroyed(ins[i])
      /\ \A j \in 1..Len(code) : j # i => new[j] = instr_replace_values(ins[j], killed, saved)
  BY <1>1
<1> SUFFICES ASSUME NEW j \in 1..Len(code)
             PROVE  /\ new[j].at = code[j].at /\ new[j].of = code[j].of
                    /\ KeptAs(new[j], code[j], r) \/ GoneAs(new[j], code[j], r)
  BY <1>2 DEF RenamedTo
<1>3. /\ ins[j].at = code[j].at /\ ins[j].of = code[j].of
      /\ KeptAs(ins[j], code[j], rep) \/ GoneAs(ins[j], code[j], rep)
  BY DEF RenamedTo
<1>4. CASE j = i
  <2>1. new[j].class = "destroyed" /\ new[j].at = ins[j].at /\ new[j].of = ins[j].of
    BY <1>2, <1>4, InstrFields DEF Destroyed
  <2>2. GoneAs(new[j], code[j], r)
    BY <1>4, <2>1 DEF GoneAs
  <2> QED BY <1>3, <2>1, <2>2
<1>5. CASE j # i
  <2>1. /\ new[j].class = ins[j].class /\ new[j].at = ins[j].at /\ new[j].of = ins[j].of
        /\ new[j].rets = Replaced(ins[j].rets, killed, saved)
        /\ new[j].uses = Replaced(ins[j].uses, killed, saved)
    <3>1. new[j] = Instr(ins[j].class, Replaced(ins[j].rets, killed, saved),
                         Replaced(ins[j].uses, killed, saved), ins[j].of, ins[j].at)
      BY <1>2, <1>5 DEF instr_replace_values
    <3> QED BY <3>1, InstrFields
  <2>2. code[j].rets \in Seq(Values) /\ code[j].uses \in Seq(Values)
    BY InstrSeqs
  <2>3. CASE KeptAs(ins[j], code[j], rep)
    <3>1. Mapped(new[j].rets, code[j].rets, r) /\ Mapped(new[j].uses, code[j].uses, r)
      BY <2>1, <2>2, <2>3, MappedReplaced DEF KeptAs
    <3> QED BY <1>3, <2>1, <2>3, <3>1 DEF KeptAs
  <2>4. CASE GoneAs(ins[j], code[j], rep)
    <3>1. Len(code[j].rets) = 1 /\ Len(code[j].uses) = 1 /\ rep[code[j].rets[1]] = rep[code[j].uses[1]]
      BY <2>4 DEF GoneAs
    <3>2. code[j].rets[1] \in Values /\ code[j].uses[1] \in Values
      BY <2>2, <3>1
    <3>3. r[code[j].rets[1]] = r[code[j].uses[1]]
      BY <3>1, <3>2 DEF Redirected
    <3> QED BY <1>3, <2>1, <2>4, <3>1, <3>3 DEF GoneAs
  <2> QED BY <1>3, <2>3, <2>4
<1> QED BY <1>4, <1>5

LEMMA PrecoloredTemps ==
  ASSUME NEW v \in Values
  PROVE  Precolored(v) <=> v \notin Temps
BY RegAllocAssumption DEF Precolored, call_arg_base, Temps, Values

(* What a move that is merged has for a source and a destination. *)
LEMMA MergedMove ==
  ASSUME ProgGood, NEW code, NEW start, NEW rep, Laid(code, start, NumInstrs + 1), ArgsFit, phase # "prepare",
         RepGood(rep, prog.wide, Defined(prog.instrs), dead, num_call_args),
         NEW i \in 1..Len(code), code[i].class = "move", Len(code[i].rets) = 1,
         NEW dst, NEW src, dst = rep[code[i].rets[1]], src = rep[code[i].uses[1]]
  PROVE  /\ dst \in Values /\ src \in Values /\ dst \notin dead /\ src \notin dead
         /\ dst \in Temps => dst \in Defined(prog.instrs)
         /\ src \in Temps => src \in Defined(prog.instrs)
         /\ dst \in Temps /\ src \in Temps => (dst \in prog.wide <=> src \in prog.wide)
         /\ dst \notin Temps => src \notin prog.wide /\ dst - call_arg_base \in 0..(num_call_args - 1)
         /\ src \notin Temps => dst \notin prog.wide /\ src - call_arg_base \in 0..(num_call_args - 1)
<1> DEFINE x == code[i].rets[1]
           u == code[i].uses[1]
           m == code[i].at
           k == i - start[m]
<1>0. code \in Seq(Instrs) /\ ProgOK /\ m \in 1..NumInstrs
  BY CodeAt DEF Laid, ProgGood
<1>1. Len(code[i].uses) = 1 /\ u \in Temps /\ u \in Defined(prog.instrs)
  BY MoveSource
<1>2. x \in Values /\ u \in Values
  BY <1>0, <1>1, InstrSeqs
<1>3. prog.wide \subseteq Temps
  BY DefinedTemps
<1>4. CASE BindAt(code, start, i)
  <2>1. x \in Temps /\ x \in Defined(prog.instrs) /\ (x \in prog.wide <=> u \in prog.wide)
    BY <1>4, MoveSource
  <2> HIDE DEF x, u
  <2>2. dst = rep[x] /\ src = rep[u]
    BY DEF x, u
  <2> QED BY <1>1, <1>2, <1>3, <2>1, <2>2 DEF RepGood
<1>5. CASE ArgAt(code, start, i)
  <2>1. prog.instrs[m].class = "call" /\ k \in 1..Len(Args(m)) /\ code[i] = ArgMove(m, k)
    BY <1>5 DEF ArgAt
  <2> DEFINE v == Args(m)[k]
             s == SlotsBefore(Args(m), k)
             t == SlotsBefore(Args(m), k + 1)
             e == SlotsBefore(Args(m), Len(Args(m)) + 1)
  <2>2. /\ Args(m) \in Seq(Temps) /\ Len(Args(m)) \in 0..MaxArgs
        /\ s \in Nat /\ t = s + value_regframe_slots(v)
        /\ ArgMove(m, k).uses = <<v>>
        /\ v \in prog.wide => ArgMove(m, k).rets = <<call_arg_base + s + 1, call_arg_base + s>>
        /\ v \notin prog.wide => ArgMove(m, k).rets = <<call_arg_base + s>>
    BY <1>0, <2>1, ArgFacts
  <2>3. v \notin prog.wide
    <3> DEFINE a == call_arg_base + s + 1
               b == call_arg_base + s
    <3> HIDE DEF a, b
    <3>1. v \in prog.wide => code[i].rets = <<a, b>>
      BY <2>1, <2>2 DEF a, b
    <3>2. Len(<<a, b>>) = 2
      OBVIOUS
    <3>3. 2 # 1
      OBVIOUS
    <3> HIDE DEF v
    <3>4. code[i].rets = <<a, b>> => Len(code[i].rets) = 2
      BY <3>2
    <3> QED BY <3>1, <3>3, <3>4
  <2>4. x = call_arg_base + s /\ u = v
    BY <2>1, <2>2, <2>3
  <2>5. t = s + 1
    BY <2>2, <2>3 DEF value_regframe_slots
  <2>6. t <= e /\ e \in Int
    <3>1. k + 1 \in 1..(Len(Args(m)) + 1) /\ Len(Args(m)) + 1 \in 1..(Len(Args(m)) + 1)
          /\ k + 1 <= Len(Args(m)) + 1
      BY <2>1, <2>2
    <3>2. e \in ((Len(Args(m)) + 1) - 1)..(2 * ((Len(Args(m)) + 1) - 1))
      BY <2>2, <3>1, SlotsBound
    <3> QED BY <2>2, <3>1, <3>2, SlotsMore
  <2>7. e <= num_call_args /\ num_call_args \in Nat
    BY <1>0, <2>1 DEF ArgsFit
  <2>8. x - call_arg_base \in 0..(num_call_args - 1) /\ x \notin Temps
    <3> HIDE DEF s, t, e, x
    <3>1. NumTemps \in Nat
      BY RegAllocAssumption
    <3> QED BY <2>2, <2>4, <2>5, <2>6, <2>7, <3>1 DEF call_arg_base, Temps
  <2> HIDE DEF x, u, v
  <2>9. dst = rep[x] /\ src = rep[u]
    BY DEF x, u
  <2>10. u \notin prog.wide
    BY <2>3, <2>4
  <2> QED BY <1>1, <1>2, <1>3, <2>8, <2>9, <2>10 DEF RepGood
<1> QED BY <1>4, <1>5, MoveSource
LEMMA RepMerge ==
  ASSUME ProgGood, NEW rep, NEW slots, NEW gone,
         RepGood(rep, prog.wide, Defined(prog.instrs), gone, slots),
         NEW killed \in Temps, NEW saved \in Values, saved # killed, saved \notin gone,
         saved \in Temps => /\ saved \in Defined(prog.instrs)
                            /\ (saved \in prog.wide <=> killed \in prog.wide),
         saved \notin Temps => killed \notin prog.wide /\ saved - call_arg_base \in 0..(slots - 1)
  PROVE  RepGood(Redirected(rep, killed, saved), prog.wide, Defined(prog.instrs), gone \cup {killed}, slots)
<1> DEFINE r == Redirected(rep, killed, saved)
<1>0. Temps \subseteq Values
  BY ValuesFinite
<1>1. /\ rep \in [Values -> Values]
      /\ \A v \in Values : (v \notin Temps => rep[v] = v) /\ rep[v] \notin gone
  BY DEF RepGood
<1>2. r \in [Values -> Values] /\ \A v \in Values : r[v] = IF rep[v] = killed THEN saved ELSE rep[v]
  BY <1>1 DEF Redirected
<1> HIDE DEF r
<1>3. \A v \in Values : (v \notin Temps => r[v] = v) /\ r[v] \notin gone \cup {killed}
  BY <1>1, <1>2
<1>4. ASSUME NEW v \in Temps
      PROVE  /\ r[v] \in Temps => /\ (r[v] \in prog.wide <=> v \in prog.wide)
                                  /\ (v \in Defined(prog.instrs) => r[v] \in Defined(prog.instrs))
             /\ r[v] \notin Temps => v \notin prog.wide /\ r[v] - call_arg_base \in 0..(slots - 1)
  <2>1. /\ rep[v] \in Temps => /\ (rep[v] \in prog.wide <=> v \in prog.wide)
                               /\ (v \in Defined(prog.instrs) => rep[v] \in Defined(prog.instrs))
        /\ rep[v] \notin Temps => v \notin prog.wide /\ rep[v] - call_arg_base \in 0..(slots - 1)
    BY DEF RepGood
  <2>2. CASE rep[v] = killed
    <3>1. r[v] = saved
      BY <1>0, <1>2, <2>2
    <3> QED BY <2>1, <2>2, <3>1
  <2>3. CASE rep[v] # killed
    <3>1. r[v] = rep[v]
      BY <1>0, <1>2, <2>3
    <3> QED BY <2>1, <3>1
  <2> QED BY <2>2, <2>3
<1>5. RepGood(r, prog.wide, Defined(prog.instrs), gone \cup {killed}, slots)
  BY <1>2, <1>3, <1>4 DEF RepGood
<1> QED BY <1>5 DEF r

LEMMA ApartMerge ==
  ASSUME GraphOK, NEW code \in Seq(Instrs), NEW lv, LiveTyped(code, lv), NEW rep \in [Values -> Values],
         ApartIn(code, lv, mtx, rep),
         NEW killed \in Values, NEW saved \in Values, killed # saved, {killed, saved} \notin mtx,
         mtx' = Merged(killed, saved)
  PROVE  ApartIn(code, lv, mtx', Redirected(rep, killed, saved))
<1> DEFINE r == Redirected(rep, killed, saved)
<1>1. SUFFICES ASSUME NEW i \in 1..Len(code), NEW x \in ToSet(code[i].rets), NEW y \in lv[i].out, y # x,
                      ~(code[i].class = "move" /\ y \in ToSet(code[i].uses))
               PROVE  {r[x], r[y]} \in mtx'
  BY DEF ApartIn
<1>2. {rep[x], rep[y]} \in mtx
  BY <1>1 DEF ApartIn
<1>3. x \in Values /\ y \in Values
  BY CodeSets DEF LiveTyped
<1>4. /\ r[x] = IF rep[x] = killed THEN saved ELSE rep[x]
      /\ r[y] = IF rep[y] = killed THEN saved ELSE rep[y]
      /\ rep[x] \in Values /\ rep[y] \in Values /\ r[x] \in Values /\ r[y] \in Values
  BY <1>3 DEF Redirected
<1> DEFINE a == rep[x]
           b == rep[y]
           c == r[x]
           d == r[y]
<1>5. /\ {a, b} \in mtx /\ a \in Values /\ b \in Values /\ c \in Values /\ d \in Values
      /\ c = (IF a = killed THEN saved ELSE a) /\ d = (IF b = killed THEN saved ELSE b)
  BY <1>2, <1>4
<1> HIDE DEF a, b, c, d
<1>6. {a, a} \notin mtx /\ {a, b} = {b, a}
  BY NoSelfLoop
<1>7. a # b
  BY <1>5, <1>6
<1>8. {c, d} \in mtx' <=> \/ c # killed /\ d # killed /\ {c, d} \in mtx
                          \/ c = saved /\ d \in Neighbours(killed)
                          \/ d = saved /\ c \in Neighbours(killed)
  BY <1>5, MergedPair
<1>9. {c, d} \in mtx'
  <2>1. CASE a = killed
    <3>1. b \in Neighbours(killed) /\ d = b /\ c = saved
      BY <1>5, <1>7, <2>1 DEF Neighbours
    <3> QED BY <1>8, <3>1
  <2>2. CASE b = killed
    <3>1. a \in Neighbours(killed) /\ c = a /\ d = saved
      BY <1>5, <1>6, <1>7, <2>2 DEF Neighbours
    <3> QED BY <1>8, <3>1
  <2>3. CASE a # killed /\ b # killed
    BY <1>5, <1>8, <2>3
  <2> QED BY <2>1, <2>2, <2>3
<1> QED BY <1>9 DEF c, d

LEMMA CompiledMerge ==
  ASSUME ProgGood, AllocInv, NEW code, NEW start, NEW rep, Compiled(code, start, rep),
         NEW i \in 1..Len(instrs), Merge(i)
  PROVE  \E r : Compiled(code, start, r)'
<1> DEFINE dst == instrs[i].rets[1]
           src == instrs[i].uses[1]
           killed == IF Precolored(src) THEN dst ELSE src
           saved == IF Precolored(src) THEN src ELSE dst
           r == Redirected(rep, killed, saved)
<1>0. /\ UNCHANGED <<prog, num_call_args, live, phase>> /\ phase = "coalesce" /\ Mergeable(i)
      /\ instrs' = [j \in 1..Len(instrs) |-> IF j = i THEN Destroyed(instrs[j])
                                             ELSE instr_replace_values(instrs[j], killed, saved)]
      /\ mtx' = Merged(killed, saved) /\ dead' = dead \cup {killed}
  BY DEF Merge, Visit, analysis
<1>a. /\ ProgOK /\ LiveOK(code, start) /\ ArgsFit /\ RenamedTo(instrs, code, rep) /\ GraphOK
      /\ RepGood(rep, prog.wide, Defined(prog.instrs), dead, num_call_args)
      /\ ApartIn(code, live, mtx, rep)
  BY <1>0 DEF ProgGood, Compiled, AllocInv, Early
<1>n. [Next]_vars /\ ~\E j \in 1..NumInstrs : prepare_calls(j)
  BY <1>0 DEF Next, prepare_calls
<1>1. LiveOK(code, start)'
  BY <1>a, <1>n, LiveOKKept
<1>2. ArgsFit'
  BY <1>0, <1>a, ArgsFitKept
<1>3. Laid(code, start, NumInstrs + 1) /\ LiveTyped(code, live) /\ code \in Seq(Instrs)
  BY <1>0, <1>a DEF LiveOK, Laid
<1>4. /\ instrs[i].class = "move" /\ Len(instrs[i].rets) = 1 /\ dst # src
      /\ ~(Precolored(dst) /\ Precolored(src)) /\ {dst, src} \notin mtx
  BY <1>0 DEF Mergeable
<1>5. KeptAs(instrs[i], code[i], rep) /\ i \in 1..Len(code)
  BY <1>4, <1>a DEF RenamedTo, GoneAs
<1>6. code[i].class = "move" /\ Len(code[i].rets) = 1 /\ Len(code[i].uses) = 1
  BY <1>3, <1>4, <1>5, MoveSource DEF KeptAs, Mapped
<1>7. dst = rep[code[i].rets[1]] /\ src = rep[code[i].uses[1]]
  BY <1>5, <1>6 DEF KeptAs, Mapped
<1>8. code[i].rets[1] \in Values /\ code[i].uses[1] \in Values
  BY <1>3, <1>5, <1>6, InstrSeqs
<1> HIDE DEF dst, src
<1>9. /\ dst \in Values /\ src \in Values /\ dst \notin dead /\ src \notin dead
      /\ dst \in Temps => dst \in Defined(prog.instrs)
      /\ src \in Temps => src \in Defined(prog.instrs)
      /\ dst \in Temps /\ src \in Temps => (dst \in prog.wide <=> src \in prog.wide)
      /\ dst \notin Temps => src \notin prog.wide /\ dst - call_arg_base \in 0..(num_call_args - 1)
      /\ src \notin Temps => dst \notin prog.wide /\ src - call_arg_base \in 0..(num_call_args - 1)
  BY <1>0, <1>a, <1>3, <1>5, <1>6, <1>7, MergedMove
<1>10. (Precolored(src) <=> src \notin Temps) /\ (Precolored(dst) <=> dst \notin Temps)
  BY <1>9, PrecoloredTemps
<1>11. /\ killed \in Temps /\ killed \in Values /\ saved \in Values /\ saved # killed /\ saved \notin dead
       /\ saved \in Temps => /\ saved \in Defined(prog.instrs)
                             /\ (saved \in prog.wide <=> killed \in prog.wide)
       /\ saved \notin Temps => /\ killed \notin prog.wide
                                /\ saved - call_arg_base \in 0..(num_call_args - 1)
  BY <1>4, <1>9, <1>10
<1>12. {killed, saved} \notin mtx /\ ((saved = dst /\ killed = src) \/ (saved = src /\ killed = dst))
  <2>1. {dst, src} = {src, dst}
    OBVIOUS
  <2>2. CASE Precolored(src)
    <3>1. killed = dst /\ saved = src
      BY <2>2
    <3> QED BY <1>4, <3>1
  <2>3. CASE ~Precolored(src)
    <3>1. killed = src /\ saved = dst
      BY <2>3
    <3>2. {src, dst} \notin mtx
      BY <1>4, <2>1
    <3> HIDE DEF killed, saved
    <3> QED BY <3>1, <3>2, Zenon
  <2> QED BY <2>2, <2>3
<1> HIDE DEF killed, saved
<1>13. r[code[i].rets[1]] = r[code[i].uses[1]]
  BY <1>7, <1>8, <1>12 DEF Redirected
<1> HIDE DEF r
<1>14. RenamedTo(instrs', code, r)
  BY <1>0, <1>3, <1>5, <1>6, <1>13, <1>a, RenamedMerge DEF r
<1>15. RepGood(r, prog.wide, Defined(prog.instrs), dead \cup {killed}, num_call_args)
  BY <1>11, <1>a, RepMerge DEF r
<1>16. ApartIn(code, live, mtx', r)
  <2>1. rep \in [Values -> Values]
    BY <1>a DEF RepGood
  <2> QED BY <1>0, <1>3, <1>11, <1>12, <1>a, <2>1, ApartMerge DEF r
<1>17. PICK q : q = r
  OBVIOUS
<1>18. RepGood(q, prog'.wide, Defined(prog.instrs)', dead', num_call_args')
  BY <1>0, <1>15, <1>17
<1>19. phase' = "coalesce" /\ ApartIn(code, live', mtx', q) /\ RenamedTo(instrs', code, q)
  BY <1>0, <1>14, <1>16, <1>17
<1>20. Compiled(code, start, q)'
  BY <1>1, <1>2, <1>18, <1>19 DEF Compiled, Early
<1> QED BY <1>20

-----------------------------------------------------------------------------
(* Registers *)

LEMMA MaxFacts ==
  ASSUME NEW S \in SUBSET Nat, IsFiniteSet(S), S # {}
  PROVE  Max(S) \in S /\ \A y \in S : Max(S) >= y
<1> DEFINE top(A) == \E x \in A : \A y \in A : x >= y
           T == {n \in Nat : \A A \in SUBSET Nat : IsFiniteSet(A) /\ Cardinality(A) = n + 1 => top(A)}
<1>1. 0 \in T
  <2> SUFFICES ASSUME NEW A \in SUBSET Nat, IsFiniteSet(A), Cardinality(A) = 0 + 1 PROVE top(A)
    OBVIOUS
  <2>1. Cardinality(A) = 1
    OBVIOUS
  <2>2. PICK x : A = {x}
    BY <2>1, FS_Singleton
  <2> QED BY <2>2
<1>2. ASSUME NEW n \in Nat, n \in T PROVE n + 1 \in T
  <2> SUFFICES ASSUME NEW A \in SUBSET Nat, IsFiniteSet(A), Cardinality(A) = (n + 1) + 1 PROVE top(A)
    OBVIOUS
  <2>1. A # {}
    <3> SUFFICES ASSUME A = {} PROVE FALSE
      OBVIOUS
    <3>1. Cardinality(A) = 0
      BY FS_EmptySet
    <3> QED BY <3>1
  <2>2. PICK x : x \in A
    BY <2>1
  <2>3. IsFiniteSet(A \ {x}) /\ Cardinality(A \ {x}) = Cardinality(A) - 1
    BY <2>2, FS_RemoveElement
  <2>4. A \ {x} \in SUBSET Nat /\ Cardinality(A \ {x}) = n + 1
    <3>1. A \ {x} \in SUBSET Nat
      OBVIOUS
    <3> DEFINE c == Cardinality(A)
               d == Cardinality(A \ {x})
    <3>2. c = (n + 1) + 1 /\ d = c - 1
      BY <2>3
    <3> HIDE DEF c, d
    <3>3. d = n + 1
      BY <3>2
    <3> QED BY <3>1, <3>3 DEF d
  <2>5. top(A \ {x})
    BY <1>2, <2>3, <2>4
  <2>6. PICK z \in A \ {x} : \A y \in A \ {x} : z >= y
    BY <2>5
  <2>7. x \in Nat /\ z \in Nat /\ A \subseteq Nat
    BY <2>2
  <2>8. CASE x >= z
    BY <2>2, <2>6, <2>7, <2>8
  <2>9. CASE z >= x
    BY <2>2, <2>6, <2>7, <2>9
  <2> QED BY <2>7, <2>8, <2>9
<1>3. Nat \subseteq T
  <2> HIDE DEF T
  <2> QED BY <1>1, <1>2, NatSetInduction
<1>4. Cardinality(S) \in Nat /\ Cardinality(S) # 0
  BY FS_CardinalityType, FS_EmptySet
<1>5. Cardinality(S) - 1 \in Nat /\ Cardinality(S) = (Cardinality(S) - 1) + 1
  BY <1>4
<1>6. top(S)
  BY <1>3, <1>5
<1>7. PICK x \in S : \A y \in S : x >= y
  BY <1>6
<1> QED BY <1>7 DEF Max

(* a and b have no register in common. *)
Clear(a, b) ==
  \A h \in 0..(value_regframe_slots(a) - 1) : \A k \in 0..(value_regframe_slots(b) - 1) :
    iv_reg[a] + h # iv_reg[b] + k

(* Vertices of one width have the same register if they have one colour,   *)
(* and no two others have a register in common.                            *)
RegsByColor(S) ==
  \A a, b \in S :
    IF value_regframe_slots(a) = value_regframe_slots(b) /\ colors[a] = colors[b]
    THEN iv_reg[a] = iv_reg[b] ELSE Clear(a, b)

RegsBelow(S, n) == \A a \in S : iv_reg[a] + value_regframe_slots(a) <= n

RegsOK ==
  /\ colors \in [Values -> Nat \cup {-1}]
  /\ phase \in {"wide", "finalize", "run"} => \A v \in Vertices : colors[v] \in Nat
  /\ iv_reg \in [Values -> Nat] /\ if_regframe_size \in Nat
  /\ phase = "wide" => RegsByColor(Class(1)) /\ RegsBelow(Class(1), if_regframe_size)
  /\ phase = "finalize" => RegsByColor(Vertices) /\ RegsBelow(Vertices, if_regframe_size)
  /\ phase = "run" =>
       /\ RegsByColor(Vertices) /\ RegsBelow(Vertices, if_regframe_size - num_call_args)
       /\ num_call_args <= if_regframe_size
       /\ \A v \in Values : v - call_arg_base \in 0..(num_call_args - 1) =>
            iv_reg[v] = if_regframe_size - (v - call_arg_base + 1)

LEMMA RegsInit == Init => RegsOK
<1> SUFFICES ASSUME Init PROVE RegsOK
  OBVIOUS
<1>1. /\ phase = "prepare" /\ colors = [v \in Values |-> -1] /\ iv_reg = [v \in Values |-> 0]
      /\ if_regframe_size = 2
  BY DEF Init
<1> QED BY <1>1 DEF RegsOK

LEMMA RegsFrame ==
  ASSUME RegsOK, UNCHANGED <<prog, dead, colors, iv_reg, if_regframe_size, num_call_args, phase>>
  PROVE  RegsOK'
<1>1. Vertices' = Vertices /\ Class(1)' = Class(1)
  BY DEF Vertices, Class, value_regframe_slots
<1>2. /\ \A S : RegsByColor(S)' <=> RegsByColor(S)
      /\ \A S, n : RegsBelow(S, n)' <=> RegsBelow(S, n)
  BY DEF RegsByColor, RegsBelow, Clear, value_regframe_slots
<1>3. RegsByColor(Class(1))' <=> RegsByColor(Class(1))
  BY <1>1, <1>2 DEF RegsByColor, RegsBelow, Clear, value_regframe_slots
<1>4. RegsByColor(Vertices)' <=> RegsByColor(Vertices)
  BY <1>1, <1>2 DEF RegsByColor, RegsBelow, Clear, value_regframe_slots
<1>5. /\ RegsBelow(Class(1), if_regframe_size)' <=> RegsBelow(Class(1), if_regframe_size)
      /\ RegsBelow(Vertices, if_regframe_size)' <=> RegsBelow(Vertices, if_regframe_size)
      /\ RegsBelow(Vertices, if_regframe_size - num_call_args)'
           <=> RegsBelow(Vertices, if_regframe_size - num_call_args)
  BY <1>1 DEF RegsBelow, value_regframe_slots
<1> QED BY <1>1, <1>3, <1>4, <1>5 DEF RegsOK

(* Before the registers are assigned nothing is claimed of them. *)
LEMMA RegsEarly ==
  ASSUME RegsOK, UNCHANGED <<iv_reg, if_regframe_size>>, colors' \in [Values -> Nat \cup {-1}],
         phase' \notin {"wide", "finalize", "run"}
  PROVE  RegsOK'
BY DEF RegsOK

LEMMA SlotsOneTwo ==
  ASSUME NEW v
  PROVE  value_regframe_slots(v) \in {1, 2}
BY DEF value_regframe_slots

LEMMA ColorsBound ==
  ASSUME ProgGood, NEW S, S \subseteq Vertices, \A v \in Vertices : colors[v] \in Nat
  PROVE  /\ Max({0} \cup {colors[v] + 1 : v \in S}) \in Nat
         /\ \A w \in S : colors[w] + 1 <= Max({0} \cup {colors[v] + 1 : v \in S})
<1> DEFINE M == {0} \cup {colors[v] + 1 : v \in S}
<1>1. IsFiniteSet(S)
  <2>1. Vertices \subseteq Values
    BY VerticesInTemps, ValuesFinite DEF ProgGood
  <2> QED BY <2>1, ValuesFinite, FS_Subset
<1>2. IsFiniteSet({colors[v] + 1 : v \in S})
  <2> DEFINE f == [v \in S |-> colors[v] + 1]
             I == {colors[v] + 1 : v \in S}
  <2>1. f \in Surjection(S, I)
    BY DEF Surjection
  <2>2. IsFiniteSet(I)
    <3> HIDE DEF f, I
    <3> QED BY <1>1, <2>1, FS_Surjection, Zenon
  <2> QED BY <2>2
<1>3. IsFiniteSet(M) /\ M \in SUBSET Nat /\ M # {}
  <2>1. IsFiniteSet({colors[v] + 1 : v \in S} \cup {0})
    BY <1>2, FS_AddElement
  <2>2. M = {colors[v] + 1 : v \in S} \cup {0} /\ M # {} /\ M \in SUBSET Nat
    OBVIOUS
  <2> HIDE DEF M
  <2> QED BY <2>1, <2>2, Zenon
<1>4. \A v \in S : colors[v] + 1 \in M /\ colors[v] \in Nat
  OBVIOUS
<1> HIDE DEF M
<1>5. Max(M) \in M /\ \A y \in M : Max(M) >= y
  BY <1>3, MaxFacts
<1>6. Max(M) \in Nat /\ \A v \in S : colors[v] + 1 <= Max(M)
  BY <1>3, <1>4, <1>5
<1> QED BY <1>6 DEF M
LEMMA RegsColor ==
  ASSUME AllocInv, RegsOK, NEW v \in Temps, ColorNext(v)
  PROVE  RegsOK'
<1>0. phase = "color" /\ phase' = phase /\ UNCHANGED <<iv_reg, if_regframe_size>>
  BY DEF ColorNext
<1>1. PICK d \in {0} \cup {iv_edges[w] : w \in Vertices} :
        \E c \in ColorTable(d) \cup {-1} : colors' = [colors EXCEPT ![v] = c]
  BY DEF ColorNext
<1>2. PICK c \in ColorTable(d) \cup {-1} : colors' = [colors EXCEPT ![v] = c]
  BY <1>1
<1>3. d \in Nat
  <2>1. Vertices \subseteq Values
    BY VerticesInTemps, ValuesFinite DEF AllocInv
  <2> QED BY <2>1 DEF AllocInv, EdgesOK
<1>4. c \in Nat \cup {-1}
  BY <1>3, ColorTableSize
<1>5. colors' \in [Values -> Nat \cup {-1}]
  BY <1>2, <1>4 DEF RegsOK
<1> QED BY <1>0, <1>5, RegsEarly

LEMMA RegsNarrow ==
  ASSUME ProgGood, AllocInv, RegsOK, AssignNarrow
  PROVE  RegsOK'
<1>0. /\ phase = "color" /\ vi = {} /\ phase' = "wide" /\ UNCHANGED <<prog, dead, colors>>
      /\ iv_reg' = AssignRegs(1, if_regframe_size) /\ if_regframe_size' = SizeAfter(1, if_regframe_size)
  BY DEF AssignNarrow, analysis, graph
<1>1. /\ colors \in [Values -> Nat \cup {-1}] /\ iv_reg \in [Values -> Nat] /\ if_regframe_size \in Nat
  BY DEF RegsOK
<1>2. Vertices \subseteq Values
  BY VerticesInTemps, ValuesFinite DEF ProgGood
<1>3. \A v \in Vertices : colors[v] \in Nat
  <2>1. \A v \in Vertices : colors[v] # -1
    BY <1>0 DEF AllocInv, ColorFound
  <2> QED BY <1>1, <1>2, <2>1
<1>4. Class(1) \subseteq Vertices /\ \A v \in Class(1) : value_regframe_slots(v) = 1
  BY DEF Class
<1> DEFINE B == if_regframe_size
           T == Max({0} \cup {colors[v] + 1 : v \in Class(1)})
<1>5. T \in Nat /\ \A v \in Class(1) : colors[v] + 1 <= T
  BY <1>3, <1>4, ColorsBound
<1> HIDE DEF T
<1>6. Aligned(B, 1) = B
  BY <1>1 DEF Aligned
<1>7. if_regframe_size' = B + T
  BY <1>0, <1>1, <1>5, <1>6 DEF SizeAfter, T
<1>8. /\ \A v \in Class(1) : iv_reg'[v] = B + colors[v]
      /\ \A v \in Values : v \notin Class(1) => iv_reg'[v] = iv_reg[v]
      /\ DOMAIN iv_reg' = Values /\ iv_reg' = [v \in Values |-> iv_reg'[v]]
  <2>1. \A v \in Class(1) : B + colors[v] * 1 = B + colors[v]
    BY <1>1, <1>3, <1>4
  <2> QED BY <1>0, <1>2, <1>4, <1>6, <2>1 DEF AssignRegs
<1>9. iv_reg' \in [Values -> Nat]
  <2>1. \A v \in Values : iv_reg'[v] \in Nat
    BY <1>1, <1>3, <1>4, <1>8
  <2> QED BY <1>8, <2>1
<1>10. Vertices' = Vertices /\ Class(1)' = Class(1) /\ \A v : value_regframe_slots(v)' = value_regframe_slots(v)
  BY <1>0 DEF Vertices, Class, value_regframe_slots
<1>11. RegsByColor(Class(1))'
  <2> SUFFICES ASSUME NEW a \in Class(1), NEW b \in Class(1)
               PROVE  IF colors[a] = colors[b] THEN iv_reg'[a] = iv_reg'[b]
                      ELSE \A h \in 0..(1 - 1) : \A k \in 0..(1 - 1) : iv_reg'[a] + h # iv_reg'[b] + k
    BY <1>0, <1>4, <1>10 DEF RegsByColor, Clear
  <2>1. colors[a] \in Nat /\ colors[b] \in Nat /\ iv_reg'[a] = B + colors[a] /\ iv_reg'[b] = B + colors[b]
    BY <1>3, <1>4, <1>8
  <2> QED BY <1>1, <2>1
<1>12. RegsBelow(Class(1), if_regframe_size)'
  <2> SUFFICES ASSUME NEW a \in Class(1) PROVE iv_reg'[a] + 1 <= if_regframe_size'
    BY <1>4, <1>10 DEF RegsBelow
  <2>1. colors[a] \in Nat /\ colors[a] + 1 <= T /\ iv_reg'[a] = B + colors[a]
    BY <1>3, <1>4, <1>5, <1>8
  <2> QED BY <1>1, <1>5, <1>7, <2>1
<1>13. if_regframe_size' \in Nat /\ colors' \in [Values -> Nat \cup {-1}] /\ \A v \in Vertices' : colors'[v] \in Nat
  BY <1>0, <1>1, <1>3, <1>5, <1>7, <1>10
<1> QED BY <1>0, <1>9, <1>11, <1>12, <1>13 DEF RegsOK

LEMMA RegsWide ==
  ASSUME ProgGood, RegsOK, AssignWide
  PROVE  RegsOK'
<1>0. /\ phase = "wide" /\ phase' = "finalize" /\ UNCHANGED <<prog, dead, colors>>
      /\ iv_reg' = AssignRegs(2, if_regframe_size) /\ if_regframe_size' = SizeAfter(2, if_regframe_size)
  BY DEF AssignWide, analysis, graph
<1>1. /\ colors \in [Values -> Nat \cup {-1}] /\ iv_reg \in [Values -> Nat] /\ if_regframe_size \in Nat
      /\ \A v \in Vertices : colors[v] \in Nat
      /\ RegsByColor(Class(1)) /\ RegsBelow(Class(1), if_regframe_size)
  BY <1>0 DEF RegsOK
<1>2. Vertices \subseteq Values
  BY VerticesInTemps, ValuesFinite DEF ProgGood
<1>3. /\ Class(2) \subseteq Vertices /\ \A v \in Class(2) : value_regframe_slots(v) = 2
      /\ Class(1) \subseteq Vertices /\ \A v \in Class(1) : value_regframe_slots(v) = 1
      /\ \A v \in Vertices : v \in Class(1) \/ v \in Class(2)
  BY SlotsOneTwo DEF Class
<1> DEFINE s == if_regframe_size
           B == Aligned(s, 2)
           T == Max({0} \cup {colors[v] + 1 : v \in Class(2)})
<1>4. T \in Nat /\ \A v \in Class(2) : colors[v] + 1 <= T
  BY <1>1, <1>3, ColorsBound
<1> HIDE DEF T
<1>5. B \in Nat /\ s <= B
  BY <1>1 DEF Aligned
<1>6. if_regframe_size' = B + 2 * T
  BY <1>0 DEF SizeAfter, T
<1> HIDE DEF B
<1>7. /\ \A v \in Class(2) : iv_reg'[v] = B + 2 * colors[v]
      /\ \A v \in Values : v \notin Class(2) => iv_reg'[v] = iv_reg[v]
      /\ iv_reg' = [v \in Values |-> iv_reg'[v]]
  <2>1. \A v \in Class(2) : B + colors[v] * 2 = B + 2 * colors[v]
    BY <1>1, <1>3, <1>5
  <2>2. iv_reg' = [v \in Values |-> IF v \in Class(2) THEN B + colors[v] * 2 ELSE iv_reg[v]]
    BY <1>0 DEF AssignRegs, B
  <2> QED BY <1>2, <1>3, <2>1, <2>2
<1>8. \A v \in Class(1) : iv_reg'[v] = iv_reg[v]
  BY <1>2, <1>3, <1>7
<1>9. iv_reg' \in [Values -> Nat]
  <2>1. \A v \in Values : iv_reg'[v] \in Nat
    BY <1>1, <1>3, <1>5, <1>7
  <2> QED BY <1>7, <2>1
<1>10. Vertices' = Vertices /\ \A v : value_regframe_slots(v)' = value_regframe_slots(v)
  BY <1>0 DEF Vertices, value_regframe_slots
<1>11. ASSUME NEW a \in Class(1)
       PROVE  iv_reg'[a] \in Nat /\ iv_reg'[a] + 1 <= s
  BY <1>1, <1>2, <1>3, <1>8 DEF RegsBelow
<1>12. ASSUME NEW a \in Class(2)
       PROVE  iv_reg'[a] \in Nat /\ B <= iv_reg'[a] /\ iv_reg'[a] + 2 <= B + 2 * T
  BY <1>1, <1>3, <1>4, <1>5, <1>7
<1>13. RegsByColor(Vertices)'
  <2> SUFFICES ASSUME NEW a \in Vertices, NEW b \in Vertices
               PROVE  IF value_regframe_slots(a) = value_regframe_slots(b) /\ colors[a] = colors[b]
                      THEN iv_reg'[a] = iv_reg'[b]
                      ELSE \A h \in 0..(value_regframe_slots(a) - 1) :
                           \A k \in 0..(value_regframe_slots(b) - 1) : iv_reg'[a] + h # iv_reg'[b] + k
    BY <1>0, <1>10 DEF RegsByColor, Clear
  <2>1. CASE a \in Class(1) /\ b \in Class(1)
    BY <1>1, <1>3, <1>8, <2>1 DEF RegsByColor, Clear
  <2>2. CASE a \in Class(1) /\ b \in Class(2)
    <3>1. value_regframe_slots(a) = 1 /\ value_regframe_slots(b) = 2
      BY <1>3, <2>2
    <3>2. iv_reg'[a] \in Nat /\ iv_reg'[a] + 1 <= s /\ iv_reg'[b] \in Nat /\ B <= iv_reg'[b]
      BY <1>11, <1>12, <2>2
    <3>3. \A h \in 0..(1 - 1) : \A k \in 0..(2 - 1) : iv_reg'[a] + h # iv_reg'[b] + k
      BY <1>1, <1>5, <3>2
    <3> QED BY <3>1, <3>3
  <2>3. CASE a \in Class(2) /\ b \in Class(1)
    <3>1. value_regframe_slots(a) = 2 /\ value_regframe_slots(b) = 1
      BY <1>3, <2>3
    <3>2. iv_reg'[b] \in Nat /\ iv_reg'[b] + 1 <= s /\ iv_reg'[a] \in Nat /\ B <= iv_reg'[a]
      BY <1>11, <1>12, <2>3
    <3>3. \A h \in 0..(2 - 1) : \A k \in 0..(1 - 1) : iv_reg'[a] + h # iv_reg'[b] + k
      BY <1>1, <1>5, <3>2
    <3> QED BY <3>1, <3>3
  <2>4. CASE a \in Class(2) /\ b \in Class(2)
    <3>1. value_regframe_slots(a) = 2 /\ value_regframe_slots(b) = 2
      BY <1>3, <2>4
    <3>2. /\ iv_reg'[a] = B + 2 * colors[a] /\ iv_reg'[b] = B + 2 * colors[b]
          /\ colors[a] \in Nat /\ colors[b] \in Nat
      BY <1>1, <1>7, <2>4
    <3>3. colors[a] # colors[b] => \A h \in 0..(2 - 1) : \A k \in 0..(2 - 1) : iv_reg'[a] + h # iv_reg'[b] + k
      BY <1>5, <3>2
    <3> QED BY <3>1, <3>2, <3>3
  <2> QED BY <1>3, <2>1, <2>2, <2>3, <2>4
<1>14. RegsBelow(Vertices, if_regframe_size)'
  <2> SUFFICES ASSUME NEW a \in Vertices PROVE iv_reg'[a] + value_regframe_slots(a) <= if_regframe_size'
    BY <1>10 DEF RegsBelow
  <2>1. CASE a \in Class(1)
    BY <1>1, <1>3, <1>4, <1>5, <1>6, <1>11, <2>1
  <2>2. CASE a \in Class(2)
    BY <1>3, <1>6, <1>12, <2>2
  <2> QED BY <1>3, <2>1, <2>2
<1>15. if_regframe_size' \in Nat /\ colors' \in [Values -> Nat \cup {-1}] /\ \A v \in Vertices' : colors'[v] \in Nat
  BY <1>0, <1>1, <1>4, <1>5, <1>6, <1>10
<1> QED BY <1>0, <1>9, <1>13, <1>14, <1>15 DEF RegsOK

LEMMA RegsFinal ==
  ASSUME ProgGood, RegsOK, num_call_args \in Nat, finalize_call_args
  PROVE  RegsOK'
<1> DEFINE n == num_call_args
           size == if_regframe_size + n
<1>0. /\ phase = "finalize" /\ phase' = "run" /\ UNCHANGED <<prog, dead, colors, num_call_args>>
      /\ if_regframe_size' = size
      /\ iv_reg' = [v \in Values |-> IF v - call_arg_base \in 0..(n - 1)
                                     THEN SlotReg(size, n, v - call_arg_base) ELSE iv_reg[v]]
  BY DEF finalize_call_args, analysis, graph
<1>1. /\ colors \in [Values -> Nat \cup {-1}] /\ iv_reg \in [Values -> Nat] /\ if_regframe_size \in Nat
      /\ \A v \in Vertices : colors[v] \in Nat
      /\ RegsByColor(Vertices) /\ RegsBelow(Vertices, if_regframe_size)
  BY <1>0 DEF RegsOK
<1>2. Vertices \subseteq Values /\ Vertices \subseteq Temps /\ Values \subseteq Nat /\ call_arg_base \in Nat
  <2>1. Vertices \subseteq Temps /\ Temps \subseteq Values /\ Values \subseteq Nat
    BY VerticesInTemps, ValuesFinite DEF ProgGood
  <2>2. call_arg_base \in Nat
    BY RegAllocAssumption DEF call_arg_base
  <2> QED BY <2>1, <2>2
<1>3. \A v \in Temps : v - call_arg_base \notin 0..(n - 1)
  BY RegAllocAssumption DEF call_arg_base, Temps
<1>4. /\ \A v \in Vertices : iv_reg'[v] = iv_reg[v]
      /\ \A v \in Values : v - call_arg_base \in 0..(n - 1) => iv_reg'[v] = size - (v - call_arg_base + 1)
  BY <1>0, <1>2, <1>3 DEF SlotReg
<1>5. iv_reg' \in [Values -> Nat]
  <2>1. \A v \in Values : v - call_arg_base \in 0..(n - 1) => size - (v - call_arg_base + 1) \in Nat
    BY <1>1, <1>2
  <2> QED BY <1>0, <1>1, <2>1 DEF SlotReg
<1>6. Vertices' = Vertices /\ \A v : value_regframe_slots(v)' = value_regframe_slots(v)
  BY <1>0 DEF Vertices, value_regframe_slots
<1>7. RegsByColor(Vertices)'
  <2> SUFFICES ASSUME NEW a \in Vertices, NEW b \in Vertices
               PROVE  IF value_regframe_slots(a) = value_regframe_slots(b) /\ colors[a] = colors[b]
                      THEN iv_reg'[a] = iv_reg'[b]
                      ELSE \A h \in 0..(value_regframe_slots(a) - 1) :
                           \A k \in 0..(value_regframe_slots(b) - 1) : iv_reg'[a] + h # iv_reg'[b] + k
    BY <1>0, <1>6 DEF RegsByColor, Clear
  <2>1. iv_reg'[a] = iv_reg[a] /\ iv_reg'[b] = iv_reg[b]
    BY <1>4
  <2> QED BY <1>1, <2>1 DEF RegsByColor, Clear
<1>8. if_regframe_size' - num_call_args' = if_regframe_size /\ num_call_args' <= if_regframe_size'
      /\ if_regframe_size' \in Nat
  BY <1>0, <1>1
<1>9. RegsBelow(Vertices, if_regframe_size - num_call_args)'
  <2> SUFFICES ASSUME NEW a \in Vertices PROVE iv_reg'[a] + value_regframe_slots(a) <= if_regframe_size
    BY <1>6, <1>8 DEF RegsBelow
  <2> QED BY <1>1, <1>4 DEF RegsBelow
<1>10. \A v \in Values : v - call_arg_base \in 0..(num_call_args' - 1) =>
         iv_reg'[v] = if_regframe_size' - (v - call_arg_base + 1)
  BY <1>0, <1>4
<1>11. colors' \in [Values -> Nat \cup {-1}] /\ \A v \in Vertices' : colors'[v] \in Nat
  BY <1>0, <1>1, <1>6
<1> QED BY <1>0, <1>5, <1>7, <1>8, <1>9, <1>10, <1>11 DEF RegsOK

LEMMA RegsStep ==
  ASSUME ProgGood, AllocInv, RegsOK, num_call_args \in Nat, [Next]_vars
  PROVE  RegsOK'
<1>1. CASE \E v \in Temps : ColorNext(v)
  BY <1>1, RegsColor
<1>2. CASE AssignNarrow
  BY <1>2, RegsNarrow
<1>3. CASE AssignWide
  BY <1>3, RegsWide
<1>4. CASE finalize_call_args
  BY <1>4, RegsFinal
<1>5. CASE UNCHANGED <<colors, iv_reg, if_regframe_size>> /\ phase' \notin {"wide", "finalize", "run"}
  <2>1. colors' \in [Values -> Nat \cup {-1}]
    BY <1>5 DEF RegsOK
  <2> QED BY <1>5, <2>1, RegsEarly
<1>6. CASE \/ \E i \in 1..NumInstrs : prepare_calls(i)
           \/ StartLiveness \/ liveness_update \/ Interfere \/ CoalesceDone
  BY <1>5, <1>6 DEF prepare_calls, StartLiveness, liveness_update, Interfere, CoalesceDone, frame
<1>7. CASE \E i \in 1..Len(instrs) : Merge(i) \/ DestroyMove(i) \/ Keep(i)
  BY <1>5, <1>7 DEF Merge, DestroyMove, Keep, Visit, frame
<1>8. CASE \E i \in 1..Len(instrs) : ExecDefine(i) \/ ExecMove(i) \/ ExecDestroyed(i) \/ ExecUse(i)
  BY <1>8, RegsFrame DEF ExecDefine, ExecMove, ExecDestroyed, ExecUse, analysis, graph, frame
<1>9. CASE UNCHANGED vars
  BY <1>9, RegsFrame DEF vars
<1> QED BY <1>1, <1>2, <1>3, <1>4, <1>6, <1>7, <1>8, <1>9 DEF Next

-----------------------------------------------------------------------------
(* The compiled function *)

(* The values that have registers. *)
Home(a) == a \in Vertices \/ (a \in Values /\ a - call_arg_base \in 0..(num_call_args - 1))

Ready(code, start, rep) ==
  ProgGood /\ AllocInv /\ RegsOK /\ Compiled(code, start, rep) /\ phase = "run"

LEMMA ReadyFacts ==
  ASSUME NEW code, NEW start, NEW rep, Ready(code, start, rep)
  PROVE  /\ ProgGood /\ ProgOK /\ AllocInv /\ RegsOK /\ ArgsFit
         /\ Laid(code, start, NumInstrs + 1) /\ code \in Seq(Instrs) /\ Len(code) \in Nat
         /\ LiveTyped(code, live) /\ LiveLeast(code, start, live) /\ LiveFixed(code, start, live)
         /\ RenamedTo(instrs, code, rep) /\ ApartIn(code, live, mtx, rep)
         /\ RepGood(rep, prog.wide, Defined(prog.instrs), dead, num_call_args)
         /\ num_call_args \in Nat /\ if_regframe_size \in Nat /\ num_call_args <= if_regframe_size
<1>1. ProgGood /\ ProgOK /\ AllocInv /\ RegsOK /\ Compiled(code, start, rep) /\ phase = "run"
  BY DEF Ready, ProgGood
<1>2. /\ LiveOK(code, start) /\ ArgsFit /\ RenamedTo(instrs, code, rep) /\ ApartIn(code, live, mtx, rep)
      /\ RepGood(rep, prog.wide, Defined(prog.instrs), dead, num_call_args)
  BY <1>1 DEF Compiled, Early
<1>3. /\ Laid(code, start, NumInstrs + 1) /\ LiveTyped(code, live) /\ LiveLeast(code, start, live)
      /\ LiveFixed(code, start, live)
  BY <1>1, <1>2 DEF LiveOK
<1>4. code \in Seq(Instrs) /\ Len(code) \in Nat
  BY <1>3 DEF Laid
<1>5. num_call_args \in Nat
  BY <1>2 DEF ArgsFit
<1>6. if_regframe_size \in Nat /\ num_call_args <= if_regframe_size
  BY <1>1 DEF RegsOK
<1> QED BY <1>1, <1>2, <1>3, <1>4, <1>5, <1>6

LEMMA HomeFacts ==
  ASSUME NEW code, NEW start, NEW rep, Ready(code, start, rep), NEW a, Home(a)
  PROVE  /\ a \in Values /\ iv_reg[a] \in Nat
         /\ iv_reg[a] + value_regframe_slots(a) <= if_regframe_size
         /\ a \in Vertices <=> a \in Temps
         /\ a \in Vertices => iv_reg[a] + value_regframe_slots(a) <= if_regframe_size - num_call_args
         /\ a \notin Vertices => /\ value_regframe_slots(a) = 1 /\ a - call_arg_base \in 0..(num_call_args - 1)
                                 /\ iv_reg[a] = if_regframe_size - (a - call_arg_base + 1)
                                 /\ if_regframe_size - num_call_args <= iv_reg[a]
<1>0. /\ num_call_args \in Nat /\ if_regframe_size \in Nat /\ num_call_args <= if_regframe_size
      /\ ProgGood /\ ProgOK /\ RegsOK
  BY ReadyFacts
<1>1. Vertices \subseteq Temps /\ Temps \subseteq Values /\ Values \subseteq Nat /\ prog.wide \subseteq Temps
  BY <1>0, VerticesInTemps, ValuesFinite, DefinedTemps
<1>2. /\ iv_reg \in [Values -> Nat] /\ RegsBelow(Vertices, if_regframe_size - num_call_args)
      /\ \A v \in Values : v - call_arg_base \in 0..(num_call_args - 1) =>
           iv_reg[v] = if_regframe_size - (v - call_arg_base + 1)
  BY <1>0 DEF RegsOK, Ready
<1>3. a \in Values /\ iv_reg[a] \in Nat
  BY <1>1, <1>2 DEF Home
<1>4. call_arg_base \in Nat /\ \A v \in Temps : v - call_arg_base \notin 0..(num_call_args - 1)
  BY <1>0, RegAllocAssumption DEF call_arg_base, Temps
<1>5. CASE a \in Vertices
  <2>1. iv_reg[a] + value_regframe_slots(a) <= if_regframe_size - num_call_args
    BY <1>2, <1>5 DEF RegsBelow
  <2>2. value_regframe_slots(a) \in Nat
    BY DEF value_regframe_slots
  <2> QED BY <1>0, <1>1, <1>3, <1>5, <2>1, <2>2
<1>6. CASE a \notin Vertices
  <2>1. a - call_arg_base \in 0..(num_call_args - 1)
    BY <1>6 DEF Home
  <2>2. a \notin Temps /\ value_regframe_slots(a) = 1
    BY <1>1, <1>4, <2>1 DEF value_regframe_slots
  <2>3. iv_reg[a] = if_regframe_size - (a - call_arg_base + 1)
    BY <1>2, <1>3, <2>1
  <2>4. if_regframe_size - num_call_args <= iv_reg[a] /\ iv_reg[a] + 1 <= if_regframe_size
    BY <1>0, <1>1, <1>3, <1>4, <2>1, <2>3
  <2> QED BY <1>3, <1>6, <2>1, <2>2, <2>3, <2>4
<1> QED BY <1>5, <1>6

LEMMA ClearRegs ==
  ASSUME NEW a, NEW b, iv_reg[a] \in Nat, iv_reg[b] \in Nat,
         \/ iv_reg[a] + value_regframe_slots(a) <= iv_reg[b]
         \/ iv_reg[b] + value_regframe_slots(b) <= iv_reg[a]
  PROVE  Clear(a, b)
<1>1. value_regframe_slots(a) \in Nat /\ value_regframe_slots(b) \in Nat
  BY DEF value_regframe_slots
<1> QED BY <1>1 DEF Clear

LEMMA HomesSame ==
  ASSUME NEW code, NEW start, NEW rep, Ready(code, start, rep), NEW a, NEW b, Home(a), Home(b), a # b,
         value_regframe_slots(a) = value_regframe_slots(b)
  PROVE  iv_reg[a] = iv_reg[b] \/ Clear(a, b)
<1>0. num_call_args \in Nat /\ if_regframe_size \in Nat
  BY ReadyFacts
<1>1. /\ a \in Values /\ iv_reg[a] \in Nat
      /\ a \in Vertices => iv_reg[a] + value_regframe_slots(a) <= if_regframe_size - num_call_args
      /\ a \notin Vertices => /\ a - call_arg_base \in 0..(num_call_args - 1) /\ value_regframe_slots(a) = 1
                              /\ iv_reg[a] = if_regframe_size - (a - call_arg_base + 1)
                              /\ if_regframe_size - num_call_args <= iv_reg[a]
  BY HomeFacts
<1>2. /\ b \in Values /\ iv_reg[b] \in Nat
      /\ b \in Vertices => iv_reg[b] + value_regframe_slots(b) <= if_regframe_size - num_call_args
      /\ b \notin Vertices => /\ b - call_arg_base \in 0..(num_call_args - 1) /\ value_regframe_slots(b) = 1
                              /\ iv_reg[b] = if_regframe_size - (b - call_arg_base + 1)
                              /\ if_regframe_size - num_call_args <= iv_reg[b]
  BY HomeFacts
<1>3. CASE a \in Vertices /\ b \in Vertices
  <2>1. RegsByColor(Vertices)
    BY DEF Ready, RegsOK
  <2> QED BY <1>3, <2>1 DEF RegsByColor
<1>4. value_regframe_slots(a) \in Nat /\ value_regframe_slots(b) \in Nat
  BY DEF value_regframe_slots
<1>5. CASE a \in Vertices /\ b \notin Vertices
  <2>1. iv_reg[a] + value_regframe_slots(a) <= iv_reg[b]
    BY <1>0, <1>1, <1>2, <1>4, <1>5
  <2> QED BY <1>1, <1>2, <2>1, ClearRegs
<1>6. CASE a \notin Vertices /\ b \in Vertices
  <2>1. iv_reg[b] + value_regframe_slots(b) <= iv_reg[a]
    BY <1>0, <1>1, <1>2, <1>4, <1>6
  <2> QED BY <1>1, <1>2, <2>1, ClearRegs
<1>7. CASE a \notin Vertices /\ b \notin Vertices
  <2>1. a \in Nat /\ b \in Nat /\ call_arg_base \in Nat
    BY <1>1, <1>2, ValuesFinite, RegAllocAssumption DEF call_arg_base
  <2>2. iv_reg[a] + 1 <= iv_reg[b] \/ iv_reg[b] + 1 <= iv_reg[a]
    BY <1>0, <1>1, <1>2, <1>7, <2>1
  <2> QED BY <1>1, <1>2, <1>7, <2>2, ClearRegs
<1> QED BY <1>3, <1>5, <1>6, <1>7

LEMMA HomesApart ==
  ASSUME NEW code, NEW start, NEW rep, Ready(code, start, rep), NEW a, NEW b, Home(a), Home(b), a # b,
         a \in Vertices /\ b \in Vertices => {a, b} \in mtx
  PROVE  Clear(a, b)
<1>0. num_call_args \in Nat /\ if_regframe_size \in Nat /\ ProgGood /\ AllocInv /\ RegsOK
  BY ReadyFacts
<1>1. /\ a \in Values /\ iv_reg[a] \in Nat
      /\ a \in Vertices => iv_reg[a] + value_regframe_slots(a) <= if_regframe_size - num_call_args
      /\ a \notin Vertices => value_regframe_slots(a) = 1 /\ if_regframe_size - num_call_args <= iv_reg[a]
  BY HomeFacts
<1>2. /\ b \in Values /\ iv_reg[b] \in Nat
      /\ b \in Vertices => iv_reg[b] + value_regframe_slots(b) <= if_regframe_size - num_call_args
      /\ b \notin Vertices => value_regframe_slots(b) = 1 /\ if_regframe_size - num_call_args <= iv_reg[b]
  BY HomeFacts
<1>4. value_regframe_slots(a) \in Nat /\ value_regframe_slots(b) \in Nat
  BY DEF value_regframe_slots
<1>3. CASE a \in Vertices /\ b \in Vertices
  <2>1. RegsByColor(Vertices) /\ \A v \in Vertices : colors[v] \in Nat
    BY <1>0 DEF Ready, RegsOK
  <2>2. a \in Temps /\ b \in Temps
    BY <1>0, <1>3, VerticesInTemps DEF ProgGood
  <2>3. colors[a] \in Nat /\ colors[a] # -1
    BY <1>3, <2>1
  <2>4. colors[a] # colors[b]
    BY <1>0, <1>3, <2>2, <2>3 DEF AllocInv, ProperColoring
  <2> QED BY <1>3, <2>1, <2>4 DEF RegsByColor
<1>5. CASE a \in Vertices /\ b \notin Vertices
  <2>1. iv_reg[a] + value_regframe_slots(a) <= iv_reg[b]
    BY <1>0, <1>1, <1>2, <1>4, <1>5
  <2> QED BY <1>1, <1>2, <2>1, ClearRegs
<1>6. CASE a \notin Vertices /\ b \in Vertices
  <2>1. iv_reg[b] + value_regframe_slots(b) <= iv_reg[a]
    BY <1>0, <1>1, <1>2, <1>4, <1>6
  <2> QED BY <1>1, <1>2, <2>1, ClearRegs
<1>7. CASE a \notin Vertices /\ b \notin Vertices
  <2>1. iv_reg[a] # iv_reg[b]
    <3>1. /\ iv_reg[a] = if_regframe_size - (a - call_arg_base + 1)
          /\ iv_reg[b] = if_regframe_size - (b - call_arg_base + 1)
      BY <1>7, HomeFacts
    <3>2. a \in Nat /\ b \in Nat /\ call_arg_base \in Nat
      BY <1>1, <1>2, ValuesFinite, RegAllocAssumption DEF call_arg_base
    <3> QED BY <1>0, <3>1, <3>2
  <2>2. iv_reg[a] + 1 <= iv_reg[b] \/ iv_reg[b] + 1 <= iv_reg[a]
    BY <1>1, <1>2, <2>1
  <2> QED BY <1>1, <1>2, <1>7, <2>2, ClearRegs
<1> QED BY <1>3, <1>5, <1>6, <1>7

(* Where a temporary of the function is. *)
LEMMA RepHome ==
  ASSUME NEW code, NEW start, NEW rep, Ready(code, start, rep), NEW v \in Temps, v \in Defined(prog.instrs)
  PROVE  /\ Home(rep[v]) /\ value_regframe_slots(rep[v]) = value_regframe_slots(v)
         /\ rep[v] \notin Temps => value_regframe_slots(v) = 1
<1>0. RepGood(rep, prog.wide, Defined(prog.instrs), dead, num_call_args) /\ ProgGood
  BY ReadyFacts
<1>1. v \in Values /\ rep[v] \in Values /\ rep[v] \notin dead
  BY <1>0, ValuesFinite DEF RepGood
<1>2. prog.wide \subseteq Temps
  BY <1>0, DefinedTemps
<1>3. CASE rep[v] \in Temps
  <2>1. rep[v] \in Vertices /\ (rep[v] \in prog.wide <=> v \in prog.wide)
    BY <1>0, <1>1, <1>3 DEF RepGood, Vertices
  <2> QED BY <1>3, <2>1 DEF Home, value_regframe_slots
<1>4. CASE rep[v] \notin Temps
  <2>1. v \notin prog.wide /\ rep[v] - call_arg_base \in 0..(num_call_args - 1) /\ rep[v] \notin prog.wide
    BY <1>0, <1>2, <1>4 DEF RepGood
  <2> QED BY <1>1, <2>1 DEF Home, value_regframe_slots
<1> QED BY <1>3, <1>4

-----------------------------------------------------------------------------
(* The function executed *)

(* From register r on is what vl says is in v. *)
HasAt(r, v, vl, rg) == \A h \in 0..(value_regframe_slots(v) - 1) : rg[r + h] = <<vl[v], h>>

(* The temporaries live before instruction n are in their registers. *)
InHomes(rep, n, vl, rg) ==
  \A v \in Temps : v \in live[n].in => HasAt(iv_reg[rep[v]], v, vl, rg)

(* Where the callee will find argument k of call m. *)
SlotOf(m, k) == if_regframe_size - SlotsBefore(Args(m), k + 1)

(* The arguments moved before instruction n are where the callee will find *)
(* them.                                                                   *)
InSlots(code, start, n, vl, rg) ==
  prog.instrs[code[n].at].class = "call" =>
    \A k \in 1..(n - start[code[n].at] - 1) :
      HasAt(SlotOf(code[n].at, k), Args(code[n].at)[k], vl, rg)

Running(code, start, rep) ==
  /\ DOMAIN val = Temps
  /\ phase = "run" =>
       /\ next \in 1..(Len(code) + 1) /\ DOMAIN reg = 0..(if_regframe_size - 1)
       /\ next <= Len(code) => InHomes(rep, next, val, reg) /\ InSlots(code, start, next, val, reg)

(* What is live before a successor is live after the instruction, and if   *)
(* the instruction does not define it, before it.                          *)
LEMMA LiveFlow ==
  ASSUME NEW code, NEW start, NEW rep, Ready(code, start, rep), NEW i \in 1..Len(code),
         NEW j \in SuccOf(code, start, i), NEW y \in Temps, y \in live[j].in
  PROVE  /\ y \in live[i].out /\ y \in Defined(prog.instrs)
         /\ y \notin ToSet(code[i].rets) => y \in live[i].in
<1>1. /\ ProgGood /\ Laid(code, start, NumInstrs + 1) /\ LiveLeast(code, start, live)
      /\ LiveFixed(code, start, live)
  BY ReadyFacts
<1>2. j \in 1..Len(code)
  BY <1>1, SuccPos
<1>3. y \in Defined(prog.instrs)
  BY <1>1, <1>2, LiveDefined
<1>4. /\ live[i].out = UNION {live[k].in : k \in SuccOf(code, start, i)}
      /\ live[i].in = (live[i].out \ ToSet(code[i].rets)) \cup ToSet(code[i].uses)
  BY <1>1 DEF LiveFixed
<1> QED BY <1>3, <1>4

LEMMA UseLive ==
  ASSUME NEW code, NEW start, NEW rep, Ready(code, start, rep), NEW i \in 1..Len(code),
         NEW y \in ToSet(code[i].uses)
  PROVE  y \in live[i].in
<1>1. LiveFixed(code, start, live)
  BY ReadyFacts
<1> QED BY <1>1 DEF LiveFixed

(* Behind an argument move the call goes on; elsewhere no argument is      *)
(* waiting for a call.                                                     *)
LEMMA ArgGoesOn ==
  ASSUME NEW code, NEW start, NEW rep, Ready(code, start, rep), NEW i \in 1..Len(code),
         NEW j \in SuccOf(code, start, i)
  PROVE  /\ ArgAt(code, start, i) => j = i + 1 /\ code[j].at = code[i].at
         /\ ~ArgAt(code, start, i) => First(code, start, j)
<1>1. ProgGood /\ ProgOK /\ Laid(code, start, NumInstrs + 1)
  BY ReadyFacts
<1>2. /\ code[i].at \in 1..NumInstrs /\ start[code[i].at] \in Nat /\ Len(Block(code[i].at)) \in Nat
      /\ prog.instrs[code[i].at].class = "call" => Len(Block(code[i].at)) = Len(Args(code[i].at)) + 1
      /\ prog.instrs[code[i].at].class # "call" => Len(Block(code[i].at)) = 1
  BY <1>1, CodeAt, BlockFacts
<1>3. /\ j \in 1..Len(code)
      /\ \/ Inner(code, start, i) /\ j = i + 1 /\ code[j].at = code[i].at
         \/ ~Inner(code, start, i) /\ First(code, start, j)
  BY <1>1, SuccPos
<1>4. ArgAt(code, start, i) \/ CallAt(code, start, i) \/ BindAt(code, start, i)
  BY <1>1, Kinds
<1>5. CASE ArgAt(code, start, i)
  <2>1. prog.instrs[code[i].at].class = "call" /\ i - start[code[i].at] \in 1..Len(Args(code[i].at))
    BY <1>5 DEF ArgAt
  <2>2. Inner(code, start, i)
    BY <1>2, <2>1 DEF Inner
  <2> QED BY <1>3, <1>5, <2>2
<1>6. CASE CallAt(code, start, i)
  <2>1. prog.instrs[code[i].at].class = "call" /\ i - start[code[i].at] = Len(Args(code[i].at)) + 1
    BY <1>6 DEF CallAt
  <2>2. ~Inner(code, start, i)
    BY <1>2, <2>1 DEF Inner
  <2>3. ~ArgAt(code, start, i)
    <3>1. Len(Args(code[i].at)) \in Nat
      BY <1>1, <1>2, <2>1, ArgsTyped
    <3>2. i - start[code[i].at] \notin 1..Len(Args(code[i].at))
      BY <2>1, <3>1
    <3> QED BY <3>2 DEF ArgAt
  <2> QED BY <1>3, <2>2, <2>3
<1>7. CASE BindAt(code, start, i)
  <2>1. prog.instrs[code[i].at].class # "call" /\ i - start[code[i].at] = 1
    BY <1>7 DEF BindAt
  <2>a. Len(Block(code[i].at)) = 1
    BY <1>2, <2>1
  <2>2. ~Inner(code, start, i)
    BY <2>1, <2>a DEF Inner
  <2>3. ~ArgAt(code, start, i)
    BY <2>1 DEF ArgAt
  <2> QED BY <1>3, <2>2, <2>3
<1> QED BY <1>4, <1>5, <1>6, <1>7

LEMMA SlotsFresh ==
  ASSUME NEW code, NEW start, NEW n, First(code, start, n), NEW vl, NEW rg
  PROVE  InSlots(code, start, n, vl, rg)
<1>1. 1..(n - start[code[n].at] - 1) = {}
  BY DEF First
<1> QED BY <1>1 DEF InSlots

(* q is one of the n registers from r on. *)
Within(q, r, n) == q - r \in 0..(n - 1)

(* No other register changes. *)
OnlyAt(rg, rg2, r, n) ==
  \A q \in 0..(if_regframe_size - 1) : ~Within(q, r, n) => rg2[q] = rg[q]

(* A temporary keeps its contents if nothing is written to its registers. *)
LEMMA Stays ==
  ASSUME NEW code, NEW start, NEW rep, Ready(code, start, rep), NEW y \in Temps,
         y \in Defined(prog.instrs), NEW vl, NEW vl2, NEW rg, NEW rg2, NEW r, NEW n,
         HasAt(iv_reg[rep[y]], y, vl, rg), vl2[y] = vl[y],
         OnlyAt(rg, rg2, r, n),
         \A h \in 0..(value_regframe_slots(y) - 1) : ~Within(iv_reg[rep[y]] + h, r, n)
  PROVE  HasAt(iv_reg[rep[y]], y, vl2, rg2)
<1>1. Home(rep[y]) /\ value_regframe_slots(rep[y]) = value_regframe_slots(y)
  BY RepHome
<1>2. /\ iv_reg[rep[y]] \in Nat /\ iv_reg[rep[y]] + value_regframe_slots(rep[y]) <= if_regframe_size
  BY <1>1, HomeFacts
<1>3. if_regframe_size \in Nat /\ value_regframe_slots(y) \in {1, 2}
  BY ReadyFacts, SlotsOneTwo
<1>4. ASSUME NEW h \in 0..(value_regframe_slots(y) - 1)
      PROVE  rg2[iv_reg[rep[y]] + h] = <<vl2[y], h>>
  <2>1. iv_reg[rep[y]] + h \in 0..(if_regframe_size - 1)
    BY <1>1, <1>2, <1>3
  <2>2. rg2[iv_reg[rep[y]] + h] = rg[iv_reg[rep[y]] + h]
    BY <2>1 DEF OnlyAt
  <2> QED BY <2>2 DEF HasAt
<1> QED BY <1>4 DEF HasAt

(* Registers of values that have none in common. *)
LEMMA ClearOf ==
  ASSUME NEW a, NEW b, Clear(a, b), iv_reg[a] \in Nat, iv_reg[b] \in Nat,
         NEW h \in 0..(value_regframe_slots(b) - 1)
  PROVE  ~Within(iv_reg[b] + h, iv_reg[a], value_regframe_slots(a))
<1>1. value_regframe_slots(a) \in {1, 2} /\ value_regframe_slots(b) \in {1, 2}
  BY SlotsOneTwo
<1>2. ASSUME NEW k \in 0..(value_regframe_slots(a) - 1) PROVE iv_reg[a] + k # iv_reg[b] + h
  BY DEF Clear
<1> QED BY <1>1, <1>2 DEF Within
(* What the instruction at i is the renaming of. *)
LEMMA RenamedAt ==
  ASSUME NEW code, NEW start, NEW rep, Ready(code, start, rep), NEW i \in 1..Len(code)
  PROVE  /\ Len(instrs) = Len(code) /\ instrs[i].at = code[i].at /\ instrs[i].of = code[i].of
         /\ code[i].class \in {"op", "move", "call", "br"}
         /\ instrs[i].class # "destroyed" => KeptAs(instrs[i], code[i], rep)
         /\ instrs[i].class = "destroyed" => GoneAs(instrs[i], code[i], rep)
         /\ instrs[i].rets \in Seq(Values) /\ instrs[i].uses \in Seq(Values)
         /\ code[i].rets \in Seq(Values) /\ code[i].uses \in Seq(Values)
         /\ code[i].at \in 1..NumInstrs
<1>1. /\ ProgOK /\ Laid(code, start, NumInstrs + 1) /\ code \in Seq(Instrs) /\ RenamedTo(instrs, code, rep)
      /\ AllocInv
  BY ReadyFacts
<1>2. /\ Len(instrs) = Len(code) /\ instrs[i].at = code[i].at /\ instrs[i].of = code[i].of
      /\ KeptAs(instrs[i], code[i], rep) \/ GoneAs(instrs[i], code[i], rep)
  BY <1>1 DEF RenamedTo
<1>3. code[i] \in Instrs
  BY <1>1
<1>4. code[i].class # "destroyed"
  <2>1. /\ code[i].at \in 1..NumInstrs /\ i - start[code[i].at] \in 1..Len(Block(code[i].at))
        /\ code[i] = Block(code[i].at)[i - start[code[i].at]]
    BY <1>1, CodeAt
  <2>2. \A k \in 1..Len(Block(code[i].at)) : Block(code[i].at)[k].class # "destroyed"
    BY <1>1, <2>1, BlockFacts
  <2> QED BY <2>1, <2>2
<1>5. code[i].class \in {"op", "move", "call", "br"} /\ code[i].at \in 1..NumInstrs
  BY <1>3, <1>4 DEF Instrs
<1>6. instrs[i].class # "destroyed" => KeptAs(instrs[i], code[i], rep)
  BY <1>2 DEF GoneAs
<1>7. instrs[i].class = "destroyed" => GoneAs(instrs[i], code[i], rep)
  BY <1>2, <1>4 DEF KeptAs
<1>8. instrs \in Seq(Instrs)
  BY <1>1 DEF AllocInv, CodeOK
<1>9. instrs[i].rets \in Seq(Values) /\ instrs[i].uses \in Seq(Values)
  BY <1>2, <1>8, InstrSeqs
<1>10. code[i].rets \in Seq(Values) /\ code[i].uses \in Seq(Values)
  BY <1>1, InstrSeqs
<1> QED BY <1>2, <1>5, <1>6, <1>7, <1>9, <1>10

(* What an instruction defines has no register in common with what is live *)
(* after it.                                                               *)
LEMMA LiveApart ==
  ASSUME NEW code, NEW start, NEW rep, Ready(code, start, rep), NEW i \in 1..Len(code),
         NEW x \in ToSet(code[i].rets), Home(rep[x]),
         NEW y \in Temps, y \in live[i].out, y \in Defined(prog.instrs), y # x,
         ~(code[i].class = "move" /\ y \in ToSet(code[i].uses))
  PROVE  Clear(rep[x], rep[y])
<1>1. ApartIn(code, live, mtx, rep) /\ AllocInv
  BY ReadyFacts
<1>2. {rep[x], rep[y]} \in mtx
  BY <1>1 DEF ApartIn
<1>3. rep[x] # rep[y]
  <2>1. GraphOK
    BY <1>1 DEF AllocInv
  <2>2. {rep[x], rep[x]} \notin mtx
    BY <2>1, NoSelfLoop
  <2> QED BY <1>2, <2>2
<1>4. Home(rep[y])
  BY RepHome
<1> QED BY <1>2, <1>3, <1>4, HomesApart

LEMMA DefineFacts ==
  ASSUME NEW code, NEW start, NEW rep, Ready(code, start, rep), NEW i \in 1..Len(code),
         instrs[i].class \in {"op", "call"}, instrs[i].rets # <<>>,
         NEW d, d = prog.instrs[instrs[i].at].ret
  PROVE  /\ d \in Temps /\ d \in Defined(prog.instrs) /\ ToSet(code[i].rets) = {d}
         /\ instrs[i].rets[1] = rep[d] /\ code[i].class # "move" /\ ~ArgAt(code, start, i)
<1>1. /\ instrs[i].at = code[i].at /\ KeptAs(instrs[i], code[i], rep) /\ code[i].at \in 1..NumInstrs
      /\ instrs[i].rets \in Seq(Values) /\ code[i].rets \in Seq(Values)
  BY RenamedAt
<1>2. ProgGood /\ ProgOK /\ Laid(code, start, NumInstrs + 1)
  BY ReadyFacts
<1>3. /\ code[i].class # "move" /\ Len(instrs[i].rets) = Len(code[i].rets)
      /\ \A k \in 1..Len(code[i].rets) : instrs[i].rets[k] = rep[code[i].rets[k]]
  BY <1>1 DEF KeptAs, Mapped
<1>4. ~ArgAt(code, start, i)
  <2>1. SUFFICES ASSUME ArgAt(code, start, i) PROVE FALSE
    OBVIOUS
  <2>2. code[i].class = "move"
    BY <2>1, InstrFields DEF ArgAt, ArgMove
  <2> QED BY <1>3, <2>2
<1>5. CallAt(code, start, i) \/ BindAt(code, start, i)
  BY <1>2, <1>4, Kinds
<1>6. code[i].rets = Ret(code[i].at)
  <2>1. CASE CallAt(code, start, i)
    <3>1. prog.instrs[code[i].at].class = "call" /\ code[i] = CallOf(code[i].at)
      BY <2>1 DEF CallAt
    <3>2. CallOf(code[i].at).rets = Ret(code[i].at)
      BY <1>1, <1>2, <3>1, CallFacts
    <3> QED BY <3>1, <3>2
  <2>2. CASE BindAt(code, start, i)
    <3>1. code[i] = BindOf(code[i].at)
      BY <2>2 DEF BindAt
    <3>2. BindOf(code[i].at).rets = Ret(code[i].at)
      BY <1>1, <1>2, BindFacts
    <3> QED BY <3>1, <3>2
  <2> QED BY <1>5, <2>1, <2>2
<1>7. Len(code[i].rets) # 0
  BY <1>1, <1>3
<1>8. d # 0 /\ code[i].rets = <<d>>
  <2>1. d = 0 => code[i].rets = <<>>
    BY <1>1, <1>6 DEF Ret
  <2>2. d # 0 => code[i].rets = <<d>>
    BY <1>1, <1>6 DEF Ret
  <2> QED BY <1>7, <2>1, <2>2
<1>9. d \in Temps /\ d \in Defined(prog.instrs)
  BY <1>1, <1>2, <1>8, ProgNames
<1>10. instrs[i].rets[1] = rep[d]
  BY <1>3, <1>8
<1>11. ToSet(code[i].rets) = {d}
  BY <1>8 DEF ToSet
<1> QED BY <1>3, <1>4, <1>9, <1>10, <1>11

(* What running an instruction leaves as it was. *)
RunFrame == UNCHANGED <<analysis, instrs, graph, frame, phase>>

LEMMA RunningNext ==
  ASSUME NEW code, NEW start, NEW rep, Ready(code, start, rep), RunFrame,
         DOMAIN val' = Temps, DOMAIN reg' = 0..(if_regframe_size - 1), next' \in 1..(Len(code) + 1),
         next' <= Len(code) => InHomes(rep, next', val', reg') /\ InSlots(code, start, next', val', reg')
  PROVE  Running(code, start, rep)'
<1>1. /\ prog' = prog /\ live' = live /\ iv_reg' = iv_reg /\ if_regframe_size' = if_regframe_size
  BY DEF RunFrame, analysis, frame
<1>2. /\ \A m : Args(m)' = Args(m)
      /\ \A args, k : SlotsBefore(args, k)' = SlotsBefore(args, k)
      /\ \A v : value_regframe_slots(v)' = value_regframe_slots(v)
  BY <1>1, ArgsFrame
<1> QED BY <1>1, <1>2 DEF Running, InHomes, InSlots, HasAt, SlotOf
LEMMA NextSucc ==
  ASSUME NEW code, NEW start, NEW rep, Ready(code, start, rep), NEW i \in 1..Len(code), i + 1 <= Len(code)
  PROVE  i + 1 \in SuccOf(code, start, i)
  BY DEF SuccOf

LEMMA RunUse ==
  ASSUME NEW code, NEW start, NEW rep, Ready(code, start, rep), Running(code, start, rep),
         NEW i \in 1..Len(code), ExecUse(i)
  PROVE  Running(code, start, rep)'
<1>1. /\ phase = "run" /\ next = i /\ instrs[i].class \in {"op", "call", "br"} /\ instrs[i].rets = <<>>
      /\ next' \in {i + 1} \cup liveness_set_succ(i) /\ RunFrame /\ UNCHANGED <<val, reg>>
  BY DEF ExecUse, Executes, RunFrame
<1>2. /\ ProgGood /\ ProgOK /\ Laid(code, start, NumInstrs + 1) /\ Len(code) \in Nat /\ Len(instrs) = Len(code)
      /\ \A k \in 1..Len(code) : instrs[k].at = code[k].at /\ (instrs[k].class = "br" <=> code[k].class = "br")
  <2>1. \A k \in 1..Len(code) : /\ instrs[k].class # "destroyed" => KeptAs(instrs[k], code[k], rep)
                                /\ instrs[k].class = "destroyed" => GoneAs(instrs[k], code[k], rep)
                                /\ instrs[k].at = code[k].at
    BY RenamedAt
  <2>2. \A k \in 1..Len(code) : instrs[k].class = "br" <=> code[k].class = "br"
    BY <2>1 DEF KeptAs, GoneAs
  <2> QED BY <2>1, <2>2, ReadyFacts, RenamedAt
<1>3. /\ liveness_set_succ(i) = SuccOf(code, start, i) /\ SuccOf(code, start, i) \subseteq 1..Len(code)
  BY <1>2, SuccFacts
<1>4. next' \in 1..(Len(code) + 1) /\ (next' <= Len(code) => next' \in SuccOf(code, start, i))
  <2>1. CASE next' = i + 1
    BY <1>2, <2>1, NextSucc
  <2>2. CASE next' \in SuccOf(code, start, i)
    BY <1>2, <1>3, <2>2
  <2> QED BY <1>1, <1>3, <2>1, <2>2
<1>5. KeptAs(instrs[i], code[i], rep) /\ code[i].rets \in Seq(Values)
  BY <1>1, RenamedAt
<1>6. code[i].rets = <<>> /\ code[i].class # "move"
  <2>1. Len(code[i].rets) = 0 /\ code[i].class # "move"
    BY <1>1, <1>5 DEF KeptAs, Mapped
  <2> QED BY <1>5, <2>1
<1>7. ToSet(code[i].rets) = {}
  BY <1>6 DEF ToSet
<1>8. ~ArgAt(code, start, i)
  <2>1. SUFFICES ASSUME ArgAt(code, start, i) PROVE FALSE
    OBVIOUS
  <2>2. code[i].class = "move"
    BY <2>1, InstrFields DEF ArgAt, ArgMove
  <2> QED BY <1>6, <2>2
<1>9. /\ DOMAIN val = Temps /\ DOMAIN reg = 0..(if_regframe_size - 1) /\ InHomes(rep, i, val, reg)
  BY <1>1, <1>2 DEF Running
<1>10. ASSUME NEW j \in SuccOf(code, start, i)
       PROVE  InHomes(rep, j, val', reg') /\ InSlots(code, start, j, val', reg')
  <2>1. InSlots(code, start, j, val', reg')
    BY <1>8, ArgGoesOn, SlotsFresh
  <2>2. ASSUME NEW y \in Temps, y \in live[j].in PROVE HasAt(iv_reg[rep[y]], y, val', reg')
    <3>1. y \in live[i].in
      BY <1>7, <2>2, LiveFlow
    <3> QED BY <1>1, <1>9, <3>1 DEF InHomes
  <2> QED BY <2>1, <2>2 DEF InHomes
<1> QED BY <1>1, <1>4, <1>9, <1>10, RunningNext

LEMMA RunDefine ==
  ASSUME NEW code, NEW start, NEW rep, Ready(code, start, rep), Running(code, start, rep),
         NEW i \in 1..Len(code), ExecDefine(i)
  PROVE  Running(code, start, rep)'
<1> DEFINE d == prog.instrs[instrs[i].at].ret
           R == iv_reg[instrs[i].rets[1]]
           n == value_regframe_slots(d)
<1>1. PICK t : /\ val' = [val EXCEPT ![d] = t]
               /\ reg' = [q \in DOMAIN reg |-> IF q - R \in 0..(n - 1) THEN <<t, q - R>> ELSE reg[q]]
  BY DEF ExecDefine, Stored
<1>2. /\ phase = "run" /\ next = i /\ instrs[i].class \in {"op", "call"} /\ instrs[i].rets # <<>>
      /\ next' = i + 1 /\ RunFrame
  BY DEF ExecDefine, Executes, RunFrame
<1>3. /\ d \in Temps /\ d \in Defined(prog.instrs) /\ ToSet(code[i].rets) = {d}
      /\ instrs[i].rets[1] = rep[d] /\ code[i].class # "move" /\ ~ArgAt(code, start, i)
  BY <1>2, DefineFacts
<1> HIDE DEF d
<1>4. Len(code) \in Nat /\ if_regframe_size \in Nat
  BY ReadyFacts
<1>5. /\ DOMAIN val = Temps /\ DOMAIN reg = 0..(if_regframe_size - 1) /\ InHomes(rep, i, val, reg)
  BY <1>2, <1>4 DEF Running
<1>6. Home(rep[d]) /\ value_regframe_slots(rep[d]) = n
  BY <1>3, RepHome
<1>7. iv_reg[rep[d]] = R /\ R \in Nat /\ R + n <= if_regframe_size /\ n \in {1, 2}
  BY <1>3, <1>6, HomeFacts, SlotsOneTwo
<1> HIDE DEF R
<1>8. ASSUME NEW j \in SuccOf(code, start, i)
      PROVE  InHomes(rep, j, val', reg') /\ InSlots(code, start, j, val', reg')
  <2>1. InSlots(code, start, j, val', reg')
    BY <1>3, ArgGoesOn, SlotsFresh
  <2>2. ASSUME NEW y \in Temps, y \in live[j].in PROVE HasAt(iv_reg[rep[y]], y, val', reg')
    <3>1. CASE y = d
      <4>1. val'[y] = t
        BY <1>1, <1>3, <1>5, <3>1
      <4>2. ASSUME NEW h \in 0..(n - 1) PROVE reg'[R + h] = <<t, h>>
        <5> HIDE DEF n
        <5>1. R + h \in DOMAIN reg /\ (R + h) - R = h
          BY <1>4, <1>5, <1>7
        <5> QED BY <1>1, <5>1
      <4> QED BY <1>7, <3>1, <4>1, <4>2 DEF HasAt
    <3>2. CASE y # d
      <4>1. y \in live[i].in /\ y \in live[i].out /\ y \in Defined(prog.instrs)
        BY <1>3, <2>2, <3>2, LiveFlow
      <4>2. HasAt(iv_reg[rep[y]], y, val, reg)
        BY <1>5, <4>1 DEF InHomes
      <4>3. Clear(rep[d], rep[y])
        BY <1>3, <1>6, <3>2, <4>1, LiveApart
      <4>4. Home(rep[y]) /\ value_regframe_slots(rep[y]) = value_regframe_slots(y)
        BY <4>1, RepHome
      <4>5. iv_reg[rep[y]] \in Nat
        BY <4>4, HomeFacts
      <4>6. ASSUME NEW h \in 0..(value_regframe_slots(y) - 1) PROVE ~Within(iv_reg[rep[y]] + h, R, n)
        <5>1. h \in 0..(value_regframe_slots(rep[y]) - 1) /\ iv_reg[rep[d]] \in Nat
          BY <1>7, <4>4
        <5>2. ~Within(iv_reg[rep[y]] + h, iv_reg[rep[d]], value_regframe_slots(rep[d]))
          BY <4>3, <4>5, <5>1, ClearOf
        <5> QED BY <1>6, <1>7, <5>2
      <4>7. OnlyAt(reg, reg', R, n)
        BY <1>1, <1>5 DEF Within, OnlyAt
      <4>8. val'[y] = val[y]
        BY <1>1, <1>5, <3>2
      <4> HIDE DEF n
      <4> QED BY <4>1, <4>2, <4>6, <4>7, <4>8, Stays
    <3> QED BY <3>1, <3>2
  <2> QED BY <2>1, <2>2 DEF InHomes
<1>9. DOMAIN val' = Temps /\ DOMAIN reg' = 0..(if_regframe_size - 1)
  BY <1>1, <1>5
<1>10. next' \in 1..(Len(code) + 1) /\ (next' <= Len(code) => next' \in SuccOf(code, start, i))
  BY <1>2, <1>4, NextSucc
<1> QED BY <1>2, <1>8, <1>9, <1>10, RunningNext
-----------------------------------------------------------------------------
(* Argument moves *)

LEMMA SlotRegs ==
  ASSUME NEW code, NEW start, NEW rep, Ready(code, start, rep), NEW s \in Nat, s < num_call_args,
         NEW x, x = call_arg_base + s, x \in Values
  PROVE  /\ Home(x) /\ x \notin Temps /\ rep[x] = x /\ value_regframe_slots(x) = 1
         /\ iv_reg[x] = if_regframe_size - (s + 1)
<1>1. /\ ProgGood /\ num_call_args \in Nat /\ if_regframe_size \in Nat
      /\ RepGood(rep, prog.wide, Defined(prog.instrs), dead, num_call_args)
  BY ReadyFacts
<1>2. call_arg_base \in Nat /\ x \notin Temps /\ x - call_arg_base = s
  BY RegAllocAssumption DEF call_arg_base, Temps
<1>3. Home(x)
  BY <1>1, <1>2 DEF Home
<1>4. x \notin Vertices
  BY <1>2, <1>3, HomeFacts
<1>5. iv_reg[x] = if_regframe_size - (x - call_arg_base + 1) /\ value_regframe_slots(x) = 1
  BY <1>3, <1>4, HomeFacts
<1>6. rep[x] = x
  BY <1>1, <1>2 DEF RepGood
<1> QED BY <1>2, <1>3, <1>5, <1>6

(* The registers an argument move writes are those where the callee finds  *)
(* the argument, and belong to the slots that the move defines.            *)
LEMMA ArgWrites ==
  ASSUME NEW code, NEW start, NEW rep, Ready(code, start, rep), NEW i \in 1..Len(code),
         ArgAt(code, start, i), NEW m, m = code[i].at, NEW k, k = i - start[m], NEW v, v = Args(m)[k],
         NEW R, R = SlotOf(m, k)
  PROVE  /\ k \in 1..Len(Args(m)) /\ Args(m) \in Seq(Temps) /\ prog.instrs[m].class = "call"
         /\ v \in Temps /\ v \in Defined(prog.instrs)
         /\ code[i].class = "move" /\ code[i].uses = <<v>> /\ code[i].of = <<v>>
         /\ R \in Nat /\ if_regframe_size - num_call_args <= R
         /\ R + value_regframe_slots(v) <= if_regframe_size
         /\ R + value_regframe_slots(v) = if_regframe_size - SlotsBefore(Args(m), k)
         /\ Len(code[i].rets) = value_regframe_slots(v)
         /\ iv_reg[rep[code[i].rets[1]]] = R /\ Home(rep[code[i].rets[1]])
         /\ value_regframe_slots(rep[code[i].rets[1]]) = 1 /\ \A x \in ToSet(code[i].rets) : x \notin Temps
         /\ \A h \in 0..(value_regframe_slots(v) - 1) :
              \E x \in ToSet(code[i].rets) :
                x \notin Temps /\ rep[x] = x /\ Home(x) /\ iv_reg[x] = R + h /\ value_regframe_slots(x) = 1
<1> DEFINE s == SlotsBefore(Args(m), k)
<1> HIDE DEF s
<1>0. s = SlotsBefore(Args(m), k)
  BY DEF s
<1>1. /\ ProgGood /\ ProgOK /\ Laid(code, start, NumInstrs + 1) /\ ArgsFit
      /\ num_call_args \in Nat /\ if_regframe_size \in Nat /\ num_call_args <= if_regframe_size
  BY ReadyFacts
<1>2. /\ m \in 1..NumInstrs /\ prog.instrs[m].class = "call" /\ k \in 1..Len(Args(m))
      /\ code[i] = ArgMove(m, k)
  BY <1>1, CodeAt DEF ArgAt
<1>a. /\ Args(m) \in Seq(Temps) /\ Len(Args(m)) \in 0..MaxArgs
      /\ v \in Temps /\ v \in Defined(prog.instrs)
      /\ s \in Nat /\ call_arg_base + s \in Values /\ call_arg_base + s + 1 \in Values
      /\ SlotsBefore(Args(m), k + 1) = s + value_regframe_slots(v)
      /\ ArgMove(m, k).class = "move" /\ ArgMove(m, k).uses = <<v>> /\ ArgMove(m, k).of = <<v>>
      /\ v \in prog.wide => ArgMove(m, k).rets = <<call_arg_base + s + 1, call_arg_base + s>>
      /\ v \notin prog.wide => ArgMove(m, k).rets = <<call_arg_base + s>>
  BY ONLY <1>0, <1>1, <1>2, v = Args(m)[k], ArgFacts, RegAllocAssumption
<1>3. Args(m) \in Seq(Temps) /\ Len(Args(m)) \in Nat /\ s \in Nat
  BY <1>a
<1>4. s + value_regframe_slots(v) <= num_call_args
  <2>1. SlotsBefore(Args(m), Len(Args(m)) + 1) <= num_call_args
    <3>1. phase # "prepare"
      BY DEF Ready
    <3> QED BY <1>1, <1>2, <3>1 DEF ArgsFit
  <2>2. k + 1 \in 1..(Len(Args(m)) + 1) /\ Len(Args(m)) + 1 \in 1..(Len(Args(m)) + 1) /\ k + 1 <= Len(Args(m)) + 1
    BY ONLY <1>2, <1>3
  <2>3. SlotsBefore(Args(m), k + 1) <= SlotsBefore(Args(m), Len(Args(m)) + 1)
    BY <1>3, <1>a, <2>2, SlotsMore
  <2>4. SlotsBefore(Args(m), Len(Args(m)) + 1) \in Int
    BY <1>3, <1>a, <2>2, SlotsBound
  <2>5. value_regframe_slots(v) \in {1, 2}
    BY SlotsOneTwo
  <2> QED BY <1>1, <1>3, <1>a, <2>1, <2>3, <2>4, <2>5
<1>5. R = if_regframe_size - (s + value_regframe_slots(v)) /\ value_regframe_slots(v) \in {1, 2}
  BY <1>3, <1>a, SlotsOneTwo DEF SlotOf
<1>6. /\ R \in Nat /\ if_regframe_size - num_call_args <= R
      /\ R + value_regframe_slots(v) <= if_regframe_size
      /\ R + value_regframe_slots(v) = if_regframe_size - s
  BY <1>1, <1>3, <1>a, <1>4, <1>5
<1> DEFINE a == call_arg_base + s
           b == call_arg_base + s + 1
<1>7. /\ Home(a) /\ a \notin Temps /\ rep[a] = a /\ value_regframe_slots(a) = 1
      /\ iv_reg[a] = if_regframe_size - (s + 1)
  <2>1. s < num_call_args
    BY <1>1, <1>3, <1>a, <1>4, <1>5
  <2> QED BY <1>3, <1>a, <2>1, SlotRegs
<1>8. CASE v \in prog.wide
  <2>1. value_regframe_slots(v) = 2 /\ code[i].rets = <<b, a>>
    BY <1>2, <1>3, <1>a, <1>8 DEF value_regframe_slots
  <2>2. s + 1 \in Nat /\ s + 1 < num_call_args /\ b = call_arg_base + (s + 1)
    BY <1>1, <1>3, <1>a, <1>4, <2>1, RegAllocAssumption DEF call_arg_base
  <2>3. /\ Home(b) /\ b \notin Temps /\ rep[b] = b /\ value_regframe_slots(b) = 1
        /\ iv_reg[b] = if_regframe_size - (s + 1 + 1)
    BY <1>3, <1>a, <2>2, SlotRegs
  <2> HIDE DEF a, b
  <2>4. ToSet(code[i].rets) = {b, a} /\ Len(code[i].rets) = 2 /\ code[i].rets[1] = b
    <3>1. DOMAIN <<b, a>> = {1, 2} /\ <<b, a>>[1] = b /\ <<b, a>>[2] = a /\ Len(<<b, a>>) = 2
      OBVIOUS
    <3> QED BY <2>1, <3>1 DEF ToSet
  <2>5. iv_reg[b] = R + 0 /\ iv_reg[a] = R + 1 /\ iv_reg[b] = R
    BY ONLY <1>1, <1>3, <1>5, <1>7, <2>1, <2>3
  <2>6. \A h \in 0..(value_regframe_slots(v) - 1) : h = 0 \/ h = 1
    BY <2>1
  <2>7. \A h \in 0..(value_regframe_slots(v) - 1) :
          \E x \in ToSet(code[i].rets) :
            x \notin Temps /\ rep[x] = x /\ Home(x) /\ iv_reg[x] = R + h /\ value_regframe_slots(x) = 1
    BY <1>7, <2>3, <2>4, <2>5, <2>6
  <2> QED BY <1>2, <1>3, <1>a, <1>6, <1>7, <2>1, <2>3, <2>4, <2>5, <2>7, <1>0
<1>9. CASE v \notin prog.wide
  <2>1. value_regframe_slots(v) = 1 /\ code[i].rets = <<a>>
    BY <1>2, <1>3, <1>a, <1>9 DEF value_regframe_slots
  <2> HIDE DEF a, b
  <2>4. ToSet(code[i].rets) = {a} /\ Len(code[i].rets) = 1 /\ code[i].rets[1] = a
    BY <2>1 DEF ToSet
  <2>5. iv_reg[a] = R + 0 /\ iv_reg[a] = R
    BY ONLY <1>1, <1>3, <1>5, <1>7, <2>1
  <2>6. \A h \in 0..(value_regframe_slots(v) - 1) : h = 0
    BY <2>1
  <2>7. \A h \in 0..(value_regframe_slots(v) - 1) :
          \E x \in ToSet(code[i].rets) :
            x \notin Temps /\ rep[x] = x /\ Home(x) /\ iv_reg[x] = R + h /\ value_regframe_slots(x) = 1
    BY <1>7, <2>4, <2>5, <2>6
  <2> QED BY <1>2, <1>3, <1>a, <1>6, <1>7, <2>1, <2>4, <2>5, <2>7, <1>0
<1> QED BY <1>8, <1>9
(* What moving argument k of call m does, whether the move is executed or  *)
(* was merged away.                                                        *)
ArgEffect(code, start, rep, i, m, k, v, R, vl, rg, rg2) ==
  /\ Ready(code, start, rep) /\ i \in 1..Len(code) /\ ArgAt(code, start, i)
  /\ m = code[i].at /\ k = i - start[m] /\ v = Args(m)[k] /\ R = SlotOf(m, k)
  /\ InHomes(rep, i, vl, rg) /\ InSlots(code, start, i, vl, rg)
  /\ HasAt(R, v, vl, rg2) /\ OnlyAt(rg, rg2, R, value_regframe_slots(v))

(* An argument move, done or merged away. *)
LEMMA RunArg ==
  ASSUME NEW code, NEW start, NEW rep, NEW i, NEW m, NEW k, NEW v, NEW R, NEW vl, NEW rg, NEW rg2,
         ArgEffect(code, start, rep, i, m, k, v, R, vl, rg, rg2), NEW j \in SuccOf(code, start, i)
  PROVE  InHomes(rep, j, vl, rg2) /\ InSlots(code, start, j, vl, rg2)
<1>0. /\ Ready(code, start, rep) /\ i \in 1..Len(code) /\ ArgAt(code, start, i)
      /\ m = code[i].at /\ k = i - start[m] /\ v = Args(m)[k] /\ R = SlotOf(m, k)
      /\ InHomes(rep, i, vl, rg) /\ InSlots(code, start, i, vl, rg)
      /\ HasAt(R, v, vl, rg2) /\ OnlyAt(rg, rg2, R, value_regframe_slots(v))
  BY DEF ArgEffect
<1> USE <1>0
<1> DEFINE n == value_regframe_slots(v)
<1>1. /\ k \in 1..Len(Args(m)) /\ Args(m) \in Seq(Temps) /\ prog.instrs[m].class = "call"
      /\ v \in Temps /\ v \in Defined(prog.instrs)
      /\ code[i].class = "move" /\ code[i].uses = <<v>>
      /\ R \in Nat /\ if_regframe_size - num_call_args <= R
      /\ R + n <= if_regframe_size
      /\ R + n = if_regframe_size - SlotsBefore(Args(m), k)
      /\ Len(code[i].rets) = n
      /\ iv_reg[rep[code[i].rets[1]]] = R /\ Home(rep[code[i].rets[1]])
      /\ value_regframe_slots(rep[code[i].rets[1]]) = 1
      /\ \A x \in ToSet(code[i].rets) : x \notin Temps
      /\ \A h \in 0..(n - 1) :
           \E x \in ToSet(code[i].rets) :
             x \notin Temps /\ rep[x] = x /\ Home(x) /\ iv_reg[x] = R + h /\ value_regframe_slots(x) = 1
  BY ONLY Ready(code, start, rep), i \in 1..Len(code), ArgAt(code, start, i), m = code[i].at,
          k = i - start[m], v = Args(m)[k], R = SlotOf(m, k), ArgWrites
<1>2. n \in {1, 2} /\ num_call_args \in Nat /\ if_regframe_size \in Nat /\ num_call_args <= if_regframe_size
  BY SlotsOneTwo, ReadyFacts
<1> HIDE DEF n
<1>3. j = i + 1 /\ code[j].at = m
  BY ArgGoesOn
<1>4. InHomes(rep, j, vl, rg2)
  <2>1. SUFFICES ASSUME NEW y \in Temps, y \in live[j].in PROVE HasAt(iv_reg[rep[y]], y, vl, rg2)
    BY DEF InHomes
  <2>2. y \in live[i].in /\ y \in live[i].out /\ y \in Defined(prog.instrs)
    BY <1>1, <2>1, LiveFlow
  <2>3. HasAt(iv_reg[rep[y]], y, vl, rg)
    BY <2>2 DEF InHomes
  <2>4. Home(rep[y]) /\ value_regframe_slots(rep[y]) = value_regframe_slots(y)
        /\ (rep[y] \notin Temps => value_regframe_slots(y) = 1)
    BY <2>2, RepHome
  <2>5. /\ iv_reg[rep[y]] \in Nat /\ value_regframe_slots(y) \in {1, 2}
        /\ rep[y] \in Temps => iv_reg[rep[y]] + value_regframe_slots(y) <= if_regframe_size - num_call_args
    BY <2>4, HomeFacts, SlotsOneTwo
  <2>6. SUFFICES (\A h \in 0..(value_regframe_slots(y) - 1) : ~Within(iv_reg[rep[y]] + h, R, n))
                 \/ (y = v /\ iv_reg[rep[y]] = R)
    <3>1. OnlyAt(rg, rg2, R, n)
      BY DEF n
    <3>2. CASE \A h \in 0..(value_regframe_slots(y) - 1) : ~Within(iv_reg[rep[y]] + h, R, n)
      BY <2>2, <2>3, <3>1, <3>2, Stays
    <3> QED BY <3>2
  <2>7. CASE rep[y] \in Temps
    <3>1. ASSUME NEW h \in 0..(value_regframe_slots(y) - 1) PROVE ~Within(iv_reg[rep[y]] + h, R, n)
      <4>1. iv_reg[rep[y]] + h < R
        BY ONLY <1>1, <1>2, <2>5, <2>7, h \in 0..(value_regframe_slots(y) - 1)
      <4> QED BY ONLY <1>1, <1>2, <2>5, <4>1, h \in 0..(value_regframe_slots(y) - 1) DEF Within
    <3> QED BY <3>1
  <2>8. CASE y = v /\ rep[y] \notin Temps
    <3>1. n = 1 /\ value_regframe_slots(rep[y]) = 1
      BY <2>4, <2>8 DEF n
    <3> DEFINE x == rep[code[i].rets[1]]
    <3>2. Home(x) /\ iv_reg[x] = R /\ value_regframe_slots(x) = 1
      BY <1>1
    <3> HIDE DEF x
    <3>3. iv_reg[rep[y]] = R \/ Clear(x, rep[y])
      <4>1. CASE x = rep[y]
        BY <3>2, <4>1
      <4>2. CASE x # rep[y]
        BY <2>4, <3>1, <3>2, <4>2, HomesSame
      <4> QED BY <4>1, <4>2
    <3>4. ASSUME Clear(x, rep[y]), NEW h \in 0..(value_regframe_slots(y) - 1)
          PROVE  ~Within(iv_reg[rep[y]] + h, R, n)
      <4>1. ~Within(iv_reg[rep[y]] + h, iv_reg[x], value_regframe_slots(x))
        BY <1>1, <2>4, <2>5, <3>2, <3>4, ClearOf
      <4> QED BY <3>1, <3>2, <4>1
    <3> QED BY <2>8, <3>3, <3>4
  <2>9. CASE y # v
    <3>1. ASSUME NEW h \in 0..(value_regframe_slots(y) - 1), Within(iv_reg[rep[y]] + h, R, n) PROVE FALSE
      <4> DEFINE g == (iv_reg[rep[y]] + h) - R
      <4>1. g \in 0..(n - 1)
        BY <3>1, Zenon DEF Within
      <4>a. R \in Nat /\ iv_reg[rep[y]] \in Nat /\ h \in Nat
        BY <1>1, <2>5
      <4>2. R + g = iv_reg[rep[y]] + h
        BY ONLY <4>a
      <4> HIDE DEF g
      <4>3. PICK x \in ToSet(code[i].rets) :
              x \notin Temps /\ rep[x] = x /\ Home(x) /\ iv_reg[x] = R + g /\ value_regframe_slots(x) = 1
        BY <1>1, <4>1
      <4>4. y \notin ToSet(code[i].uses)
        BY <1>1, <2>9 DEF ToSet
      <4>5. Clear(x, rep[y])
        BY <2>2, <4>3, <4>4, LiveApart
      <4>6. h \in 0..(value_regframe_slots(rep[y]) - 1) /\ 0 \in 0..(value_regframe_slots(x) - 1)
        BY <2>4, <4>3
      <4>7. iv_reg[x] + 0 # iv_reg[rep[y]] + h
        BY <4>5, <4>6 DEF Clear
      <4>8. iv_reg[x] \in Nat
        BY <4>3, HomeFacts
      <4> QED BY <4>2, <4>3, <4>7, <4>8
    <3> QED BY <3>1
  <2> QED BY <2>7, <2>8, <2>9
<1>5. InSlots(code, start, j, vl, rg2)
  <2>1. start[m] \in Nat /\ i \in Nat /\ k \in Nat /\ j - start[code[j].at] - 1 = k /\ i - start[code[i].at] - 1 = k - 1
    <3>1. start[m] \in Nat
      BY ReadyFacts, CodeAt
    <3>2. i \in Nat /\ i - start[m] = k /\ j = i + 1
      BY <1>3, ReadyFacts
    <3>3. k \in Nat
      BY <1>1
    <3>4. j - start[m] - 1 = k /\ i - start[m] - 1 = k - 1
      BY ONLY <3>1, <3>2, <3>3
    <3> QED BY <1>3, <3>1, <3>2, <3>3, <3>4
  <2>a. ASSUME \A l \in 1..k : HasAt(SlotOf(m, l), Args(m)[l], vl, rg2)
        PROVE  InSlots(code, start, j, vl, rg2)
    BY <1>3, <2>1, <2>a DEF InSlots
  <2>2. SUFFICES ASSUME NEW l \in 1..k PROVE HasAt(SlotOf(m, l), Args(m)[l], vl, rg2)
    BY <2>a
  <2>3. CASE l = k
    BY <2>3
  <2>4. CASE l # k
    <3> DEFINE w == value_regframe_slots(Args(m)[l])
    <3>1. l \in 1..(k - 1) /\ l \in 1..Len(Args(m)) /\ Len(Args(m)) \in Nat /\ k \in 1..Len(Args(m))
      BY ONLY <1>1, <2>1, <2>4, l \in 1..k
    <3>2. HasAt(SlotOf(m, l), Args(m)[l], vl, rg)
      BY <1>1, <2>1, <3>1 DEF InSlots
    <3>3. /\ SlotsBefore(Args(m), l) \in Nat /\ SlotsBefore(Args(m), l + 1) \in Nat
          /\ SlotsBefore(Args(m), l + 1) = SlotsBefore(Args(m), l) + w
      BY <1>1, <3>1, SlotsNext
    <3>4. /\ l + 1 \in 1..(Len(Args(m)) + 1) /\ k \in 1..(Len(Args(m)) + 1) /\ l + 1 <= k
      BY ONLY <3>1
    <3>5. SlotsBefore(Args(m), l + 1) <= SlotsBefore(Args(m), k)
      BY <1>1, <3>4, SlotsMore
    <3>6. SlotsBefore(Args(m), k) \in Nat /\ w \in {1, 2}
      BY <1>1, SlotsNext, SlotsOneTwo
    <3> HIDE DEF w
    <3>7. ASSUME NEW h \in 0..(w - 1)
          PROVE  SlotOf(m, l) + h \in 0..(if_regframe_size - 1) /\ ~Within(SlotOf(m, l) + h, R, n)
      <4> DEFINE q == if_regframe_size - SlotsBefore(Args(m), l + 1) + h
      <4>1. SlotOf(m, l) + h = q
        BY DEF SlotOf
      <4>a. R \in Nat /\ R + n = if_regframe_size - SlotsBefore(Args(m), k)
        BY <1>1
      <4>2. q \in 0..(if_regframe_size - 1) /\ q - R \notin 0..(n - 1)
        <5> DEFINE a == SlotsBefore(Args(m), l + 1)
                   b == SlotsBefore(Args(m), l)
                   s == SlotsBefore(Args(m), k)
                   size == if_regframe_size
        <5>1. /\ n \in Nat /\ w \in Nat /\ a \in Nat /\ b \in Nat /\ s \in Nat /\ size \in Nat /\ R \in Nat
              /\ a = b + w /\ a <= s /\ R + n = size - s /\ h \in 0..(w - 1)
          BY <1>2, <3>3, <3>5, <3>6, <4>a
        <5> HIDE DEF a, b, s, size
        <5>2. size - a + h \in 0..(size - 1) /\ (size - a + h) - R \notin 0..(n - 1)
          BY ONLY <5>1
        <5> QED BY <5>2, Zenon DEF a, size, q
      <4> HIDE DEF q
      <4>3. ~Within(q, R, n)
        BY <4>2, Zenon DEF Within
      <4> QED BY <4>1, <4>2, <4>3
    <3>8. OnlyAt(rg, rg2, R, n)
      BY DEF n
    <3>9. \A h \in 0..(w - 1) : rg2[SlotOf(m, l) + h] = rg[SlotOf(m, l) + h]
      BY <3>7, <3>8 DEF OnlyAt
    <3> QED BY <3>2, <3>9 DEF HasAt, w
  <2> QED BY <2>3, <2>4
<1> QED BY <1>4, <1>5
-----------------------------------------------------------------------------
(* The moves of the function *)

LEMMA ToSetOne ==
  ASSUME NEW x
  PROVE  ToSet(<<x>>) = {x}
  BY DEF ToSet

LEMMA SeqOne ==
  ASSUME NEW S, NEW s \in Seq(S), Len(s) = 1
  PROVE  s = <<s[1]>>
  OBVIOUS

(* d becomes what u was. *)
Assigns(vl, vl2, d, u) == vl2[d] = vl[u] /\ \A y \in Temps : y # d => vl2[y] = vl[y]

(* What a move of u to d does, whether it is executed or was merged away. *)
BindEffect(code, start, rep, i, d, u, vl, vl2, rg, rg2) ==
  /\ Ready(code, start, rep) /\ i \in 1..Len(code) /\ code[i].class = "move" /\ BindAt(code, start, i)
  /\ d = prog.instrs[code[i].at].ret /\ u = code[i].uses[1]
  /\ Assigns(vl, vl2, d, u) /\ InHomes(rep, i, vl, rg) /\ HasAt(iv_reg[rep[d]], u, vl, rg2)
  /\ OnlyAt(rg, rg2, iv_reg[rep[d]], value_regframe_slots(u))

(* A move of the function, done or merged away. *)
LEMMA RunBind ==
  ASSUME NEW code, NEW start, NEW rep, NEW i, NEW d, NEW u, NEW vl, NEW vl2, NEW rg, NEW rg2,
         BindEffect(code, start, rep, i, d, u, vl, vl2, rg, rg2), NEW j \in SuccOf(code, start, i)
  PROVE  InHomes(rep, j, vl2, rg2) /\ InSlots(code, start, j, vl2, rg2)
<1>0. /\ Ready(code, start, rep) /\ i \in 1..Len(code) /\ code[i].class = "move" /\ BindAt(code, start, i)
      /\ d = prog.instrs[code[i].at].ret /\ u = code[i].uses[1]
      /\ Assigns(vl, vl2, d, u) /\ InHomes(rep, i, vl, rg) /\ HasAt(iv_reg[rep[d]], u, vl, rg2)
      /\ OnlyAt(rg, rg2, iv_reg[rep[d]], value_regframe_slots(u))
  BY DEF BindEffect
<1> USE <1>0
<1>1. /\ u \in Temps /\ u \in Defined(prog.instrs) /\ Len(code[i].uses) = 1
      /\ code[i].rets = <<d>> /\ d \in Temps /\ d \in Defined(prog.instrs)
      /\ (d \in prog.wide <=> u \in prog.wide)
  BY ReadyFacts, MoveSource
<1>2. ToSet(code[i].rets) = {d} /\ ToSet(code[i].uses) = {u}
  <2>1. code[i].uses \in Seq(Values)
    BY RenamedAt
  <2>2. code[i].uses = <<u>>
    BY <1>1, <2>1, SeqOne
  <2> QED BY <1>1, <2>2, ToSetOne
<1>3. value_regframe_slots(d) = value_regframe_slots(u) /\ value_regframe_slots(u) \in {1, 2}
  BY <1>1, SlotsOneTwo DEF value_regframe_slots
<1>4. Home(rep[d]) /\ value_regframe_slots(rep[d]) = value_regframe_slots(u)
  BY <1>1, <1>3, RepHome
<1>5. iv_reg[rep[d]] \in Nat
  BY <1>4, HomeFacts
<1>6. ~ArgAt(code, start, i)
  BY DEF ArgAt, BindAt
<1>7. InSlots(code, start, j, vl2, rg2)
  BY <1>6, ArgGoesOn, SlotsFresh
<1>8. ASSUME NEW y \in Temps, y \in live[j].in PROVE HasAt(iv_reg[rep[y]], y, vl2, rg2)
  <2>1. CASE y = d
    <3>1. vl2[d] = vl[u]
      BY DEF Assigns
    <3> QED BY <1>3, <2>1, <3>1 DEF HasAt
  <2>2. CASE y # d
    <3>1. vl2[y] = vl[y]
      BY <2>2 DEF Assigns
    <3>2. y \in live[i].in /\ y \in live[i].out /\ y \in Defined(prog.instrs)
      BY <1>2, <1>8, <2>2, LiveFlow
    <3>3. HasAt(iv_reg[rep[y]], y, vl, rg)
      BY <3>2 DEF InHomes
    <3>4. Home(rep[y]) /\ value_regframe_slots(rep[y]) = value_regframe_slots(y)
      BY <3>2, RepHome
    <3>5. iv_reg[rep[y]] \in Nat
      BY <3>4, HomeFacts
    <3>6. Clear(rep[d], rep[y]) \/ (y = u /\ iv_reg[rep[d]] = iv_reg[rep[y]])
      <4>1. CASE y = u /\ rep[d] = rep[y]
        BY <4>1
      <4>2. CASE y = u /\ rep[d] # rep[y]
        <5>1. iv_reg[rep[d]] = iv_reg[rep[y]] \/ Clear(rep[d], rep[y])
          BY <1>4, <3>4, <4>2, HomesSame
        <5> QED BY <4>2, <5>1
      <4>3. CASE y # u
        BY <1>2, <1>4, <2>2, <3>2, <4>3, LiveApart
      <4> QED BY <4>1, <4>2, <4>3
    <3>7. CASE Clear(rep[d], rep[y])
      <4>1. ASSUME NEW h \in 0..(value_regframe_slots(y) - 1)
            PROVE  ~Within(iv_reg[rep[y]] + h, iv_reg[rep[d]], value_regframe_slots(u))
        <5>1. ~Within(iv_reg[rep[y]] + h, iv_reg[rep[d]], value_regframe_slots(rep[d]))
          BY <1>5, <3>4, <3>5, <3>7, ClearOf
        <5> QED BY <1>4, <5>1
      <4> QED BY <3>1, <3>2, <3>3, <4>1, Stays
    <3>8. CASE y = u /\ iv_reg[rep[d]] = iv_reg[rep[y]]
      BY <3>1, <3>8 DEF HasAt
    <3> QED BY <3>6, <3>7, <3>8
  <2> QED BY <2>1, <2>2
<1> QED BY <1>7, <1>8 DEF InHomes

(* What a move stores. *)
LEMMA Copies ==
  ASSUME NEW rg, NEW rg2, NEW R \in Nat, NEW U, NEW u, NEW vl, if_regframe_size \in Nat,
         DOMAIN rg = 0..(if_regframe_size - 1), R + value_regframe_slots(u) <= if_regframe_size,
         HasAt(U, u, vl, rg),
         rg2 = [q \in DOMAIN rg |-> IF q - R \in 0..(value_regframe_slots(u) - 1) THEN rg[U + (q - R)] ELSE rg[q]]
  PROVE  HasAt(R, u, vl, rg2) /\ OnlyAt(rg, rg2, R, value_regframe_slots(u))
<1>1. OnlyAt(rg, rg2, R, value_regframe_slots(u))
  BY DEF OnlyAt, Within
<1>2. value_regframe_slots(u) \in {1, 2}
  BY SlotsOneTwo
<1>3. ASSUME NEW h \in 0..(value_regframe_slots(u) - 1) PROVE rg2[R + h] = <<vl[u], h>>
  <2>1. R + h \in DOMAIN rg /\ (R + h) - R = h
    BY <1>2
  <2>2. rg2[R + h] = rg[U + h]
    BY <2>1
  <2> QED BY <2>2 DEF HasAt
<1> QED BY <1>1, <1>3 DEF HasAt

LEMMA RunMove ==
  ASSUME NEW code, NEW start, NEW rep, Ready(code, start, rep), Running(code, start, rep),
         NEW i \in 1..Len(code), ExecMove(i)
  PROVE  Running(code, start, rep)'
<1> DEFINE m == instrs[i].at
           u == instrs[i].of[1]
           R == iv_reg[instrs[i].rets[1]]
           U == iv_reg[instrs[i].uses[1]]
<1>1. /\ phase = "run" /\ next = i /\ instrs[i].class = "move" /\ next' = i + 1 /\ RunFrame
      /\ reg' = [q \in DOMAIN reg |-> IF q - R \in 0..(value_regframe_slots(u) - 1)
                                      THEN reg[U + (q - R)] ELSE reg[q]]
      /\ val' = IF prog.instrs[m].class = "move" THEN [val EXCEPT ![prog.instrs[m].ret] = val[u]] ELSE val
  BY DEF ExecMove, Executes, RunFrame, Stored
<1>2. /\ Len(code) \in Nat /\ if_regframe_size \in Nat /\ ProgGood /\ Laid(code, start, NumInstrs + 1)
      /\ num_call_args \in Nat
  BY ReadyFacts
<1>3. /\ DOMAIN val = Temps /\ DOMAIN reg = 0..(if_regframe_size - 1) /\ InHomes(rep, i, val, reg)
      /\ InSlots(code, start, i, val, reg)
  BY <1>1, <1>2 DEF Running
<1>4. /\ m = code[i].at /\ instrs[i].of = code[i].of /\ KeptAs(instrs[i], code[i], rep)
      /\ code[i].rets \in Seq(Values) /\ code[i].uses \in Seq(Values)
  BY <1>1, RenamedAt
<1>5. /\ code[i].class = "move"
      /\ \A k \in 1..Len(code[i].rets) : instrs[i].rets[k] = rep[code[i].rets[k]]
      /\ \A k \in 1..Len(code[i].uses) : instrs[i].uses[k] = rep[code[i].uses[k]]
  BY <1>1, <1>4 DEF KeptAs, Mapped
<1>6. /\ Len(code[i].uses) = 1 /\ code[i].of = code[i].uses /\ u \in Temps /\ u \in Defined(prog.instrs)
      /\ ArgAt(code, start, i) \/ (BindAt(code, start, i) /\ prog.instrs[m].class = "move")
      /\ u = code[i].uses[1]
  <2>1. /\ Len(code[i].uses) = 1 /\ code[i].of = code[i].uses
        /\ code[i].uses[1] \in Temps /\ code[i].uses[1] \in Defined(prog.instrs)
        /\ ArgAt(code, start, i) \/ (BindAt(code, start, i) /\ prog.instrs[code[i].at].class = "move")
    BY <1>2, <1>5, MoveSource
  <2> QED BY <1>4, <2>1
<1>7. U = iv_reg[rep[u]] /\ HasAt(U, u, val, reg)
  <2>1. instrs[i].uses[1] = rep[u]
    BY <1>5, <1>6
  <2>2. u \in ToSet(code[i].uses)
    BY <1>4, <1>6, ToSetTyped
  <2>3. u \in live[i].in
    BY <2>2, UseLive
  <2> QED BY <1>3, <1>6, <2>1, <2>3 DEF InHomes
<1>8. next' \in 1..(Len(code) + 1) /\ (next' <= Len(code) => next' \in SuccOf(code, start, i))
  BY <1>1, <1>2, NextSucc
<1>9. DOMAIN reg' = 0..(if_regframe_size - 1)
  BY <1>1, <1>3
<1>10. CASE ArgAt(code, start, i)
  <2> DEFINE k == i - start[m]
  <2>1. /\ k \in 1..Len(Args(m)) /\ prog.instrs[m].class = "call"
        /\ code[i].of = <<Args(m)[k]>>
        /\ SlotOf(m, k) \in Nat /\ SlotOf(m, k) + value_regframe_slots(Args(m)[k]) <= if_regframe_size
        /\ Len(code[i].rets) = value_regframe_slots(Args(m)[k])
        /\ iv_reg[rep[code[i].rets[1]]] = SlotOf(m, k)
    BY <1>4, <1>10, ArgWrites
  <2>2. u = Args(m)[k] /\ val' = val
    BY <1>1, <1>4, <2>1
  <2>3. R = SlotOf(m, k) /\ R \in Nat /\ R + value_regframe_slots(u) <= if_regframe_size
    <3>1. Len(code[i].rets) \in {1, 2}
      BY <2>1, SlotsOneTwo
    <3>2. instrs[i].rets[1] = rep[code[i].rets[1]]
      BY <1>5, <3>1
    <3> QED BY <2>1, <2>2, <3>2
  <2> HIDE DEF R, U, u, k, m
  <2>4. HasAt(R, u, val, reg') /\ OnlyAt(reg, reg', R, value_regframe_slots(u))
    BY <1>1, <1>2, <1>3, <1>7, <2>3, Copies
  <2>5. ASSUME NEW j \in SuccOf(code, start, i)
        PROVE  InHomes(rep, j, val', reg') /\ InSlots(code, start, j, val', reg')
    <3>1. k = i - start[m]
      BY DEF k
    <3>2. InHomes(rep, j, val, reg') /\ InSlots(code, start, j, val, reg')
      <4>1. ArgEffect(code, start, rep, i, m, k, u, R, val, reg, reg')
        BY <1>3, <1>4, <1>10, <2>2, <2>3, <2>4, <3>1 DEF ArgEffect
      <4> QED BY <4>1, RunArg
    <3> QED BY <2>2, <3>2
  <2> QED BY <1>1, <1>3, <1>8, <1>9, <2>2, <2>5, RunningNext
<1>11. CASE BindAt(code, start, i) /\ prog.instrs[m].class = "move"
  <2> DEFINE d == prog.instrs[m].ret
  <2>1. code[i].rets = <<d>> /\ d \in Temps /\ d \in Defined(prog.instrs) /\ (d \in prog.wide <=> u \in prog.wide)
    BY <1>2, <1>4, <1>5, <1>6, <1>11, MoveSource
  <2>2. val' = [val EXCEPT ![d] = val[u]]
    BY <1>1, <1>11
  <2>3. instrs[i].rets[1] = rep[d]
    BY <1>5, <2>1
  <2>4. value_regframe_slots(d) = value_regframe_slots(u)
    BY <2>1 DEF value_regframe_slots
  <2>5. Home(rep[d]) /\ value_regframe_slots(rep[d]) = value_regframe_slots(u)
    BY <2>1, <2>4, RepHome
  <2>6. R = iv_reg[rep[d]] /\ R \in Nat /\ R + value_regframe_slots(u) <= if_regframe_size
    BY <2>3, <2>5, HomeFacts
  <2>7. d = prog.instrs[code[i].at].ret
    BY <1>4
  <2> HIDE DEF R, U, u, d, m
  <2>8. HasAt(R, u, val, reg') /\ OnlyAt(reg, reg', R, value_regframe_slots(u))
    BY <1>1, <1>2, <1>3, <1>7, <2>6, Copies
  <2>9. ASSUME NEW j \in SuccOf(code, start, i)
        PROVE  InHomes(rep, j, val', reg') /\ InSlots(code, start, j, val', reg')
    <3>1. HasAt(iv_reg[rep[d]], u, val, reg') /\ OnlyAt(reg, reg', iv_reg[rep[d]], value_regframe_slots(u))
      BY <2>6, <2>8
    <3>2. Assigns(val, val', d, u)
      BY <1>3, <2>1, <2>2 DEF Assigns
    <3>3. /\ code[i].class = "move" /\ BindAt(code, start, i) /\ u = code[i].uses[1]
          /\ InHomes(rep, i, val, reg)
      BY <1>3, <1>5, <1>6, <1>11
    <3>4. BindEffect(code, start, rep, i, d, u, val, val', reg, reg')
      BY <2>7, <3>1, <3>2, <3>3 DEF BindEffect
    <3> QED BY <3>4, RunBind
  <2>10. DOMAIN val' = Temps
    BY <1>3, <2>2
  <2> QED BY <1>1, <1>8, <1>9, <2>9, <2>10, RunningNext
<1> QED BY <1>6, <1>10, <1>11
LEMMA RunDestroyed ==
  ASSUME NEW code, NEW start, NEW rep, Ready(code, start, rep), Running(code, start, rep),
         NEW i \in 1..Len(code), ExecDestroyed(i)
  PROVE  Running(code, start, rep)'
<1> DEFINE m == instrs[i].at
           u == instrs[i].of[1]
<1>1. /\ phase = "run" /\ next = i /\ instrs[i].class = "destroyed" /\ next' = i + 1 /\ RunFrame
      /\ reg' = reg
      /\ val' = IF prog.instrs[m].class = "move" THEN [val EXCEPT ![prog.instrs[m].ret] = val[u]] ELSE val
  BY DEF ExecDestroyed, Executes, RunFrame
<1>2. Len(code) \in Nat /\ ProgGood /\ Laid(code, start, NumInstrs + 1)
  BY ReadyFacts
<1>3. /\ DOMAIN val = Temps /\ DOMAIN reg = 0..(if_regframe_size - 1) /\ InHomes(rep, i, val, reg)
      /\ InSlots(code, start, i, val, reg)
  BY <1>1, <1>2 DEF Running
<1>4. /\ m = code[i].at /\ instrs[i].of = code[i].of /\ GoneAs(instrs[i], code[i], rep)
      /\ code[i].rets \in Seq(Values) /\ code[i].uses \in Seq(Values)
  BY <1>1, RenamedAt
<1>5. code[i].class = "move" /\ Len(code[i].rets) = 1 /\ rep[code[i].rets[1]] = rep[code[i].uses[1]]
  BY <1>4 DEF GoneAs
<1>6. /\ Len(code[i].uses) = 1 /\ u \in Temps /\ u \in Defined(prog.instrs) /\ u = code[i].uses[1]
      /\ ArgAt(code, start, i) \/ (BindAt(code, start, i) /\ prog.instrs[m].class = "move")
  <2>1. /\ Len(code[i].uses) = 1 /\ code[i].of = code[i].uses
        /\ code[i].uses[1] \in Temps /\ code[i].uses[1] \in Defined(prog.instrs)
        /\ ArgAt(code, start, i) \/ (BindAt(code, start, i) /\ prog.instrs[code[i].at].class = "move")
    BY <1>2, <1>5, MoveSource
  <2> QED BY <1>4, <2>1
<1>7. HasAt(iv_reg[rep[u]], u, val, reg)
  <2>1. u \in ToSet(code[i].uses)
    BY <1>4, <1>6, ToSetTyped
  <2>2. u \in live[i].in
    BY <2>1, UseLive
  <2> QED BY <1>3, <1>6, <2>2 DEF InHomes
<1>8. next' \in 1..(Len(code) + 1) /\ (next' <= Len(code) => next' \in SuccOf(code, start, i))
  BY <1>1, <1>2, NextSucc
<1>9. DOMAIN reg' = 0..(if_regframe_size - 1)
  BY <1>1, <1>3
<1>a. \A r, n : OnlyAt(reg, reg, r, n)
  BY DEF OnlyAt
<1>10. CASE ArgAt(code, start, i)
  <2> DEFINE k == i - start[m]
             R == SlotOf(m, k)
  <2>1. /\ prog.instrs[m].class = "call" /\ code[i].of = <<Args(m)[k]>>
        /\ iv_reg[rep[code[i].rets[1]]] = SlotOf(m, k)
    BY <1>4, <1>10, ArgWrites
  <2>2. u = Args(m)[k] /\ val' = val
    BY <1>1, <1>4, <2>1
  <2>3. R = iv_reg[rep[u]]
    BY <1>5, <1>6, <2>1
  <2>b. R = SlotOf(m, k)
    OBVIOUS
  <2> HIDE DEF R, u, k, m
  <2>4. HasAt(R, u, val, reg) /\ OnlyAt(reg, reg, R, value_regframe_slots(u))
    BY <1>7, <1>a, <2>3
  <2>5. ASSUME NEW j \in SuccOf(code, start, i)
        PROVE  InHomes(rep, j, val', reg') /\ InSlots(code, start, j, val', reg')
    <3>1. k = i - start[m]
      BY DEF k
    <3>2. InHomes(rep, j, val, reg) /\ InSlots(code, start, j, val, reg)
      <4>1. ArgEffect(code, start, rep, i, m, k, u, R, val, reg, reg)
        BY <1>3, <1>4, <1>10, <2>b, <2>2, <2>4, <3>1 DEF ArgEffect
      <4> QED BY <4>1, RunArg
    <3> QED BY <1>1, <2>2, <3>2
  <2> QED BY <1>1, <1>3, <1>8, <1>9, <2>2, <2>5, RunningNext
<1>11. CASE BindAt(code, start, i) /\ prog.instrs[m].class = "move"
  <2> DEFINE d == prog.instrs[m].ret
  <2>1. code[i].rets = <<d>> /\ d \in Temps /\ d \in Defined(prog.instrs)
    BY <1>2, <1>4, <1>5, <1>6, <1>11, MoveSource
  <2>2. val' = [val EXCEPT ![d] = val[u]] /\ d = prog.instrs[code[i].at].ret
    BY <1>1, <1>4, <1>11
  <2>3. rep[d] = rep[u]
    BY <1>5, <1>6, <2>1
  <2> HIDE DEF u, d, m
  <2>4. ASSUME NEW j \in SuccOf(code, start, i)
        PROVE  InHomes(rep, j, val', reg') /\ InSlots(code, start, j, val', reg')
    <3>1. HasAt(iv_reg[rep[d]], u, val, reg') /\ OnlyAt(reg, reg', iv_reg[rep[d]], value_regframe_slots(u))
      BY <1>1, <1>7, <1>a, <2>3
    <3>2. Assigns(val, val', d, u)
      BY <1>3, <2>1, <2>2 DEF Assigns
    <3>3. BindEffect(code, start, rep, i, d, u, val, val', reg, reg')
      BY <1>3, <1>5, <1>6, <1>11, <2>2, <3>1, <3>2 DEF BindEffect
    <3> QED BY <3>3, RunBind
  <2>5. DOMAIN val' = Temps
    BY <1>3, <2>2
  <2> QED BY <1>1, <1>8, <1>9, <2>4, <2>5, RunningNext
<1> QED BY <1>6, <1>10, <1>11

(* The function starts with nothing to be found in its registers. *)
LEMMA RunStart ==
  ASSUME ProgGood, NEW code, NEW start, NEW rep, Compiled(code, start, rep), Running(code, start, rep),
         finalize_call_args
  PROVE  Running(code, start, rep)'
<1>1. /\ phase = "finalize" /\ next' = 1 /\ prog' = prog /\ live' = live /\ val' = val
      /\ if_regframe_size' = if_regframe_size + num_call_args
      /\ reg' = [r \in 0..((if_regframe_size + num_call_args) - 1) |-> <<0, 0>>]
  BY DEF finalize_call_args, analysis
<1>2. LiveOK(code, start)
  BY DEF Compiled
<1>3. Laid(code, start, NumInstrs + 1) /\ LiveLeast(code, start, live) /\ code \in Seq(Instrs)
  BY <1>1, <1>2 DEF LiveOK, Laid
<1>4. 1 \in 1..Len(code) /\ First(code, start, 1) /\ \A v \in Temps : v \notin live[1].in
  BY <1>3, EntryClean
<1>5. InHomes(rep, next, val, reg)'
  BY <1>1, <1>4 DEF InHomes
<1>6. InSlots(code, start, next, val, reg)'
  <2>1. 1..(1 - start[code[1].at] - 1) = {}
    BY <1>4 DEF First
  <2> QED BY <1>1, <2>1 DEF InSlots
<1>7. next' \in 1..(Len(code) + 1)
  BY <1>1, <1>4
<1>8. DOMAIN reg' = 0..(if_regframe_size' - 1)
  BY <1>1
<1> QED BY <1>1, <1>5, <1>6, <1>7, <1>8 DEF Running
LEMMA RunningEarly ==
  ASSUME NEW code, NEW start, NEW rep, DOMAIN val = Temps, val' = val, phase' # "run"
  PROVE  Running(code, start, rep)'
  BY DEF Running

LEMMA RunningSame ==
  ASSUME NEW code, NEW start, NEW rep, Running(code, start, rep), UNCHANGED vars
  PROVE  Running(code, start, rep)'
<1>1. /\ prog' = prog /\ live' = live /\ iv_reg' = iv_reg /\ if_regframe_size' = if_regframe_size
      /\ next' = next /\ val' = val /\ reg' = reg /\ phase' = phase
  BY DEF vars
<1>2. /\ \A m : Args(m)' = Args(m)
      /\ \A args, k : SlotsBefore(args, k)' = SlotsBefore(args, k)
      /\ \A v : value_regframe_slots(v)' = value_regframe_slots(v)
  BY <1>1, ArgsFrame
<1> QED BY <1>1, <1>2 DEF Running, InHomes, InSlots, HasAt, SlotOf

LEMMA RunningKept ==
  ASSUME ProgGood, AllocInv, RegsOK, NEW code, NEW start, NEW rep, Compiled(code, start, rep),
         Running(code, start, rep), [Next]_vars
  PROVE  Running(code, start, rep)'
<1>0. DOMAIN val = Temps
  BY DEF Running
<1>1. CASE \/ \E i \in 1..NumInstrs : prepare_calls(i)
           \/ StartLiveness \/ liveness_update \/ Interfere \/ CoalesceDone
  BY <1>0, <1>1, RunningEarly
  DEF prepare_calls, StartLiveness, liveness_update, Interfere, CoalesceDone, execution
<1>2. CASE \E i \in 1..Len(instrs) : Merge(i) \/ DestroyMove(i) \/ Keep(i)
  BY <1>0, <1>2, RunningEarly DEF Merge, DestroyMove, Keep, Visit
<1>3. CASE \E v \in Temps : ColorNext(v)
  BY <1>0, <1>3, RunningEarly DEF ColorNext, execution
<1>4. CASE AssignNarrow \/ AssignWide
  BY <1>0, <1>4, RunningEarly DEF AssignNarrow, AssignWide, execution
<1>5. CASE finalize_call_args
  BY <1>5, RunStart
<1>6. ASSUME NEW i \in 1..Len(instrs), ExecDefine(i) \/ ExecMove(i) \/ ExecDestroyed(i) \/ ExecUse(i)
      PROVE  Running(code, start, rep)'
  <2>1. phase = "run"
    BY <1>6 DEF ExecDefine, ExecMove, ExecDestroyed, ExecUse, Executes
  <2>2. Ready(code, start, rep)
    BY <2>1 DEF Ready
  <2>3. i \in 1..Len(code)
    BY DEF Compiled, RenamedTo
  <2> QED BY <1>6, <2>2, <2>3, RunDefine, RunMove, RunDestroyed, RunUse
<1>7. CASE UNCHANGED vars
  BY <1>7, RunningSame
<1> QED BY <1>1, <1>2, <1>3, <1>4, <1>5, <1>6, <1>7 DEF Next

-----------------------------------------------------------------------------
(* ReadsRight *)

RunInv ==
  /\ AllocInv /\ ProgGood /\ RegsOK
  /\ \E code, start, rep : Compiled(code, start, rep) /\ Running(code, start, rep)

LEMMA RunInit == Init => RunInv
<1> SUFFICES ASSUME Init PROVE RunInv
  OBVIOUS
<1>1. AllocInv /\ ProgGood /\ RegsOK
  BY AllocInitOK, ProgGoodInit, RegsInit
<1>2. PICK start : start = [m \in 1..(NumInstrs + 1) |-> 0]
  OBVIOUS
<1>3. Compiled(<<>>, start, Unmerged)
  BY <1>2, CompiledInit
<1>4. Running(<<>>, start, Unmerged)
  BY DEF Running, Init
<1> QED BY <1>1, <1>3, <1>4 DEF RunInv

LEMMA RunStep == RunInv /\ [Next]_vars => RunInv'
<1> SUFFICES ASSUME RunInv, [Next]_vars PROVE RunInv'
  OBVIOUS
<1>1. AllocInv /\ ProgGood /\ RegsOK
  BY DEF RunInv
<1>2. PICK code, start, rep : Compiled(code, start, rep) /\ Running(code, start, rep)
  BY DEF RunInv
<1>3. num_call_args \in Nat /\ DOMAIN val = Temps
  BY <1>2 DEF Compiled, ArgsFit, Running
<1>4. AllocInv' /\ ProgGood' /\ RegsOK'
  BY <1>1, <1>3, AllocStep, ProgGoodKept, RegsStep
<1>5. SUFFICES \E c, s, r : Compiled(c, s, r)' /\ Running(c, s, r)'
  BY <1>4 DEF RunInv
<1>6. CASE \E i \in 1..NumInstrs : prepare_calls(i)
  <2>1. PICK i \in 1..NumInstrs : prepare_calls(i)
    BY <1>6
  <2>2. PICK c, s : c = code \o Block(i) /\ s = [start EXCEPT ![i + 1] = start[i] + Len(Block(i))]
    OBVIOUS
  <2>3. Compiled(c, s, rep)'
    BY <1>1, <1>2, <2>1, <2>2, CompiledPrepared
  <2>4. Running(c, s, rep)'
    BY <1>3, <2>1, RunningEarly DEF prepare_calls
  <2> QED BY <2>3, <2>4
<1>7. CASE Interfere
  <2>1. Compiled(code, start, rep)'
    BY <1>1, <1>2, <1>7, CompiledInterfere
  <2> QED BY <1>1, <1>2, <2>1, RunningKept
<1>8. CASE \E i \in 1..Len(instrs) : DestroyMove(i)
  <2>1. Compiled(code, start, rep)'
    BY <1>1, <1>2, <1>8, CompiledDestroy
  <2> QED BY <1>1, <1>2, <2>1, RunningKept
<1>9. CASE \E i \in 1..Len(instrs) : Merge(i)
  <2>1. PICK i \in 1..Len(instrs) : Merge(i)
    BY <1>9
  <2>2. PICK r : Compiled(code, start, r)'
    BY <1>1, <1>2, <2>1, CompiledMerge
  <2>3. Running(code, start, r)'
    BY <1>3, <2>1, RunningEarly DEF Merge, Visit
  <2> QED BY <2>2, <2>3
<1>10. CASE /\ ~(\E i \in 1..NumInstrs : prepare_calls(i)) /\ ~Interfere
            /\ ~(\E i \in 1..Len(instrs) : Merge(i) \/ DestroyMove(i))
  <2>1. Compiled(code, start, rep)'
    BY <1>1, <1>2, <1>10, CompiledKept
  <2> QED BY <1>1, <1>2, <2>1, RunningKept
<1> QED BY <1>6, <1>7, <1>8, <1>9, <1>10

LEMMA RunAlways == Spec => []RunInv
  BY RunInit, RunStep, PTL DEF Spec

(* An instruction that was not destroyed reads where the temporaries and   *)
(* the arguments are.                                                      *)
LEMMA ReadsAt ==
  ASSUME NEW code, NEW start, NEW rep, Ready(code, start, rep), Running(code, start, rep),
         NEW i, i = next, i <= Len(instrs), instrs[i].class # "destroyed", NEW r \in Reads(i)
  PROVE  HasAt(r.at, r.value, val, reg)
<1>1. /\ ProgGood /\ ProgOK /\ Laid(code, start, NumInstrs + 1) /\ Len(code) \in Nat
      /\ RenamedTo(instrs, code, rep) /\ if_regframe_size \in Nat
  BY ReadyFacts
<1>2. i \in 1..Len(code) /\ InHomes(rep, i, val, reg) /\ InSlots(code, start, i, val, reg)
  <2>1. next \in 1..(Len(code) + 1) /\ Len(instrs) = Len(code)
    BY <1>1 DEF Running, Ready, RenamedTo
  <2> QED BY <1>1, <2>1 DEF Running, Ready
<1>3. /\ instrs[i].at = code[i].at /\ instrs[i].of = code[i].of /\ KeptAs(instrs[i], code[i], rep)
      /\ code[i].at \in 1..NumInstrs /\ code[i].uses \in Seq(Values)
  BY <1>2, RenamedAt
<1>4. /\ instrs[i].class = code[i].class
      /\ \A k \in 1..Len(code[i].uses) : instrs[i].uses[k] = rep[code[i].uses[k]]
  BY <1>3 DEF KeptAs, Mapped
<1> DEFINE m == code[i].at
           args == IF instrs[i].class = "call" THEN Args(instrs[i].at) ELSE <<>>
(* A temporary the instruction names itself. *)
<1>5. ASSUME NEW k \in 1..Len(code[i].uses), code[i].uses[k] \in Temps
      PROVE  HasAt(iv_reg[instrs[i].uses[k]], code[i].uses[k], val, reg)
  <2>1. code[i].uses[k] \in ToSet(code[i].uses)
    BY <1>3, ToSetTyped
  <2>2. code[i].uses[k] \in live[i].in
    BY <1>2, <2>1, UseLive
  <2> QED BY <1>2, <1>4, <1>5, <2>2 DEF InHomes
<1>6. \/ \E k \in 1..Len(instrs[i].of) : r = [at |-> iv_reg[instrs[i].uses[Len(args) + k]], value |-> instrs[i].of[k]]
      \/ \E k \in 1..Len(args) : r = [at |-> if_regframe_size - SlotsBefore(args, k + 1), value |-> args[k]]
  BY DEF Reads
<1>7. CASE CallAt(code, start, i)
  <2>1. prog.instrs[m].class = "call" /\ i - start[m] = Len(Args(m)) + 1 /\ code[i] = CallOf(m)
    BY <1>7 DEF CallAt
  <2>2. /\ Args(m) \in Seq(Temps) /\ Len(Args(m)) \in Nat /\ code[i].class = "call" /\ code[i].of = Callee(m)
        /\ \A k \in 1..Len(Callee(m)) :
             /\ Callee(m)[k] \in ToSet(prog.instrs[m].uses) /\ Len(Args(m)) + k \in 1..Len(code[i].uses)
             /\ code[i].uses[Len(Args(m)) + k] = Callee(m)[k]
    BY <1>1, <1>3, <2>1, CallFacts
  <2>3. args = Args(m)
    BY <1>3, <1>4, <2>2
  <2> HIDE DEF args
  <2>4. ASSUME NEW k \in 1..Len(instrs[i].of),
               r = [at |-> iv_reg[instrs[i].uses[Len(args) + k]], value |-> instrs[i].of[k]]
        PROVE  HasAt(r.at, r.value, val, reg)
    <3>1. /\ k \in 1..Len(Callee(m)) /\ instrs[i].of[k] = Callee(m)[k]
      BY <1>3, <2>2, <2>4
    <3>2. Callee(m)[k] \in Temps
      BY <1>1, <1>3, <2>2, <3>1, ProgNames
    <3>3. HasAt(iv_reg[instrs[i].uses[Len(Args(m)) + k]], Callee(m)[k], val, reg)
      BY <1>5, <2>2, <3>1, <3>2
    <3> QED BY <2>3, <2>4, <3>1, <3>3
  <2>5. ASSUME NEW k \in 1..Len(args),
               r = [at |-> if_regframe_size - SlotsBefore(args, k + 1), value |-> args[k]]
        PROVE  HasAt(r.at, r.value, val, reg)
    <3>1. (i - start[m]) - 1 = Len(Args(m))
      BY <2>1, <2>2
    <3>2. k \in 1..((i - start[m]) - 1)
      BY <2>3, <3>1
    <3>3. HasAt(SlotOf(m, k), Args(m)[k], val, reg)
      BY <1>2, <2>1, <3>2 DEF InSlots
    <3> QED BY <2>3, <2>5, <3>3 DEF SlotOf
  <2> QED BY <1>6, <2>4, <2>5
<1>8. CASE ~CallAt(code, start, i)
  <2>1. code[i].of = code[i].uses /\ code[i].class # "call" /\ \A k \in 1..Len(code[i].uses) : code[i].uses[k] \in Temps
    <3>1. CASE ArgAt(code, start, i)
      <4>1. /\ code[i].class = "move"
        BY <3>1, InstrFields DEF ArgAt, ArgMove
      <4>2. Len(code[i].uses) = 1 /\ code[i].of = code[i].uses /\ code[i].uses[1] \in Temps
        BY <1>1, <1>2, <4>1, MoveSource
      <4> QED BY <4>1, <4>2
    <3>2. CASE BindAt(code, start, i)
      <4>1. prog.instrs[m].class # "call" /\ code[i] = BindOf(m)
        BY <3>2 DEF BindAt
      <4>2. /\ BindOf(m).class = prog.instrs[m].class /\ BindOf(m).uses = prog.instrs[m].uses
            /\ BindOf(m).of = prog.instrs[m].uses /\ prog.instrs[m].uses \in Seq(Temps)
        BY <1>1, <1>3, BindFacts
      <4> QED BY <4>1, <4>2
    <3> QED BY <1>1, <1>2, <1>8, <3>1, <3>2, Kinds
  <2>2. args = <<>> /\ Len(args) = 0
    BY <1>4, <2>1
  <2> HIDE DEF args
  <2>3. PICK k \in 1..Len(instrs[i].of) :
          r = [at |-> iv_reg[instrs[i].uses[Len(args) + k]], value |-> instrs[i].of[k]]
    <3>1. 1..Len(args) = {}
      BY <2>2
    <3> QED BY <1>6, <3>1
  <2>4. k \in 1..Len(code[i].uses) /\ Len(args) + k = k /\ instrs[i].of[k] = code[i].uses[k]
    BY <1>3, <2>1, <2>2, <2>3
  <2>5. HasAt(iv_reg[instrs[i].uses[k]], code[i].uses[k], val, reg)
    BY <1>5, <2>1, <2>4
  <2> QED BY <2>3, <2>4, <2>5
<1> QED BY <1>7, <1>8

(* For every function, however liveness_analysis, coalesce and reg_alloc   *)
(* treat it: when it is executed, every instruction finds in its registers *)
(* and every callee in its argument slots what the program says is there.  *)
THEOREM ReadsAlwaysRight == Spec => []ReadsRight
<1>1. RunInv => ReadsRight
  <2> SUFFICES ASSUME RunInv, phase = "run", next <= Len(instrs), instrs[next].class # "destroyed",
                      NEW r \in Reads(next), NEW h \in 0..(value_regframe_slots(r.value) - 1)
               PROVE  reg[r.at + h] = <<val[r.value], h>>
    BY DEF ReadsRight
  <2>1. PICK code, start, rep : Compiled(code, start, rep) /\ Running(code, start, rep)
    BY DEF RunInv
  <2>2. Ready(code, start, rep)
    BY <2>1 DEF RunInv, Ready
  <2>3. HasAt(r.at, r.value, val, reg)
    BY <2>1, <2>2, ReadsAt
  <2> QED BY <2>3 DEF HasAt
<1> QED BY <1>1, RunAlways, PTL
=============================================================================
