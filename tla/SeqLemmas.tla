----------------------------- MODULE SeqLemmas -----------------------------
(***************************************************************************)
(* Lemmas about the sequences that stand for the queues of the code:       *)
(* TAILQ_INSERT_AFTER is InsertAt, TAILQ_REMOVE and LIST_REMOVE are        *)
(* RemoveAt.                                                               *)
(***************************************************************************)
EXTENDS Integers, Sequences, SequencesExt, SequenceTheorems, WellFoundedInduction, TLAPS

(* A non-empty set of naturals has a least element, which is how the proofs *)
(* reason by induction over positions: the provers cannot instantiate an    *)
(* induction theorem whose parameter is an operator.                        *)
LEMMA LeastNatural ==
  ASSUME NEW T, T \subseteq Nat, T # {}
  PROVE  \E n \in T : \A m \in T : n <= m
<1> DEFINE R == {p \in Nat \X Nat : p[1] < p[2]}
<1>1. IsWellFoundedOn(R, Nat)
  BY NatLessThanWellFounded DEF OpToRel
<1> HIDE DEF R
<1>2. PICK x \in T : \A y \in T : ~(<<y, x>> \in R)
  BY <1>1, WFMin, Zenon
<1>3. \A y \in T : x <= y
  <2> SUFFICES ASSUME NEW y \in T, y < x PROVE FALSE
    OBVIOUS
  <2>1. <<y, x>> \in R
    BY DEF R
  <2> QED BY <2>1, <1>2
<1> QED BY <1>3

LEMMA NatSetInduction ==
  ASSUME NEW S, 0 \in S, \A n \in Nat : n \in S => n + 1 \in S
  PROVE  Nat \subseteq S
<1> DEFINE T == Nat \ S
<1>1. SUFFICES ASSUME T # {} PROVE FALSE
  OBVIOUS
<1>2. PICK n \in T : \A m \in T : n <= m
  BY <1>1, LeastNatural
<1>3. n # 0 /\ n \in Nat
  OBVIOUS
<1>4. n - 1 \in Nat /\ n - 1 < n /\ (n - 1) + 1 = n
  BY <1>3
<1>5. n - 1 \in S
  BY <1>2, <1>4
<1> QED BY <1>4, <1>5

(* t is s with e inserted at position i: the effect of TAILQ_INSERT_AFTER. *)
IsInsertion(t, s, i, e) ==
  /\ Len(t) = Len(s) + 1
  /\ \A j \in 1..(i-1) : t[j] = s[j]
  /\ t[i] = e
  /\ \A j \in (i+1)..(Len(s)+1) : t[j] = s[j-1]

(* What InsertAt returns, element by element. *)
LEMMA InsertAtFacts ==
  ASSUME NEW S, NEW s \in Seq(S), NEW i \in 1..(Len(s) + 1), NEW e \in S
  PROVE  InsertAt(s, i, e) \in Seq(S) /\ IsInsertion(InsertAt(s, i, e), s, i, e)
<1> DEFINE a == SubSeq(s, 1, i-1)  b == SubSeq(s, i, Len(s))  c == a \o <<e>>
<1>1. /\ a \in Seq(S) /\ Len(a) = i - 1
      /\ \A j \in 1..(i-1) : a[j] = s[j]
  OBVIOUS
<1>2. /\ b \in Seq(S) /\ Len(b) = Len(s) - i + 1
      /\ \A j \in 1..(Len(s) - i + 1) : b[j] = s[i + j - 1]
  OBVIOUS
<1>3. /\ c \in Seq(S) /\ Len(c) = i
      /\ \A j \in 1..(i-1) : c[j] = s[j]
      /\ c[i] = e
  <2> HIDE DEF a
  <2> QED BY <1>1
<1>4. InsertAt(s, i, e) = c \o b
  BY DEF InsertAt
<1> HIDE DEF b, c
<1>5. /\ c \o b \in Seq(S)
      /\ Len(c \o b) = Len(s) + 1
      /\ \A j \in 1..(Len(s) + 1) :
              (c \o b)[j] = IF j <= i THEN c[j] ELSE b[j-i]
  BY <1>2, <1>3, ConcatProperties
<1>6. ASSUME NEW j \in 1..(Len(s) + 1), j > i
      PROVE  b[j-i] = s[j-1]
  <2>1. j - i \in 1..(Len(s) - i + 1) /\ i + (j - i) - 1 = j - 1
    BY <1>6
  <2>2. b[j-i] = s[i + (j - i) - 1]
    BY <2>1, <1>2
  <2> QED BY <2>1, <2>2
<1> QED BY <1>3, <1>4, <1>5, <1>6 DEF IsInsertion

(* TAILQ_REMOVE: what RemoveAt returns, element by element. *)
LEMMA RemoveAtFacts ==
  ASSUME NEW S, NEW s \in Seq(S), NEW i \in 1..Len(s)
  PROVE  /\ RemoveAt(s, i) \in Seq(S)
         /\ Len(RemoveAt(s, i)) = Len(s) - 1
         /\ \A j \in 1..(Len(s) - 1) :
              RemoveAt(s, i)[j] = IF j < i THEN s[j] ELSE s[j+1]
<1> DEFINE a == SubSeq(s, 1, i-1)  b == SubSeq(s, i+1, Len(s))
<1>1. /\ a \in Seq(S) /\ Len(a) = i - 1
      /\ \A j \in 1..(i-1) : a[j] = s[j]
  OBVIOUS
<1>2. /\ b \in Seq(S) /\ Len(b) = Len(s) - i
      /\ \A j \in 1..(Len(s) - i) : b[j] = s[i + j]
  OBVIOUS
<1>3. RemoveAt(s, i) = a \o b
  BY DEF RemoveAt
<1> HIDE DEF a, b
<1>4. /\ a \o b \in Seq(S)
      /\ Len(a \o b) = Len(a) + Len(b)
      /\ \A j \in 1 .. Len(a) + Len(b) :
              (a \o b)[j] = IF j <= Len(a) THEN a[j] ELSE b[j - Len(a)]
  <2>1. a \in Seq(S) /\ b \in Seq(S)
    BY <1>1, <1>2
  <2> QED BY <2>1, ConcatProperties, Zenon
<1>5. ASSUME NEW j \in 1..(Len(s) - 1), j >= i
      PROVE  b[j - Len(a)] = s[j+1]
  <2>1. j - (i-1) \in 1..(Len(s) - i) /\ i + (j - (i-1)) = j + 1
    BY <1>5
  <2>2. b[j - (i-1)] = s[i + (j - (i-1))]
    BY <2>1, <1>2
  <2> QED BY <2>1, <2>2, <1>1
<1>6. Len(a \o b) = Len(s) - 1
  BY <1>1, <1>2, <1>4
<1>7. ASSUME NEW j \in 1..(Len(s) - 1)
      PROVE  (a \o b)[j] = IF j < i THEN s[j] ELSE s[j+1]
  <2>1. (a \o b)[j] = IF j <= Len(a) THEN a[j] ELSE b[j - Len(a)]
    BY <1>1, <1>2, <1>4
  <2> QED BY <2>1, <1>1, <1>5
<1> QED BY <1>3, <1>4, <1>6, <1>7

(* No element occurs twice. *)
Distinct(s) == \A i, j \in 1..Len(s) : s[i] = s[j] => i = j

(* Removing one occurrence from a queue without repetitions removes the    *)
(* element and nothing else, and leaves no repetitions.                    *)
LEMMA RemoveDistinct ==
  ASSUME NEW S, NEW s \in Seq(S), NEW k \in 1..Len(s), Distinct(s)
  PROVE  /\ Distinct(RemoveAt(s, k))
         /\ \A j \in 1..Len(RemoveAt(s, k)) :
              RemoveAt(s, k)[j] # s[k] /\ \E i \in 1..Len(s) : RemoveAt(s, k)[j] = s[i]
         /\ \A i \in 1..Len(s) :
              i # k => \E j \in 1..Len(RemoveAt(s, k)) : RemoveAt(s, k)[j] = s[i]
<1> DEFINE t == RemoveAt(s, k)
           At(j) == IF j < k THEN j ELSE j + 1
<1>1. /\ Len(t) = Len(s) - 1
      /\ \A j \in 1..(Len(s) - 1) : t[j] = IF j < k THEN s[j] ELSE s[j+1]
  BY RemoveAtFacts
<1> HIDE DEF t
<1>2. Len(s) \in Nat
  OBVIOUS
<1>3. \A j \in 1..Len(t) : At(j) \in 1..Len(s) /\ At(j) # k /\ t[j] = s[At(j)]
  BY <1>1, <1>2
<1>4. \A i, j \in 1..Len(t) : At(i) = At(j) => i = j
  BY <1>1, <1>2
<1>5. ASSUME NEW i \in 1..Len(s), i # k
      PROVE  \E j \in 1..Len(t) : At(j) = i
  <2>1. CASE i < k
    <3>1. i \in 1..Len(t) /\ At(i) = i
      BY <1>1, <1>2, <2>1
    <3> QED BY <3>1
  <2>2. CASE i > k
    <3>1. i - 1 \in 1..Len(t) /\ At(i - 1) = i
      BY <1>1, <1>2, <2>2
    <3> QED BY <3>1
  <2> QED BY <1>5, <2>1, <2>2
<1> HIDE DEF At
<1>6. Distinct(t)
  BY <1>3, <1>4 DEF Distinct
<1>7. \A j \in 1..Len(t) : t[j] # s[k] /\ \E i \in 1..Len(s) : t[j] = s[i]
  BY <1>3 DEF Distinct
<1>8. \A i \in 1..Len(s) : i # k => \E j \in 1..Len(t) : t[j] = s[i]
  BY <1>3, <1>5
<1> QED BY <1>6, <1>7, <1>8 DEF t
-----------------------------------------------------------------------------
(* x is an element of the sequence s. *)
Holds(s, x) == \E k \in 1..Len(s) : s[k] = x

(* The elements of a concatenation. *)
LEMMA ConcatHolds ==
  ASSUME NEW S, NEW a \in Seq(S), NEW b \in Seq(S), NEW x
  PROVE  Holds(a \o b, x) <=> Holds(a, x) \/ Holds(b, x)
<1>1. /\ Len(a \o b) = Len(a) + Len(b)
      /\ \A k \in 1..Len(a) : (a \o b)[k] = a[k]
      /\ \A k \in 1..Len(b) : (a \o b)[Len(a) + k] = b[k]
  OBVIOUS
<1>2. \A k \in 1..(Len(a) + Len(b)) : k \in 1..Len(a) \/ (k - Len(a) \in 1..Len(b) /\ Len(a) + (k - Len(a)) = k)
  OBVIOUS
<1>3. \A k \in 1..Len(b) : Len(a) + k \in 1..(Len(a) + Len(b))
  OBVIOUS
<1>4. \A k \in 1..Len(a) : k \in 1..(Len(a) + Len(b))
  OBVIOUS
<1>5. ASSUME NEW k \in 1..(Len(a) + Len(b)), (a \o b)[k] = x PROVE Holds(a, x) \/ Holds(b, x)
  <2>1. CASE k \in 1..Len(a)
    BY <1>1, <1>5, <2>1 DEF Holds
  <2>2. CASE k - Len(a) \in 1..Len(b) /\ Len(a) + (k - Len(a)) = k
    <3>1. b[k - Len(a)] = x
      BY <1>1, <1>5, <2>2
    <3> QED BY <3>1, <2>2 DEF Holds
  <2> QED BY <1>2, <2>1, <2>2
<1>6. ASSUME NEW k \in 1..Len(a), a[k] = x PROVE Holds(a \o b, x)
  BY <1>1, <1>4, <1>6 DEF Holds
<1>7. ASSUME NEW k \in 1..Len(b), b[k] = x PROVE Holds(a \o b, x)
  BY <1>1, <1>3, <1>7 DEF Holds
<1> QED BY <1>1, <1>5, <1>6, <1>7 DEF Holds

(* A concatenation of sequences with nothing in common repeats nothing. *)
LEMMA ConcatDistinct ==
  ASSUME NEW S, NEW a \in Seq(S), NEW b \in Seq(S), Distinct(a), Distinct(b),
         \A x : ~(Holds(a, x) /\ Holds(b, x))
  PROVE  Distinct(a \o b)
<1>1. /\ Len(a \o b) = Len(a) + Len(b)
      /\ \A k \in 1..Len(a) : (a \o b)[k] = a[k]
      /\ \A k \in 1..(Len(a) + Len(b)) : k \notin 1..Len(a) => (a \o b)[k] = b[k - Len(a)]
  OBVIOUS
<1>2. \A k \in 1..(Len(a) + Len(b)) : k \notin 1..Len(a) => k - Len(a) \in 1..Len(b)
  OBVIOUS
<1>3. \A k, l \in 1..(Len(a) + Len(b)) : k - Len(a) = l - Len(a) => k = l
  OBVIOUS
<1>4. SUFFICES ASSUME NEW k \in 1..(Len(a) + Len(b)), NEW l \in 1..(Len(a) + Len(b)),
                      (a \o b)[k] = (a \o b)[l]
               PROVE  k = l
  BY <1>1, Zenon DEF Distinct
<1>5. CASE k \in 1..Len(a) /\ l \in 1..Len(a)
  BY <1>1, <1>4, <1>5 DEF Distinct
<1>6. CASE k \notin 1..Len(a) /\ l \notin 1..Len(a)
  <2>1. b[k - Len(a)] = b[l - Len(a)] /\ k - Len(a) \in 1..Len(b) /\ l - Len(a) \in 1..Len(b)
    BY <1>1, <1>2, <1>4, <1>6
  <2>2. k - Len(a) = l - Len(a)
    BY <2>1, Zenon DEF Distinct
  <2> QED BY <2>2, <1>3
<1>7. CASE k \in 1..Len(a) /\ l \notin 1..Len(a)
  <2>1. Holds(a, a[k]) /\ Holds(b, a[k])
    BY <1>1, <1>2, <1>4, <1>7 DEF Holds
  <2> QED BY <2>1
<1>8. CASE k \notin 1..Len(a) /\ l \in 1..Len(a)
  <2>1. Holds(a, a[l]) /\ Holds(b, a[l])
    BY <1>1, <1>2, <1>4, <1>8 DEF Holds
  <2> QED BY <2>1
<1> QED BY <1>5, <1>6, <1>7, <1>8

(* g[i] is the concatenation of the first i of the n sequences of s. *)
Flattens(g, s, n) == g = [i \in 1..n |-> IF i = 1 THEN s[i] ELSE g[i-1] \o s[i]]

LEMMA FlattensExist ==
  ASSUME NEW s, NEW n \in Nat
  PROVE  \E g : Flattens(g, s, n)
<1> DEFINE S == {k \in Nat : \E g : Flattens(g, s, k)}
<1>1. 0 \in S
  <2>1. Flattens([i \in 1..0 |-> s], s, 0)
    BY DEF Flattens
  <2> QED BY <2>1
<1>2. ASSUME NEW k \in Nat, k \in S PROVE k + 1 \in S
  <2>1. PICK g : Flattens(g, s, k)
    BY <1>2
  <2> DEFINE h == [i \in 1..(k+1) |-> IF i = k + 1 THEN (IF i = 1 THEN s[i] ELSE g[i-1] \o s[i]) ELSE g[i]]
  <2>2. \A i \in 1..k : g[i] = IF i = 1 THEN s[i] ELSE g[i-1] \o s[i]
    <3> DEFINE f == [i \in 1..k |-> IF i = 1 THEN s[i] ELSE g[i-1] \o s[i]]
    <3>1. g = f
      BY <2>1, Zenon DEF Flattens
    <3>2. \A i \in 1..k : f[i] = IF i = 1 THEN s[i] ELSE g[i-1] \o s[i]
      OBVIOUS
    <3> QED BY <3>1, <3>2
  <2>3. \A i \in 1..(k+1) : i # 1 => i - 1 \in 1..(k+1) /\ i - 1 # k + 1
    OBVIOUS
  <2>4. \A i \in 1..(k+1) : i # k + 1 => i \in 1..k
    OBVIOUS
  <2>5. ASSUME NEW i \in 1..(k+1) PROVE h[i] = IF i = 1 THEN s[i] ELSE h[i-1] \o s[i]
    <3>1. i # 1 => h[i-1] = g[i-1]
      BY <2>3
    <3> QED BY <3>1, <2>2, <2>4
  <2>6. h = [i \in 1..(k+1) |-> IF i = 1 THEN s[i] ELSE h[i-1] \o s[i]]
    <3>1. h = [i \in 1..(k+1) |-> h[i]]
      OBVIOUS
    <3> HIDE DEF h
    <3> QED BY <3>1, <2>5
  <2>7. Flattens(h, s, k + 1)
    BY <2>6, Zenon DEF Flattens
  <2> HIDE DEF h
  <2> QED BY <2>7
<1> HIDE DEF S
<1>3. Nat \subseteq S
  BY <1>1, <1>2, NatSetInduction
<1> QED BY <1>3 DEF S

(* FlattenSeq, step by step. *)
LEMMA FlattenUnfolds ==
  ASSUME NEW s, Len(s) \in Nat, Len(s) # 0
  PROVE  \E g : /\ FlattenSeq(s) = g[Len(s)]
                /\ \A i \in 1..Len(s) : g[i] = IF i = 1 THEN s[i] ELSE g[i-1] \o s[i]
<1>1. \E g : Flattens(g, s, Len(s))
  BY FlattensExist
<1> DEFINE G == CHOOSE g : Flattens(g, s, Len(s))
<1>2. Flattens(G, s, Len(s))
  BY <1>1, Zenon
<1>3. FlattenSeq(s) = G[Len(s)]
  BY Zenon DEF FlattenSeq, Flattens
<1> HIDE DEF G
<1>4. \A i \in 1..Len(s) : G[i] = IF i = 1 THEN s[i] ELSE G[i-1] \o s[i]
  <2> DEFINE f == [i \in 1..Len(s) |-> IF i = 1 THEN s[i] ELSE G[i-1] \o s[i]]
  <2>1. G = f
    BY <1>2, Zenon DEF Flattens
  <2>2. \A i \in 1..Len(s) : f[i] = IF i = 1 THEN s[i] ELSE G[i-1] \o s[i]
    OBVIOUS
  <2> QED BY <2>1, <2>2
<1> QED BY <1>3, <1>4

(* FlattenSeq returns a sequence of the elements of the given ones. *)
LEMMA FlattenHolds ==
  ASSUME NEW S, NEW s \in Seq(Seq(S))
  PROVE  /\ FlattenSeq(s) \in Seq(S)
         /\ \A x : Holds(FlattenSeq(s), x) <=> \E i \in 1..Len(s) : Holds(s[i], x)
<1>1. CASE Len(s) = 0
  <2>1. s = <<>> /\ FlattenSeq(s) = s
    BY <1>1 DEF FlattenSeq
  <2>2. <<>> \in Seq(S) /\ Len(<<>>) = 0 /\ 1..0 = {}
    OBVIOUS
  <2>3. \A x : ~Holds(FlattenSeq(s), x)
    BY <2>1, <2>2 DEF Holds
  <2>4. FlattenSeq(s) \in Seq(S)
    BY <2>1, <2>2
  <2>5. 1..Len(s) = {}
    BY <1>1
  <2> QED BY <2>3, <2>4, <2>5
<1>2. CASE Len(s) # 0
  <2>0. Len(s) \in Nat /\ \A i \in 1..Len(s) : s[i] \in Seq(S)
    BY ElementOfSeq
  <2>1. PICK g : /\ FlattenSeq(s) = g[Len(s)]
                 /\ \A i \in 1..Len(s) : g[i] = IF i = 1 THEN s[i] ELSE g[i-1] \o s[i]
    BY <1>2, <2>0, FlattenUnfolds
  <2> DEFINE Right(n) == /\ g[n] \in Seq(S)
                         /\ \A x : Holds(g[n], x) <=> \E i \in 1..n : Holds(s[i], x)
             T == {n \in Nat : n \in 1..Len(s) => Right(n)}
  <2>2. 0 \in T
    BY <2>0
  <2>3. ASSUME NEW n \in Nat, n \in T PROVE n + 1 \in T
    <3> SUFFICES ASSUME n + 1 \in 1..Len(s) PROVE Right(n + 1)
      OBVIOUS
    <3>1. CASE n = 0
      <4>1. g[1] = s[1] /\ 1 \in 1..Len(s) /\ n + 1 = 1
        BY <2>1, <3>1
      <4>2. \A i \in 1..1 : i = 1
        OBVIOUS
      <4>3. 1 \in 1..1
        OBVIOUS
      <4>4. Right(1)
        BY <2>0, <4>1, <4>2, <4>3, Zenon
      <4> QED BY <4>1, <4>4
    <3>2. CASE n # 0
      <4>1. n \in 1..Len(s) /\ n + 1 # 1 /\ (n + 1) - 1 = n
        BY <2>0, <3>2
      <4>2. Right(n)
        BY <2>3, <4>1, Zenon
      <4>3. g[n + 1] = g[n] \o s[n + 1]
        BY <2>1, <4>1
      <4>4. s[n + 1] \in Seq(S)
        BY <2>0
      <4>5. \A x : Holds(g[n + 1], x) <=> Holds(g[n], x) \/ Holds(s[n + 1], x)
        BY <4>2, <4>3, <4>4, ConcatHolds
      <4>6. \A i \in 1..(n + 1) : i \in 1..n \/ i = n + 1
        OBVIOUS
      <4>7. \A i \in 1..n : i \in 1..(n + 1)
        OBVIOUS
      <4>8. n + 1 \in 1..(n + 1)
        OBVIOUS
      <4>9. g[n + 1] \in Seq(S)
        BY <4>2, <4>3, <4>4
      <4>10. \A x : Holds(g[n + 1], x) <=> \E i \in 1..(n + 1) : Holds(s[i], x)
        BY <4>2, <4>5, <4>6, <4>7, <4>8, Zenon
      <4> QED BY <4>9, <4>10
    <3> QED BY <3>1, <3>2
  <2> HIDE DEF T
  <2>4. Nat \subseteq T
    BY <2>2, <2>3, NatSetInduction
  <2>5. Len(s) \in 1..Len(s) /\ Len(s) \in T
    BY <2>0, <2>4, <1>2
  <2>6. Right(Len(s))
    BY <2>5, Zenon DEF T
  <2> QED BY <2>1, <2>6, Zenon
<1> QED BY <1>1, <1>2

(* Sequences that repeat nothing and have nothing in common are flattened  *)
(* to one that repeats nothing.                                            *)
LEMMA FlattenDistinct ==
  ASSUME NEW S, NEW s \in Seq(Seq(S)),
         \A i \in 1..Len(s) : Distinct(s[i]),
         \A i, j \in 1..Len(s) : i # j => \A x : ~(Holds(s[i], x) /\ Holds(s[j], x))
  PROVE  Distinct(FlattenSeq(s))
<1>1. CASE Len(s) = 0
  <2>1. s = <<>> /\ FlattenSeq(s) = s
    BY <1>1 DEF FlattenSeq
  <2> QED BY <2>1 DEF Distinct
<1>2. CASE Len(s) # 0
  <2>0. Len(s) \in Nat /\ \A i \in 1..Len(s) : s[i] \in Seq(S)
    BY ElementOfSeq
  <2>1. PICK g : /\ FlattenSeq(s) = g[Len(s)]
                 /\ \A i \in 1..Len(s) : g[i] = IF i = 1 THEN s[i] ELSE g[i-1] \o s[i]
    BY <1>2, <2>0, FlattenUnfolds
  <2> DEFINE Right(n) == /\ g[n] \in Seq(S)
                         /\ \A x : Holds(g[n], x) => \E i \in 1..n : Holds(s[i], x)
                         /\ Distinct(g[n])
             T == {n \in Nat : n \in 1..Len(s) => Right(n)}
  <2>2. 0 \in T
    BY <2>0
  <2>3. ASSUME NEW n \in Nat, n \in T PROVE n + 1 \in T
    <3> SUFFICES ASSUME n + 1 \in 1..Len(s) PROVE Right(n + 1)
      OBVIOUS
    <3>1. CASE n = 0
      <4>1. g[1] = s[1] /\ 1 \in 1..Len(s) /\ n + 1 = 1
        BY <2>1, <3>1
      <4>3. 1 \in 1..1
        OBVIOUS
      <4>4. Right(1)
        BY <2>0, <4>1, <4>3, Zenon
      <4> QED BY <4>1, <4>4
    <3>2. CASE n # 0
      <4>1. n \in 1..Len(s) /\ n + 1 # 1 /\ (n + 1) - 1 = n
        BY <2>0, <3>2
      <4>2. Right(n)
        BY <2>3, <4>1, Zenon
      <4>3. g[n + 1] = g[n] \o s[n + 1]
        BY <2>1, <4>1
      <4>4. s[n + 1] \in Seq(S) /\ Distinct(s[n + 1])
        BY <2>0
      <4>5. \A x : Holds(g[n + 1], x) <=> Holds(g[n], x) \/ Holds(s[n + 1], x)
        BY <4>2, <4>3, <4>4, ConcatHolds
      <4>6. \A i \in 1..n : i \in 1..Len(s) /\ i \in 1..(n + 1) /\ i # n + 1
        BY <2>0
      <4>7. n + 1 \in 1..(n + 1)
        OBVIOUS
      <4>8. \A x : ~(Holds(g[n], x) /\ Holds(s[n + 1], x))
        BY <4>2, <4>6, Zenon
      <4>9. Distinct(g[n + 1])
        BY <4>2, <4>3, <4>4, <4>8, ConcatDistinct
      <4>10. g[n + 1] \in Seq(S)
        BY <4>2, <4>3, <4>4
      <4>11. \A x : Holds(g[n + 1], x) => \E i \in 1..(n + 1) : Holds(s[i], x)
        BY <4>2, <4>5, <4>6, <4>7, Zenon
      <4> QED BY <4>9, <4>10, <4>11
    <3> QED BY <3>1, <3>2
  <2> HIDE DEF T
  <2>4. Nat \subseteq T
    BY <2>2, <2>3, NatSetInduction
  <2>5. Len(s) \in 1..Len(s) /\ Len(s) \in T
    BY <2>0, <2>4, <1>2
  <2>6. Right(Len(s))
    BY <2>5, Zenon DEF T
  <2> QED BY <2>1, <2>6, Zenon
<1> QED BY <1>1, <1>2
=============================================================================
