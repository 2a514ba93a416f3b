--------------------------- MODULE FdTableProofs ---------------------------
(***************************************************************************)
(* Proofs about the descriptor table, for any number of descriptors,       *)
(* streams and handles: the free list threaded through the closed entries  *)
(* is sound, and descriptors, handles and streams agree.                   *)
(***************************************************************************)
EXTENDS FdTable, SeqLemmas, FiniteSetTheorems

-----------------------------------------------------------------------------
(* The free list of a table tab *)

ClosedOf(tab) == {fd \in 0..(Len(tab) - 1) : tab[fd + 1].type = CLOSED}

(* s, of length n, is the free list that starts at free. *)
FreeList(tab, free, n, s) ==
  /\ n \in Nat /\ s \in [1..n -> ClosedOf(tab)]
  /\ \A i, j \in 1..n : s[i] = s[j] => i = j
  /\ \A fd \in ClosedOf(tab) : \E i \in 1..n : s[i] = fd
  /\ free = IF n = 0 THEN NOFD ELSE s[1]
  /\ \A i \in 1..n : tab[s[i] + 1].u = IF i = n THEN NOFD ELSE s[i+1]

LEMMA FnSeq ==
  ASSUME NEW S, NEW n \in Nat, NEW s \in [1..n -> S]
  PROVE  s \in Seq(S) /\ Len(s) = n
OBVIOUS

(* A list without repetitions is not longer than the table. *)
LEMMA FreeListFits ==
  ASSUME NEW tab \in Seq(VfdEntry), NEW free, NEW n, NEW s, FreeList(tab, free, n, s)
  PROVE  n <= Len(tab)
<1> DEFINE F == 0..(Len(tab) - 1)
<1>0. Len(tab) \in Nat /\ n \in Nat
  BY DEF FreeList
<1>1. s \in [1..n -> F] /\ \A i, j \in 1..n : s[i] = s[j] => i = j
  BY DEF FreeList, ClosedOf
<1>2. IsFiniteSet(F) /\ Cardinality(F) = Len(tab)
  <2>1. 0 \in Int /\ Len(tab) - 1 \in Int
    BY <1>0
  <2>2. IsFiniteSet(F) /\ Cardinality(F) = IF 0 > Len(tab) - 1 THEN 0 ELSE (Len(tab) - 1) - 0 + 1
    BY <2>1, FS_Interval
  <2> QED BY <2>2, <1>0
<1>3. IsFiniteSet(1..n) /\ Cardinality(1..n) = n
  <2>1. IsFiniteSet(1..n) /\ Cardinality(1..n) = IF 1 > n THEN 0 ELSE n - 1 + 1
    BY <1>0, FS_Interval
  <2> QED BY <2>1, <1>0
<1>4. SUFFICES ASSUME Len(tab) < n PROVE FALSE
  BY <1>0
<1>5. Cardinality(F) < Cardinality(1..n)
  BY <1>2, <1>3, <1>4
<1> HIDE DEF F
<1>6. \E x, y \in 1..n : x # y /\ s[x] = s[y]
  BY <1>1, <1>2, <1>3, <1>5, FS_PigeonHole, Zenon
<1> QED BY <1>1, <1>6

(* vfd_create takes the first descriptor off the list. *)
LEMMA FreeListPop ==
  ASSUME NEW tab \in Seq(VfdEntry), NEW free, NEW n, NEW s, FreeList(tab, free, n, s),
         free # NOFD, NEW e \in VfdEntry, e.type # CLOSED
  PROVE  /\ free \in ClosedOf(tab) /\ free + 1 \in 1..Len(tab)
         /\ \E m, t : FreeList([tab EXCEPT ![free + 1] = e], tab[free + 1].u, m, t)
<1> DEFINE u == [tab EXCEPT ![free + 1] = e]
           t == [i \in 1..(n-1) |-> s[i+1]]
<1>0. n \in Nat /\ n # 0 /\ n \in 1..n /\ 1 \in 1..n /\ Len(tab) \in Nat
  BY DEF FreeList
<1>1. free = s[1] /\ free \in ClosedOf(tab) /\ s \in [1..n -> ClosedOf(tab)]
  BY <1>0 DEF FreeList
<1>2. \A fd \in ClosedOf(tab) : fd \in Nat /\ fd + 1 \in 1..Len(tab)
  BY <1>0 DEF ClosedOf
<1>3. /\ Len(u) = Len(tab) /\ u[free + 1] = e
      /\ \A k \in 1..Len(tab) : k # free + 1 => u[k] = tab[k]
  BY <1>1, <1>2
<1>4. \A fd : fd \in ClosedOf(u) <=> fd \in ClosedOf(tab) /\ fd # free
  <2>1. \A fd \in 0..(Len(tab) - 1) : fd + 1 \in 1..Len(tab) /\ (fd # free => fd + 1 # free + 1)
    BY <1>0, <1>1, <1>2
  <2> HIDE DEF u
  <2> QED BY <2>1, <1>1, <1>3 DEF ClosedOf
<1>5. /\ n - 1 \in Nat
      /\ \A i \in 1..(n-1) : i + 1 \in 1..n /\ i + 1 # 1 /\ (i = n - 1 <=> i + 1 = n)
      /\ \A i \in 1..(n-1) : i # n - 1 => i + 1 \in 1..(n-1)
      /\ \A i \in 1..n : i # 1 => i - 1 \in 1..(n-1) /\ (i - 1) + 1 = i
      /\ \A i, j \in 1..(n-1) : i + 1 = j + 1 => i = j
      /\ (n - 1 = 0 <=> n = 1) /\ (n - 1 # 0 => 1 \in 1..(n-1)) /\ 1 + 1 \in Nat
  BY <1>0
<1>6. \A i, j \in 1..n : s[i] = s[j] => i = j
  BY DEF FreeList
<1> HIDE DEF u
<1>7. t \in [1..(n-1) -> ClosedOf(u)]
  BY <1>0, <1>1, <1>4, <1>5, <1>6
<1>8. \A i, j \in 1..(n-1) : t[i] = t[j] => i = j
  BY <1>5, <1>6
<1>9. ASSUME NEW fd \in ClosedOf(u) PROVE \E i \in 1..(n-1) : t[i] = fd
  <2>1. PICK i \in 1..n : s[i] = fd
    BY <1>4 DEF FreeList
  <2>2. i # 1
    BY <2>1, <1>1, <1>4
  <2> QED BY <2>1, <2>2, <1>5
<1>10. tab[free + 1].u = IF n - 1 = 0 THEN NOFD ELSE t[1]
  <2>1. tab[s[1] + 1].u = IF 1 = n THEN NOFD ELSE s[1 + 1]
    BY <1>0 DEF FreeList
  <2> QED BY <2>1, <1>1, <1>5
<1>11. ASSUME NEW i \in 1..(n-1)
       PROVE  u[t[i] + 1].u = IF i = n - 1 THEN NOFD ELSE t[i+1]
  <2>1. t[i] = s[i+1] /\ i + 1 \in 1..n
    BY <1>5
  <2>2. tab[s[i+1] + 1].u = IF i + 1 = n THEN NOFD ELSE s[(i + 1) + 1]
    BY <2>1 DEF FreeList
  <2>3. t[i] \in ClosedOf(tab) /\ t[i] # free
    BY <1>4, <1>7
  <2>4. t[i] + 1 \in 1..Len(tab) /\ t[i] + 1 # free + 1
    BY <2>3, <1>1, <1>2
  <2>5. i # n - 1 => t[i+1] = s[(i+1)+1]
    BY <1>5
  <2> HIDE DEF t
  <2> QED BY <2>1, <2>2, <2>4, <2>5, <1>3, <1>5
<1> HIDE DEF t
<1>12. FreeList(u, tab[free + 1].u, n - 1, t)
  BY <1>5, <1>7, <1>8, <1>9, <1>10, <1>11 DEF FreeList
<1> QED BY <1>1, <1>2, <1>12 DEF u

(* vmir_fd_close puts a descriptor that was open in front of the list. *)
LEMMA FreeListPush ==
  ASSUME NEW tab \in Seq(VfdEntry), NEW free, NEW n, NEW s, FreeList(tab, free, n, s),
         NEW fd \in 0..(Len(tab) - 1), tab[fd + 1].type # CLOSED,
         NEW e \in VfdEntry, e.type = CLOSED, e.u = free
  PROVE  \E m, t : FreeList([tab EXCEPT ![fd + 1] = e], fd, m, t)
<1> DEFINE u == [tab EXCEPT ![fd + 1] = e]
           t == [i \in 1..(n+1) |-> IF i = 1 THEN fd ELSE s[i-1]]
<1>0. n \in Nat /\ Len(tab) \in Nat /\ fd \in Nat /\ fd + 1 \in 1..Len(tab)
  BY DEF FreeList
<1>1. s \in [1..n -> ClosedOf(tab)] /\ \A i, j \in 1..n : s[i] = s[j] => i = j
  BY DEF FreeList
<1>2. \A f \in ClosedOf(tab) : f \in Nat /\ f + 1 \in 1..Len(tab) /\ f # fd /\ f + 1 # fd + 1
  BY <1>0 DEF ClosedOf
<1>3. /\ Len(u) = Len(tab) /\ u[fd + 1] = e
      /\ \A k \in 1..Len(tab) : k # fd + 1 => u[k] = tab[k]
  BY <1>0
<1>4. \A f : f \in ClosedOf(u) <=> f \in ClosedOf(tab) \/ f = fd
  <2>1. \A f \in 0..(Len(tab) - 1) : f + 1 \in 1..Len(tab) /\ (f # fd => f + 1 # fd + 1)
    BY <1>0
  <2> HIDE DEF u
  <2> QED BY <2>1, <1>2, <1>3 DEF ClosedOf
<1>5. /\ n + 1 \in Nat /\ n + 1 # 0 /\ 1 \in 1..(n+1)
      /\ \A i \in 1..(n+1) : i # 1 => i - 1 \in 1..n /\ (i = n + 1 <=> i - 1 = n)
      /\ \A i \in 1..(n+1) : i # n + 1 => i + 1 \in 1..(n+1) /\ i + 1 # 1 /\ (i + 1) - 1 = i
      /\ \A i, j \in 1..(n+1) : i - 1 = j - 1 => i = j
      /\ \A i \in 1..n : i + 1 \in 1..(n+1) /\ i + 1 # 1 /\ (i + 1) - 1 = i
      /\ \A i \in 1..(n+1) : i # 1 => (i - 1) + 1 = i
      /\ (1 = n + 1 <=> n = 0) /\ (1 + 1) - 1 = 1 /\ 1 + 1 # 1
      /\ n # 0 => 1 + 1 \in 1..(n+1)
  BY <1>0
<1> HIDE DEF u
<1>6. t \in [1..(n+1) -> ClosedOf(u)]
  BY <1>1, <1>4, <1>5
<1>7. \A i, j \in 1..(n+1) : t[i] = t[j] => i = j
  <2>1. \A i \in 1..(n+1) : i # 1 => i - 1 \in 1..n /\ t[i] = s[i-1] /\ t[i] # fd
    BY <1>1, <1>2, <1>5
  <2>2. t[1] = fd
    BY <1>5
  <2> HIDE DEF t
  <2> QED BY <2>1, <2>2, <1>1, <1>5
<1>8. ASSUME NEW f \in ClosedOf(u) PROVE \E i \in 1..(n+1) : t[i] = f
  <2>1. CASE f = fd
    BY <2>1, <1>5
  <2>2. CASE f \in ClosedOf(tab)
    <3>1. PICK i \in 1..n : s[i] = f
      BY <2>2 DEF FreeList
    <3> QED BY <3>1, <1>5
  <2> QED BY <2>1, <2>2, <1>4
<1>9. fd = IF n + 1 = 0 THEN NOFD ELSE t[1]
  BY <1>5
<1>10. ASSUME NEW i \in 1..(n+1)
       PROVE  u[t[i] + 1].u = IF i = n + 1 THEN NOFD ELSE t[i+1]
  <2>1. CASE i = 1
    <3>1. t[i] = fd /\ u[fd + 1].u = free
      BY <2>1, <1>3, <1>5
    <3>2. free = IF n = 0 THEN NOFD ELSE s[1]
      BY DEF FreeList
    <3>3. n # 0 => t[1 + 1] = s[1]
      BY <1>5
    <3> HIDE DEF t
    <3> QED BY <2>1, <3>1, <3>2, <3>3, <1>5
  <2>2. CASE i # 1
    <3>1. t[i] = s[i-1] /\ i - 1 \in 1..n
      BY <2>2, <1>5
    <3>2. tab[s[i-1] + 1].u = IF i - 1 = n THEN NOFD ELSE s[(i - 1) + 1]
      BY <3>1 DEF FreeList
    <3>3. t[i] \in ClosedOf(tab) /\ t[i] + 1 \in 1..Len(tab) /\ t[i] + 1 # fd + 1
      BY <3>1, <1>1, <1>2
    <3>4. i # n + 1 => t[i + 1] = s[(i - 1) + 1]
      BY <2>2, <1>5
    <3> HIDE DEF t
    <3> QED BY <2>2, <3>1, <3>2, <3>3, <3>4, <1>3, <1>5
  <2> QED BY <2>1, <2>2
<1> HIDE DEF t
<1>11. FreeList(u, fd, n + 1, t)
  BY <1>5, <1>6, <1>7, <1>8, <1>9, <1>10 DEF FreeList
<1> QED BY <1>11 DEF u

(* An empty list stays empty when the table grows. *)
LEMMA FreeListGrow ==
  ASSUME NEW tab \in Seq(VfdEntry), NEW n, NEW s, FreeList(tab, NOFD, n, s),
         NEW e \in VfdEntry, e.type # CLOSED
  PROVE  \E m, t : FreeList(Append(tab, e), NOFD, m, t)
<1>0. n \in Nat /\ Len(tab) \in Nat
  BY DEF FreeList
<1>1. n = 0
  <2> SUFFICES ASSUME n # 0 PROVE FALSE
    OBVIOUS
  <2>1. 1 \in 1..n
    BY <1>0
  <2>2. s[1] \in ClosedOf(tab) /\ s[1] = NOFD
    BY <2>1 DEF FreeList
  <2> QED BY <2>2, <1>0 DEF ClosedOf, NOFD
<1>2. ClosedOf(tab) = {}
  BY <1>1 DEF FreeList
<1>3. ClosedOf(Append(tab, e)) = {}
  <2> DEFINE u == Append(tab, e)
  <2>1. /\ Len(u) = Len(tab) + 1 /\ u[Len(tab) + 1] = e
        /\ \A k \in 1..Len(tab) : u[k] = tab[k]
    BY <1>0
  <2>2. \A fd \in 0..((Len(tab) + 1) - 1) :
          \/ fd = Len(tab)
          \/ fd \in 0..(Len(tab) - 1) /\ fd + 1 \in 1..Len(tab)
    BY <1>0
  <2> HIDE DEF u
  <2>3. \A fd : fd \notin ClosedOf(u)
    BY <2>1, <2>2, <1>2 DEF ClosedOf
  <2> QED BY <2>3 DEF u
<1>4. s \in [1..n -> ClosedOf(Append(tab, e))]
  BY <1>2, <1>3 DEF FreeList
<1>5. FreeList(Append(tab, e), NOFD, n, s)
  BY <1>0, <1>1, <1>3, <1>4 DEF FreeList
<1> QED BY <1>5

(* The invariant in terms of FreeList. *)
SoundOf(tab, free) ==
  \E n \in 0..Len(tab) : \E s \in [1..n -> ClosedOf(tab)] :
    /\ \A i, j \in 1..n : s[i] = s[j] => i = j
    /\ \A fd \in ClosedOf(tab) : \E i \in 1..n : s[i] = fd
    /\ free = IF Len(s) = 0 THEN NOFD ELSE s[1]
    /\ \A i \in 1..Len(s) : tab[s[i] + 1].u = IF i = Len(s) THEN NOFD ELSE s[i+1]

LEMMA SoundIntro ==
  ASSUME NEW tab \in Seq(VfdEntry), NEW free, \E n, s : FreeList(tab, free, n, s)
  PROVE  SoundOf(tab, free)
<1>1. PICK n, s : FreeList(tab, free, n, s)
  OBVIOUS
<1>2. n \in 0..Len(tab)
  <2>1. n <= Len(tab) /\ n \in Nat /\ Len(tab) \in Nat
    <3>1. n <= Len(tab)
      BY <1>1, FreeListFits, Zenon
    <3>2. n \in Nat /\ Len(tab) \in Nat
      BY <1>1 DEF FreeList
    <3> QED BY <3>1, <3>2
  <2> QED BY <2>1
<1>3. s \in [1..n -> ClosedOf(tab)] /\ Len(s) = n
  <2>1. s \in [1..n -> ClosedOf(tab)] /\ n \in Nat
    BY <1>1 DEF FreeList
  <2> QED BY <2>1, FnSeq
<1>4. /\ \A i, j \in 1..n : s[i] = s[j] => i = j
      /\ \A fd \in ClosedOf(tab) : \E i \in 1..n : s[i] = fd
      /\ free = IF Len(s) = 0 THEN NOFD ELSE s[1]
      /\ \A i \in 1..Len(s) : tab[s[i] + 1].u = IF i = Len(s) THEN NOFD ELSE s[i+1]
  BY <1>1, <1>3 DEF FreeList
<1> QED BY <1>2, <1>3, <1>4, Zenon DEF SoundOf

LEMMA SoundElim ==
  ASSUME NEW tab \in Seq(VfdEntry), NEW free, SoundOf(tab, free)
  PROVE  \E n, s : FreeList(tab, free, n, s)
<1>1. PICK n \in 0..Len(tab) : \E s \in [1..n -> ClosedOf(tab)] :
        /\ \A i, j \in 1..n : s[i] = s[j] => i = j
        /\ \A fd \in ClosedOf(tab) : \E i \in 1..n : s[i] = fd
        /\ free = IF Len(s) = 0 THEN NOFD ELSE s[1]
        /\ \A i \in 1..Len(s) : tab[s[i] + 1].u = IF i = Len(s) THEN NOFD ELSE s[i+1]
  BY DEF SoundOf
<1>2. PICK s \in [1..n -> ClosedOf(tab)] :
        /\ \A i, j \in 1..n : s[i] = s[j] => i = j
        /\ \A fd \in ClosedOf(tab) : \E i \in 1..n : s[i] = fd
        /\ free = IF Len(s) = 0 THEN NOFD ELSE s[1]
        /\ \A i \in 1..Len(s) : tab[s[i] + 1].u = IF i = Len(s) THEN NOFD ELSE s[i+1]
  BY <1>1
<1>3. n \in Nat
  OBVIOUS
<1>4. Len(s) = n
  BY <1>3, FnSeq
<1>5. FreeList(tab, free, n, s)
  BY <1>2, <1>3, <1>4 DEF FreeList
<1> QED BY <1>5

LEMMA SoundDef == FreeListSound <=> SoundOf(iu_vfds, iu_vfd_free)
BY Zenon DEF FreeListSound, SoundOf, IsFreeList, Closed, ClosedOf, Fds, Entry

LEMMA SoundDefNext == FreeListSound' <=> SoundOf(iu_vfds', iu_vfd_free')
BY Zenon DEF FreeListSound, SoundOf, IsFreeList, Closed, ClosedOf, Fds, Entry
-----------------------------------------------------------------------------
(* vfd_create and vmir_fd_create *)

(* The descriptor f that Create hands out was not open, and nothing else   *)
(* changes in the table.                                                   *)
LEMMA CreateTable ==
  ASSUME TypeOK, FreeListSound, NEW h \in Handles, NEW type \in {FILE, SOCKET},
         NEW release \in BOOLEAN, Create(h, type, release), NEW f, f = NewFd,
         NEW e, e = [type |-> type, u |-> h, release |-> release]
  PROVE  /\ f \in Nat /\ ~IsOpen(f)
         /\ iu_vfds' \in Seq(VfdEntry) /\ iu_vfds'[f + 1] = e
         /\ \A g : g \in Fds' <=> g \in Fds \/ g = f
         /\ \A g \in Fds : g # f => iu_vfds'[g + 1] = iu_vfds[g + 1]
         /\ FreeListSound'
<1>0. /\ iu_vfds \in Seq(VfdEntry) /\ Len(iu_vfds) \in Nat
      /\ iu_vfds' = Install(h, type, release) /\ iu_vfd_free' = NewFree
  BY DEF TypeOK, Create
<1>1. e \in VfdEntry /\ e.type # CLOSED
  BY DEF VfdEntry, FILE, SOCKET, CLOSED
<1>2. PICK n, s : FreeList(iu_vfds, iu_vfd_free, n, s)
  BY <1>0, SoundDef, SoundElim
<1>3. CASE iu_vfd_free # NOFD
  <2>1. /\ iu_vfds' = [iu_vfds EXCEPT ![f + 1] = e] /\ iu_vfd_free' = iu_vfds[f + 1].u
        /\ f = iu_vfd_free
    BY <1>0, <1>3 DEF Install, NewFree, NewFd, Entry
  <2>2. /\ f \in ClosedOf(iu_vfds) /\ f + 1 \in 1..Len(iu_vfds)
        /\ \E m, t : FreeList([iu_vfds EXCEPT ![f + 1] = e], iu_vfds[f + 1].u, m, t)
    BY <1>0, <1>1, <1>2, <1>3, <2>1, FreeListPop, Zenon
  <2>3. f \in Fds /\ f \in Nat /\ iu_vfds[f + 1].type = CLOSED
    BY <2>2, <1>0 DEF ClosedOf, Fds
  <2>4. /\ iu_vfds' \in Seq(VfdEntry) /\ Len(iu_vfds') = Len(iu_vfds) /\ iu_vfds'[f + 1] = e
        /\ \A k \in 1..Len(iu_vfds) : k # f + 1 => iu_vfds'[k] = iu_vfds[k]
    BY <2>1, <2>2, <1>0, <1>1
  <2>5. Fds' = Fds
    BY <2>4 DEF Fds
  <2>6. \A g \in Fds : g + 1 \in 1..Len(iu_vfds) /\ (g # f => g + 1 # f + 1)
    BY <2>3, <1>0 DEF Fds
  <2>7. FreeListSound'
    BY <2>1, <2>2, <2>4, SoundDefNext, SoundIntro
  <2> QED BY <2>3, <2>4, <2>5, <2>6, <2>7 DEF IsOpen, Entry
<1>4. CASE iu_vfd_free = NOFD
  <2>1. iu_vfds' = Append(iu_vfds, e) /\ iu_vfd_free' = NOFD /\ f = Len(iu_vfds)
    BY <1>0, <1>4 DEF Install, NewFree, NewFd
  <2>2. \E m, t : FreeList(Append(iu_vfds, e), NOFD, m, t)
    BY <1>0, <1>1, <1>2, <1>4, FreeListGrow, Zenon
  <2>3. f \in Nat /\ f \notin Fds
    BY <2>1, <1>0 DEF Fds
  <2>4. /\ iu_vfds' \in Seq(VfdEntry) /\ Len(iu_vfds') = Len(iu_vfds) + 1 /\ iu_vfds'[f + 1] = e
        /\ \A k \in 1..Len(iu_vfds) : iu_vfds'[k] = iu_vfds[k]
    BY <2>1, <1>0, <1>1
  <2>5. \A g : g \in Fds' <=> g \in Fds \/ g = f
    BY <2>1, <2>4, <1>0 DEF Fds
  <2>6. \A g \in Fds : g + 1 \in 1..Len(iu_vfds)
    BY <1>0 DEF Fds
  <2>7. FreeListSound'
    BY <2>1, <2>2, <2>4, SoundDefNext, SoundIntro
  <2> QED BY <2>3, <2>4, <2>5, <2>6, <2>7 DEF IsOpen
<1> QED BY <1>3, <1>4

(* The guest's view after Create of a handle that is not in use. *)
LEMMA CreateGiven ==
  ASSUME FdInv, NEW h \in Fresh, NEW type \in {FILE, SOCKET},
         NEW release \in BOOLEAN, Create(h, type, release), NEW f, f = NewFd
  PROVE  /\ f \in Nat /\ ~IsOpen(f) /\ ~IsGiven(f)
         /\ iu_vfds' \in Seq(VfdEntry) /\ FreeListSound'
         /\ given' \subseteq [fd : Nat, fh : Handles]
         /\ iu_vfds'[f + 1].u = h /\ iu_vfds'[f + 1].release = release
         /\ \A g : IsOpen(g)' <=> IsOpen(g) \/ g = f
         /\ \A g : g \in Fds' <=> g \in Fds \/ g = f
         /\ \A g : IsOpen(g) => iu_vfds'[g + 1] = iu_vfds[g + 1]
         /\ \A g : IsGiven(g)' <=> IsGiven(g) \/ g = f
         /\ GivenStaysOpen' /\ GivenOnce'
<1> DEFINE e == [type |-> type, u |-> h, release |-> release]
           p == [fd |-> f, fh |-> h]
<1>0. h \in Handles /\ \A g \in given : g.fh # h
  BY DEF Fresh
<1>1. TypeOK /\ FreeListSound /\ GivenStaysOpen /\ GivenOnce
  BY DEF FdInv, Ownership
<1>2. /\ f \in Nat /\ ~IsOpen(f)
      /\ iu_vfds' \in Seq(VfdEntry) /\ iu_vfds'[f + 1] = e
      /\ \A g : g \in Fds' <=> g \in Fds \/ g = f
      /\ \A g \in Fds : g # f => iu_vfds'[g + 1] = iu_vfds[g + 1]
      /\ FreeListSound'
  BY <1>0, <1>1, CreateTable
<1>3. e.u = h /\ e.release = release /\ e.type # CLOSED
  BY DEF FILE, SOCKET, CLOSED
<1>4. given' = given \cup {p} /\ p \in [fd : Nat, fh : Handles] /\ p.fd = f /\ p.fh = h
  BY <1>0, <1>2 DEF Create
<1> HIDE DEF e, p
<1>5. ~IsGiven(f)
  BY <1>1, <1>2 DEF IsGiven, GivenStaysOpen
<1>6. \A g : IsOpen(g) => g \in Fds /\ g # f
  BY <1>2 DEF IsOpen
<1>7. \A g : IsOpen(g) => iu_vfds'[g + 1] = iu_vfds[g + 1]
  BY <1>2, <1>6
<1>8. \A g : IsOpen(g)' <=> IsOpen(g) \/ g = f
  BY <1>2, <1>3, <1>6 DEF IsOpen, Entry
<1>9. \A g : IsGiven(g)' <=> IsGiven(g) \/ g = f
  BY <1>4 DEF IsGiven
<1>10. GivenStaysOpen'
  <2>1. ASSUME NEW g \in given' PROVE IsOpen(g.fd)' /\ iu_vfds'[g.fd + 1].u = g.fh
    <3>1. CASE g = p
      BY <3>1, <1>2, <1>3, <1>4, <1>8
    <3>2. CASE g \in given
      <4>1. IsOpen(g.fd) /\ iu_vfds[g.fd + 1].u = g.fh
        BY <3>2, <1>1 DEF GivenStaysOpen, Entry
      <4> QED BY <4>1, <1>7, <1>8
    <3> QED BY <3>1, <3>2, <1>4
  <2> QED BY <2>1 DEF GivenStaysOpen, Entry
<1>11. GivenOnce'
  <2>1. \A g \in Fds' : IsOpen(g)' => IsGiven(g)'
    BY <1>1, <1>6, <1>8, <1>9 DEF GivenOnce
  <2>2. \A g, k \in given' : g.fh = k.fh => g = k
    BY <1>0, <1>1, <1>4 DEF GivenOnce
  <2> QED BY <2>1, <2>2 DEF GivenOnce
<1>12. given' \subseteq [fd : Nat, fh : Handles]
  BY <1>1, <1>4 DEF TypeOK
<1> QED BY <1>2, <1>3, <1>5, <1>7, <1>8, <1>9, <1>10, <1>11, <1>12

(* The host handles that the table can still release. *)
Releasable == {g \in Fds : IsOpen(g) /\ Entry(g).release /\ ~InClose(g)}

LEMMA HandlesDef ==
  /\ HandlesReachable <=> (phase # "gone" => hostopen = {Entry(fd).u : fd \in Releasable})
  /\ HandlesReachable' <=>
       (phase' # "gone" => hostopen' = {iu_vfds'[fd + 1].u : fd \in Releasable'})
BY Zenon DEF HandlesReachable, Releasable, Entry, Fds, IsOpen, InClose

LEMMA ReleasableDef ==
  /\ \A g : g \in Releasable <=> IsOpen(g) /\ iu_vfds[g + 1].release /\ ~InClose(g)
  /\ \A g : g \in Releasable' <=> IsOpen(g)' /\ iu_vfds'[g + 1].release /\ ~InClose(g)'
BY Zenon DEF Releasable, Entry, Fds, IsOpen, InClose

(* Every way of making a descriptor keeps the invariant. *)
LEMMA CreateStep ==
  ASSUME FdInv, Idle, NEW h \in Fresh, NEW type \in {FILE, SOCKET},
         NEW release \in BOOLEAN, Create(h, type, release), NEW f, f = NewFd,
         phase' = phase,
         \/ /\ closing' = <<>>
            /\ hostopen' = IF release THEN hostopen \cup {h} ELSE hostopen
            /\ iu_vfiles' = iu_vfiles \/ iu_vfiles' = <<f>> \o iu_vfiles
         \/ closing' = <<Call(f, FALSE)>> /\ hostopen' = hostopen /\ iu_vfiles' = iu_vfiles
  PROVE  FdInv'
<1>0. TypeOK /\ StreamsOwnTheirFd /\ HandlesReachable /\ closing = <<>> /\ phase # "gone"
  BY DEF FdInv, Ownership, Idle
<1>1. /\ f \in Nat /\ ~IsOpen(f) /\ ~IsGiven(f)
      /\ iu_vfds' \in Seq(VfdEntry) /\ FreeListSound'
      /\ given' \subseteq [fd : Nat, fh : Handles]
      /\ iu_vfds'[f + 1].u = h /\ iu_vfds'[f + 1].release = release
      /\ \A g : IsOpen(g)' <=> IsOpen(g) \/ g = f
      /\ \A g : g \in Fds' <=> g \in Fds \/ g = f
      /\ \A g : IsOpen(g) => iu_vfds'[g + 1] = iu_vfds[g + 1]
      /\ \A g : IsGiven(g)' <=> IsGiven(g) \/ g = f
      /\ GivenStaysOpen' /\ GivenOnce'
  BY CreateGiven
<1>2. iu_vfiles \in Seq(Nat) /\ Len(iu_vfiles) \in Nat
  BY <1>0 DEF TypeOK
<1>3. ~IsStream(f)
  BY <1>0, <1>1 DEF StreamsOwnTheirFd, IsStream
<1>4. closing' \in Seq([fd : Nat, stream : BOOLEAN])
  <2>1. <<>> \in Seq([fd : Nat, stream : BOOLEAN])
    OBVIOUS
  <2>2. Call(f, FALSE) \in [fd : Nat, stream : BOOLEAN]
    BY <1>1 DEF Call
  <2>3. \A S : \A x \in S : <<x>> \in Seq(S)
    OBVIOUS
  <2> QED BY <2>1, <2>2, <2>3
<1>5. iu_vfiles' \in Seq(Nat) /\ StreamsOwnTheirFd'
  <2>1. CASE iu_vfiles' = iu_vfiles
    BY <2>1, <1>0, <1>1, <1>2 DEF StreamsOwnTheirFd
  <2>2. CASE iu_vfiles' = <<f>> \o iu_vfiles
    <3> DEFINE n == Len(iu_vfiles)
    <3>1. /\ iu_vfiles' \in Seq(Nat) /\ Len(iu_vfiles') = n + 1 /\ iu_vfiles'[1] = f
          /\ \A i \in 1..(n+1) : i # 1 => i - 1 \in 1..n /\ iu_vfiles'[i] = iu_vfiles[i-1]
      BY <2>2, <1>1, <1>2
    <3>2. \A i, j \in 1..(n+1) : i - 1 = j - 1 => i = j
      BY <1>2
    <3>3. \A i \in 1..n : iu_vfiles[i] # f /\ IsGiven(iu_vfiles[i])
      BY <1>0, <1>3 DEF IsStream, StreamsOwnTheirFd
    <3>4. \A x : x = f \/ IsGiven(x) => \E g \in given' : g.fd = x
      BY <1>1 DEF IsGiven
    <3>5. \A i \in 1..(n+1) : \E g \in given' : g.fd = iu_vfiles'[i]
      BY <3>1, <3>3, <3>4
    <3>6. \A i, j \in 1..(n+1) : iu_vfiles'[i] = iu_vfiles'[j] => i = j
      BY <3>1, <3>2, <3>3, <1>0 DEF StreamsOwnTheirFd
    <3> QED BY <3>1, <3>5, <3>6 DEF StreamsOwnTheirFd, IsGiven
  <2> QED BY <2>1, <2>2
<1>6. ClosingSound'
  <2>1. CASE closing' = <<>>
    BY <2>1 DEF ClosingSound
  <2>2. CASE closing' = <<Call(f, FALSE)>> /\ iu_vfiles' = iu_vfiles
    <3>1. /\ Len(closing') = 1 /\ \A i \in 1..1 : i = 1
          /\ closing'[1].fd = f /\ closing'[1].stream = FALSE
      BY <2>2 DEF Call
    <3>2. ~IsStream(f)'
      BY <2>2, <1>3 DEF IsStream
    <3>3. IsOpen(f)'
      BY <1>1
    <3>4. IsOpen(closing[1].fd)' /\ ~IsStream(closing[1].fd)'
      BY <3>1, <3>2, <3>3 DEF IsOpen, IsStream, Entry, Fds
    <3> QED BY <3>1, <3>4 DEF ClosingSound
  <2> QED BY <2>1, <2>2
<1>7. HandlesReachable'
  <2>0. hostopen = {iu_vfds[fd + 1].u : fd \in Releasable}
    BY <1>0, HandlesDef DEF Entry
  <2>a. \A g : ~InClose(g)
    BY <1>0 DEF InClose
  <2>1. CASE /\ closing' = <<>>
             /\ hostopen' = IF release THEN hostopen \cup {h} ELSE hostopen
    <3>1. \A g : ~InClose(g)'
      BY <2>1 DEF InClose
    <3>2. \A g : g \in Releasable' <=> g \in Releasable \/ (g = f /\ release)
      BY <3>1, <2>a, <1>1, ReleasableDef
    <3>3. \A g \in Releasable : iu_vfds'[g + 1].u = iu_vfds[g + 1].u
      BY <1>1, ReleasableDef
    <3>4. hostopen' = {iu_vfds'[fd + 1].u : fd \in Releasable'}
      BY <2>0, <2>1, <3>2, <3>3, <1>1
    <3> QED BY <3>4, HandlesDef
  <2>2. CASE closing' = <<Call(f, FALSE)>> /\ hostopen' = hostopen
    <3>1. \A g : InClose(g)' <=> g = f
      <4>1. Len(closing') = 1 /\ closing'[1].fd = f
        BY <2>2 DEF Call
      <4> QED BY <4>1 DEF InClose
    <3>2. \A g : g \in Releasable' <=> g \in Releasable
      BY <3>1, <2>a, <1>1, ReleasableDef
    <3>3. \A g \in Releasable : iu_vfds'[g + 1].u = iu_vfds[g + 1].u
      BY <1>1, ReleasableDef
    <3>4. hostopen' = {iu_vfds'[fd + 1].u : fd \in Releasable'}
      BY <2>0, <2>2, <3>2, <3>3
    <3> QED BY <3>4, HandlesDef
  <2> QED BY <2>1, <2>2
<1>8. TypeOK'
  BY <1>1, <1>4, <1>5 DEF TypeOK
<1> QED BY <1>1, <1>5, <1>6, <1>7, <1>8 DEF FdInv, Ownership
-----------------------------------------------------------------------------
(* vmir_fd_close *)

(* Two open descriptors never share a handle. *)
LEMMA OpenDistinct ==
  ASSUME FdInv, NEW a, NEW b, IsOpen(a), IsOpen(b), iu_vfds[a + 1].u = iu_vfds[b + 1].u
  PROVE  a = b
<1>1. IsGiven(a) /\ IsGiven(b)
  BY DEF FdInv, GivenOnce, IsOpen
<1>2. PICK g \in given : g.fd = a
  BY <1>1 DEF IsGiven
<1>3. PICK k \in given : k.fd = b
  BY <1>1 DEF IsGiven
<1>4. g.fh = k.fh
  BY <1>2, <1>3 DEF FdInv, Ownership, GivenStaysOpen, Entry
<1>5. g = k
  BY <1>4 DEF FdInv, GivenOnce
<1> QED BY <1>2, <1>3, <1>5

(* The first half: the release callback runs while the entry stays open. *)
LEMMA BeginStep ==
  ASSUME FdInv, NEW fd, NEW stream \in BOOLEAN, CloseBegin(fd, stream), ~InClose(fd),
         stream <=> IsStream(fd), UNCHANGED <<iu_vfds, iu_vfd_free, iu_vfiles, given, phase>>
  PROVE  FdInv'
<1> DEFINE n == Len(closing)
           c == Call(fd, stream)
<1>0. /\ TypeOK /\ closing \in Seq([fd : Nat, stream : BOOLEAN]) /\ n \in Nat
      /\ IsOpen(fd) /\ hostopen' = Released(fd) /\ closing' = <<c>> \o closing
  BY DEF FdInv, TypeOK, CloseBegin
<1>1. fd \in Nat
  BY <1>0 DEF IsOpen, Fds, TypeOK
<1>2. c \in [fd : Nat, stream : BOOLEAN] /\ c.fd = fd /\ c.stream = stream
  BY <1>1 DEF Call
<1> HIDE DEF c
<1>3. /\ closing' \in Seq([fd : Nat, stream : BOOLEAN]) /\ Len(closing') = n + 1
      /\ closing'[1] = c
      /\ \A i \in 1..(n+1) : i # 1 => i - 1 \in 1..n /\ closing'[i] = closing[i-1]
      /\ \A i \in 1..n : i + 1 \in 1..(n+1) /\ i + 1 # 1 /\ (i + 1) - 1 = i
      /\ 1 \in 1..(n+1) /\ \A i, j \in 1..(n+1) : i - 1 = j - 1 => i = j
  BY <1>0, <1>2
<1>4. /\ \A g : IsOpen(g)' <=> IsOpen(g)
      /\ \A g : IsGiven(g)' <=> IsGiven(g)
      /\ \A g : IsStream(g)' <=> IsStream(g)
  BY DEF IsOpen, Fds, Entry, IsGiven, IsStream
<1>5. TypeOK'
  BY <1>0, <1>3 DEF TypeOK
<1>6. FreeListSound'
  BY SoundDef, SoundDefNext DEF FdInv
<1>7. GivenStaysOpen' /\ StreamsOwnTheirFd' /\ GivenOnce'
  BY DEF FdInv, Ownership, GivenStaysOpen, StreamsOwnTheirFd, GivenOnce, IsOpen, Fds, Entry, IsGiven
<1>8. \A g : InClose(g)' <=> InClose(g) \/ g = fd
  <2>1. ASSUME NEW g, InClose(g)' PROVE InClose(g) \/ g = fd
    <3>1. PICK i \in 1..(n+1) : closing'[i].fd = g
      BY <2>1, <1>3 DEF InClose
    <3> QED BY <3>1, <1>2, <1>3 DEF InClose
  <2>2. ASSUME NEW g, InClose(g) PROVE InClose(g)'
    <3>1. PICK i \in 1..n : closing[i].fd = g
      BY <2>2 DEF InClose
    <3>2. i + 1 \in 1..(n+1) /\ closing'[i+1].fd = g
      BY <3>1, <1>3
    <3> QED BY <3>2, <1>3 DEF InClose
  <2>3. InClose(fd)'
    BY <1>2, <1>3 DEF InClose
  <2> QED BY <2>1, <2>2, <2>3
<1>9. HandlesReachable'
  <2> SUFFICES ASSUME phase' # "gone"
               PROVE  hostopen' = {iu_vfds'[g + 1].u : g \in Releasable'}
    BY HandlesDef
  <2>1. hostopen = {iu_vfds[g + 1].u : g \in Releasable}
    BY HandlesDef DEF FdInv, Ownership, Entry
  <2>2. \A g : g \in Releasable' <=> g \in Releasable /\ g # fd
    BY <1>4, <1>8, ReleasableDef
  <2>3. \A g \in Releasable : g # fd => iu_vfds[g + 1].u # iu_vfds[fd + 1].u
    BY <1>0, OpenDistinct, ReleasableDef
  <2>4. CASE iu_vfds[fd + 1].release
    <3>1. hostopen' = hostopen \ {iu_vfds[fd + 1].u}
      BY <2>4, <1>0 DEF Released, Entry
    <3> QED BY <3>1, <2>1, <2>2, <2>3
  <2>5. CASE ~iu_vfds[fd + 1].release
    <3>1. hostopen' = hostopen /\ fd \notin Releasable
      BY <2>5, <1>0, ReleasableDef DEF Released, Entry
    <3> QED BY <3>1, <2>1, <2>2
  <2> QED BY <2>4, <2>5
<1>10. ClosingSound'
  <2>1. /\ \A i \in 1..n : IsOpen(closing[i].fd) /\ closing[i].fd # fd
        /\ \A i, j \in 1..n : closing[i].fd = closing[j].fd => i = j
        /\ \A i \in 1..n : closing[i].stream <=> IsStream(closing[i].fd)
    BY DEF FdInv, ClosingSound, InClose
  <2>2. \A i \in 1..(n+1) : closing'[i].fd \in {g \in Fds : IsOpen(g)}
    BY <2>1, <1>0, <1>2, <1>3 DEF IsOpen
  <2>3. \A i \in 1..(n+1) : IsOpen(closing[i].fd)'
    BY <2>2 DEF IsOpen, Fds, Entry
  <2>4. ASSUME NEW i \in 1..(n+1), NEW j \in 1..(n+1), closing'[i].fd = closing'[j].fd
        PROVE  i = j
    <3>1. CASE i = 1 \/ j = 1
      BY <2>1, <2>4, <3>1, <1>2, <1>3
    <3>2. CASE i # 1 /\ j # 1
      <4>1. i - 1 \in 1..n /\ j - 1 \in 1..n /\ closing[i-1].fd = closing[j-1].fd
        BY <2>4, <3>2, <1>3
      <4>2. i - 1 = j - 1
        BY <4>1, <2>1
      <4> QED BY <4>2, <1>3
    <3> QED BY <3>1, <3>2
  <2>5. ASSUME NEW i \in 1..(n+1)
        PROVE  closing'[i].stream <=> \E k \in 1..Len(iu_vfiles) : iu_vfiles[k] = closing'[i].fd
    <3>1. CASE i = 1
      BY <3>1, <1>2, <1>3, Zenon DEF IsStream
    <3>2. CASE i # 1
      <4>1. i - 1 \in 1..n /\ closing'[i] = closing[i-1]
        BY <3>2, <1>3
      <4> QED BY <4>1, <2>1, Zenon DEF IsStream
    <3> QED BY <3>1, <3>2
  <2>6. \A i \in 1..(n+1) : closing'[i].stream <=> IsStream(closing[i].fd)'
    BY <2>5, Zenon DEF IsStream
  <2> QED BY <2>3, <2>4, <2>6, <1>3 DEF ClosingSound
<1> QED BY <1>5, <1>6, <1>7, <1>9, <1>10 DEF FdInv, Ownership

(* LIST_REMOVE: exactly the stream of call.fd leaves iu_vfiles. *)
LEMMA UnlinkedFacts ==
  ASSUME TypeOK, StreamsOwnTheirFd, NEW STATE call, call.stream \in BOOLEAN,
         call.stream <=> IsStream(call.fd)
  PROVE  /\ Unlinked(call) \in Seq(Nat) /\ Distinct(Unlinked(call))
         /\ \A f : (\E j \in 1..Len(Unlinked(call)) : Unlinked(call)[j] = f)
                     <=> IsStream(f) /\ f # call.fd
<1>0. iu_vfiles \in Seq(Nat) /\ Distinct(iu_vfiles)
  BY DEF TypeOK, StreamsOwnTheirFd, Distinct
<1>1. CASE call.stream
  <2> DEFINE k == CHOOSE i \in 1..Len(iu_vfiles) : iu_vfiles[i] = call.fd
             t == RemoveAt(iu_vfiles, k)
  <2>1. \E i \in 1..Len(iu_vfiles) : iu_vfiles[i] = call.fd
    BY <1>1, Zenon DEF IsStream
  <2>2. k \in 1..Len(iu_vfiles) /\ iu_vfiles[k] = call.fd
    BY <2>1
  <2>3. Unlinked(call) = t
    BY <1>1 DEF Unlinked
  <2> HIDE DEF k
  <2>4. t \in Seq(Nat)
    BY <2>2, <1>0, RemoveAtFacts
  <2>5. /\ Distinct(t)
        /\ \A j \in 1..Len(t) : t[j] # iu_vfiles[k] /\ \E i \in 1..Len(iu_vfiles) : t[j] = iu_vfiles[i]
        /\ \A i \in 1..Len(iu_vfiles) : i # k => \E j \in 1..Len(t) : t[j] = iu_vfiles[i]
    BY <2>2, <1>0, RemoveDistinct, Zenon
  <2> HIDE DEF t
  <2>6. \A f : (\E j \in 1..Len(t) : t[j] = f) <=> IsStream(f) /\ f # call.fd
    BY <2>2, <2>5 DEF IsStream
  <2>7. Unlinked(call) \in Seq(Nat)
    BY <2>3, <2>4
  <2>8. Distinct(Unlinked(call))
    BY <2>3, <2>5
  <2>9. \A f : (\E j \in 1..Len(Unlinked(call)) : Unlinked(call)[j] = f)
                 <=> IsStream(f) /\ f # call.fd
    BY <2>3, <2>6
  <2> QED BY <2>7, <2>8, <2>9
<1>2. CASE ~call.stream
  <2>1. Unlinked(call) = iu_vfiles
    BY <1>2 DEF Unlinked
  <2>2. ~IsStream(call.fd)
    BY <1>2, Zenon
  <2> QED BY <1>0, <2>1, <2>2 DEF IsStream
<1> QED BY <1>1, <1>2

(* The second half: the entry goes on the free list. *)
LEMMA EndStep ==
  ASSUME FdInv, CloseEnd
  PROVE  FdInv'
<1> DEFINE n == Len(closing)
           call == Head(closing)
           fd == call.fd
           e == [type |-> CLOSED, u |-> iu_vfd_free, release |-> iu_vfds[fd + 1].release]
           m == Len(iu_vfds)
<1>0. /\ TypeOK /\ closing \in Seq([fd : Nat, stream : BOOLEAN]) /\ closing # <<>>
      /\ n \in Nat /\ n >= 1 /\ 1 \in 1..n /\ iu_vfds \in Seq(VfdEntry) /\ m \in Nat
  BY DEF FdInv, TypeOK, CloseEnd
<1>1. call = closing[1] /\ call \in [fd : Nat, stream : BOOLEAN] /\ fd \in Nat
  <2>1. call = closing[1]
    BY <1>0
  <2>2. closing[1] \in [fd : Nat, stream : BOOLEAN]
    BY <1>0, ElementOfSeq, Zenon
  <2> HIDE DEF call
  <2> QED BY <2>1, <2>2
<1>2. call.stream \in BOOLEAN /\ IsOpen(fd) /\ (call.stream <=> IsStream(fd))
  BY <1>0, <1>1, Zenon DEF FdInv, ClosingSound
<1>3. fd \in Fds /\ fd + 1 \in 1..m /\ iu_vfds[fd + 1].type # CLOSED
  BY <1>0, <1>1, <1>2 DEF IsOpen, Fds, Entry
<1>4. /\ iu_vfds' = [iu_vfds EXCEPT ![fd + 1] = e] /\ iu_vfd_free' = fd
      /\ given' = {g \in given : g.fd # fd} /\ iu_vfiles' = Unlinked(call)
      /\ closing' = Tail(closing) /\ hostopen' = hostopen /\ phase' = phase
  BY DEF CloseEnd, FreeLink, FreeHead
<1>5. PICK k, s : FreeList(iu_vfds, iu_vfd_free, k, s)
  BY <1>0, SoundDef, SoundElim DEF FdInv
<1>6. iu_vfd_free \in Int
  <2>1. k \in Nat /\ s \in [1..k -> ClosedOf(iu_vfds)] /\ iu_vfd_free = IF k = 0 THEN NOFD ELSE s[1]
    BY <1>5 DEF FreeList
  <2>2. \A f \in ClosedOf(iu_vfds) : f \in Int
    BY <1>0 DEF ClosedOf
  <2>3. k # 0 => 1 \in 1..k
    BY <2>1
  <2> QED BY <2>1, <2>2, <2>3 DEF NOFD
<1>7. e \in VfdEntry /\ e.type = CLOSED /\ e.u = iu_vfd_free
  <2>1. iu_vfds[fd + 1] \in VfdEntry
    BY <1>0, <1>3
  <2>2. iu_vfds[fd + 1].release \in BOOLEAN
    BY <2>1 DEF VfdEntry
  <2> QED BY <2>2, <1>6 DEF VfdEntry
<1> HIDE DEF call, e
<1>8. /\ iu_vfds' \in Seq(VfdEntry) /\ Len(iu_vfds') = m /\ iu_vfds'[fd + 1] = e
      /\ \A i \in 1..m : i # fd + 1 => iu_vfds'[i] = iu_vfds[i]
  BY <1>0, <1>3, <1>4, <1>7
<1>9. Fds' = Fds /\ \A g \in Fds : g \in Nat /\ g + 1 \in 1..m /\ (g # fd => g + 1 # fd + 1)
  BY <1>0, <1>1, <1>8 DEF Fds
<1>10. \A g \in Fds : g # fd => iu_vfds'[g + 1] = iu_vfds[g + 1]
  BY <1>8, <1>9
<1>11. \A g : IsOpen(g)' <=> IsOpen(g) /\ g # fd
  BY <1>7, <1>8, <1>9, <1>10 DEF IsOpen, Entry
<1>12. \A g : IsGiven(g)' <=> IsGiven(g) /\ g # fd
  BY <1>4 DEF IsGiven
<1>13. /\ closing' \in Seq([fd : Nat, stream : BOOLEAN]) /\ Len(closing') = n - 1
       /\ \A i \in 1..(n-1) : i + 1 \in 1..n /\ i + 1 # 1 /\ closing'[i] = closing[i+1]
       /\ \A i \in 1..n : i # 1 => i - 1 \in 1..(n-1) /\ (i - 1) + 1 = i
       /\ \A i, j \in 1..(n-1) : i + 1 = j + 1 => i = j
  BY <1>0, <1>4
<1>14. /\ \A i, j \in 1..n : closing[i].fd = closing[j].fd => i = j
       /\ \A i \in 1..n : IsOpen(closing[i].fd) /\ (closing[i].stream <=> IsStream(closing[i].fd))
  BY Zenon DEF FdInv, ClosingSound
<1>15. ASSUME NEW i \in 1..(n-1) PROVE closing'[i].fd # fd
  <2>1. i + 1 \in 1..n /\ i + 1 # 1 /\ closing'[i] = closing[i+1]
    BY <1>13
  <2>2. closing[i+1].fd # closing[1].fd
    BY <2>1, <1>0, <1>14
  <2> QED BY <2>1, <2>2, <1>1
<1>16. \A g : g # fd => (InClose(g)' <=> InClose(g))
  <2>1. ASSUME NEW g, g # fd, InClose(g) PROVE InClose(g)'
    <3>1. PICK i \in 1..n : closing[i].fd = g
      BY <2>1 DEF InClose
    <3>2. i # 1
      BY <2>1, <3>1, <1>1
    <3>3. i - 1 \in 1..(n-1) /\ closing'[i-1].fd = g
      BY <3>1, <3>2, <1>13
    <3> QED BY <3>3, <1>13 DEF InClose
  <2>2. ASSUME NEW g, InClose(g)' PROVE InClose(g)
    <3>1. PICK i \in 1..(n-1) : closing'[i].fd = g
      BY <2>2, <1>13 DEF InClose
    <3>2. i + 1 \in 1..n /\ closing[i+1].fd = g
      BY <3>1, <1>13
    <3> QED BY <3>2 DEF InClose
  <2> QED BY <2>1, <2>2
<1>17. /\ iu_vfiles' \in Seq(Nat) /\ Distinct(iu_vfiles')
       /\ \A f : (\E j \in 1..Len(iu_vfiles') : iu_vfiles'[j] = f) <=> IsStream(f) /\ f # fd
  <2>1. StreamsOwnTheirFd
    BY DEF FdInv, Ownership
  <2>2. /\ Unlinked(call) \in Seq(Nat) /\ Distinct(Unlinked(call))
        /\ \A f : (\E j \in 1..Len(Unlinked(call)) : Unlinked(call)[j] = f)
                     <=> IsStream(f) /\ f # fd
    BY <2>1, <1>0, <1>2, UnlinkedFacts
  <2>3. iu_vfiles' = Unlinked(call)
    BY <1>4
  <2> QED BY <2>2, <2>3, Zenon
<1>18. TypeOK'
  BY <1>0, <1>4, <1>8, <1>13, <1>17 DEF TypeOK
<1>19. FreeListSound'
  <2>1. fd \in 0..(Len(iu_vfds) - 1)
    BY <1>3 DEF Fds
  <2>2. \E j, t : FreeList(iu_vfds', iu_vfd_free', j, t)
    BY <2>1, <1>0, <1>3, <1>4, <1>5, <1>7, FreeListPush, Zenon
  <2> QED BY <2>2, <1>8, SoundIntro, SoundDefNext
<1>20. GivenStaysOpen'
  <2>1. ASSUME NEW g \in given' PROVE IsOpen(g.fd)' /\ iu_vfds'[g.fd + 1].u = g.fh
    <3>1. g \in given /\ g.fd # fd
      BY <1>4
    <3>2. IsOpen(g.fd) /\ iu_vfds[g.fd + 1].u = g.fh
      BY <3>1 DEF FdInv, Ownership, GivenStaysOpen, Entry
    <3>3. g.fd \in Fds
      BY <3>2 DEF IsOpen
    <3> QED BY <3>1, <3>2, <3>3, <1>10, <1>11
  <2> QED BY <2>1 DEF GivenStaysOpen, Entry
<1>21. GivenOnce'
  <2>1. \A g \in Fds' : IsOpen(g)' => IsGiven(g)'
    BY <1>9, <1>11, <1>12 DEF FdInv, GivenOnce
  <2>2. \A g, h \in given' : g.fh = h.fh => g = h
    BY <1>4 DEF FdInv, GivenOnce
  <2> QED BY <2>1, <2>2 DEF GivenOnce
<1>22. HandlesReachable'
  <2> SUFFICES ASSUME phase' # "gone"
               PROVE  hostopen' = {iu_vfds'[g + 1].u : g \in Releasable'}
    BY HandlesDef
  <2>1. hostopen = {iu_vfds[g + 1].u : g \in Releasable}
    BY <1>4, HandlesDef DEF FdInv, Ownership, Entry
  <2>2. InClose(fd)
    BY <1>0, <1>1 DEF InClose
  <2>3. \A g \in Releasable : g # fd /\ g \in Fds
    BY <2>2, ReleasableDef DEF IsOpen
  <2>4. \A g : IsOpen(g) => g \in Fds
    BY DEF IsOpen
  <2>5. \A g : g \in Releasable' <=> g \in Releasable
    BY <2>3, <2>4, <1>10, <1>11, <1>16, ReleasableDef
  <2>6. \A g \in Releasable : iu_vfds'[g + 1].u = iu_vfds[g + 1].u
    BY <2>3, <1>10
  <2> QED BY <2>1, <2>5, <2>6, <1>4
<1>23. StreamsOwnTheirFd'
  <2>1. \A f : IsStream(f) => IsGiven(f)
    BY DEF FdInv, Ownership, StreamsOwnTheirFd, IsStream
  <2>2. \A j \in 1..Len(iu_vfiles') : \E g \in given' : g.fd = iu_vfiles'[j]
    BY <2>1, <1>12, <1>17 DEF IsGiven
  <2> QED BY <2>2, <1>17 DEF StreamsOwnTheirFd, IsGiven, Distinct
<1>24. ClosingSound'
  <2>1. \A i \in 1..(n-1) : /\ IsOpen(closing[i+1].fd)
                            /\ closing[i+1].fd # fd
                            /\ closing'[i].fd = closing[i+1].fd
    BY <1>13, <1>14, <1>15
  <2>2. \A x : IsOpen(x) /\ x # fd => x \in Fds' /\ iu_vfds'[x + 1].type # CLOSED
    BY <1>11 DEF IsOpen, Entry
  <2>3. \A i \in 1..(n-1) : IsOpen(closing[i].fd)'
    BY <2>1, <2>2 DEF IsOpen, Entry
  <2>4. ASSUME NEW i \in 1..(n-1), NEW j \in 1..(n-1), closing'[i].fd = closing'[j].fd
        PROVE  i = j
    <3>1. i + 1 \in 1..n /\ j + 1 \in 1..n /\ closing[i+1].fd = closing[j+1].fd
      BY <2>1, <2>4, <1>13
    <3>2. i + 1 = j + 1
      BY <3>1, <1>14
    <3> QED BY <3>2, <1>13
  <2>5. ASSUME NEW i \in 1..(n-1)
        PROVE  closing'[i].stream
                 <=> \E j \in 1..Len(iu_vfiles') : iu_vfiles'[j] = closing'[i].fd
    <3>1. closing'[i] = closing[i+1] /\ i + 1 \in 1..n /\ closing[i+1].fd # fd
      BY <2>1, <1>13
    <3>2. closing[i+1].stream <=> IsStream(closing[i+1].fd)
      BY <3>1, <1>14, Zenon
    <3> QED BY <3>1, <3>2, <1>17, Zenon
  <2>6. \A i \in 1..(n-1) : closing'[i].stream <=> IsStream(closing[i].fd)'
    BY <2>5, Zenon DEF IsStream
  <2> QED BY <2>3, <2>4, <2>6, <1>13 DEF ClosingSound
<1> QED BY <1>18, <1>19, <1>20, <1>21, <1>22, <1>23, <1>24 DEF FdInv, Ownership
-----------------------------------------------------------------------------
(* fdopen: one more stream, of a descriptor that had none. *)
LEMMA FdopenStep ==
  ASSUME FdInv, NEW fd \in Fds, Fdopen(fd)
  PROVE  FdInv'
<1> DEFINE n == Len(iu_vfiles)
<1>0. /\ iu_vfiles \in Seq(Nat) /\ n \in Nat /\ closing = <<>> /\ closing' = <<>>
      /\ IsGiven(fd) /\ ~IsStream(fd) /\ iu_vfiles' = <<fd>> \o iu_vfiles
      /\ UNCHANGED <<iu_vfds, iu_vfd_free, hostopen, given, phase>>
  BY DEF FdInv, TypeOK, Fdopen, Idle
<1>1. fd \in Nat
  BY DEF FdInv, TypeOK, Fds
<1>2. /\ iu_vfiles' \in Seq(Nat) /\ Len(iu_vfiles') = n + 1 /\ iu_vfiles'[1] = fd
      /\ \A i \in 1..(n+1) : i # 1 => i - 1 \in 1..n /\ iu_vfiles'[i] = iu_vfiles[i-1]
      /\ \A i, j \in 1..(n+1) : i - 1 = j - 1 => i = j
  BY <1>0, <1>1
<1>3. \A i \in 1..n : iu_vfiles[i] # fd /\ IsGiven(iu_vfiles[i])
  BY <1>0 DEF IsStream, FdInv, Ownership, StreamsOwnTheirFd
<1>4. StreamsOwnTheirFd'
  <2>1. \A i \in 1..(n+1) : \E g \in given' : g.fd = iu_vfiles'[i]
    BY <1>0, <1>2, <1>3 DEF IsGiven
  <2>2. ASSUME NEW i \in 1..(n+1), NEW j \in 1..(n+1), iu_vfiles'[i] = iu_vfiles'[j]
        PROVE  i = j
    <3>1. CASE i = 1 \/ j = 1
      BY <2>2, <3>1, <1>2, <1>3
    <3>2. CASE i # 1 /\ j # 1
      <4>1. i - 1 = j - 1
        BY <2>2, <3>2, <1>2 DEF FdInv, Ownership, StreamsOwnTheirFd
      <4> QED BY <4>1, <1>2
    <3> QED BY <3>1, <3>2
  <2> QED BY <2>1, <2>2, <1>2 DEF StreamsOwnTheirFd, IsGiven
<1>5. TypeOK'
  BY <1>0, <1>2 DEF FdInv, TypeOK
<1>6. FreeListSound'
  BY <1>0, SoundDef, SoundDefNext DEF FdInv
<1>7. GivenStaysOpen' /\ HandlesReachable' /\ GivenOnce'
  <2>1. UNCHANGED <<iu_vfds, hostopen, given, phase, closing>>
    BY <1>0
  <2>2. GivenStaysOpen' /\ GivenOnce'
    BY <2>1 DEF FdInv, Ownership, GivenStaysOpen, GivenOnce, IsOpen, Fds, Entry, IsGiven
  <2>3. HandlesReachable'
    BY <2>1 DEF FdInv, Ownership, HandlesReachable, IsOpen, Fds, Entry, InClose
  <2> QED BY <2>2, <2>3
<1>8. ClosingSound'
  BY <1>0 DEF ClosingSound
<1> QED BY <1>4, <1>5, <1>6, <1>7, <1>8 DEF FdInv, Ownership

LEMMA InitFd == Init => FdInv
<1> SUFFICES ASSUME Init PROVE FdInv
  OBVIOUS
<1>0. /\ iu_vfds = <<>> /\ iu_vfiles = <<>> /\ closing = <<>> /\ given = {} /\ hostopen = {}
      /\ iu_vfd_free = NOFD
  BY DEF Init
<1>1. \A S : <<>> \in Seq(S)
  OBVIOUS
<1>2. TypeOK
  BY <1>0, <1>1 DEF TypeOK
<1>3. Len(iu_vfds) = 0 /\ Fds = {} /\ ClosedOf(iu_vfds) = {}
  BY <1>0 DEF Fds, ClosedOf
<1>4. FreeListSound
  <2>1. <<>> \in [1..0 -> ClosedOf(iu_vfds)]
    OBVIOUS
  <2>2. FreeList(iu_vfds, iu_vfd_free, 0, <<>>)
    BY <2>1, <1>0, <1>3 DEF FreeList
  <2> QED BY <2>2, <1>0, <1>1, SoundIntro, SoundDef
<1>5. Ownership
  BY <1>0, <1>3 DEF Ownership, GivenStaysOpen, HandlesReachable, StreamsOwnTheirFd
<1>6. ClosingSound /\ GivenOnce
  BY <1>0, <1>3 DEF ClosingSound, GivenOnce
<1> QED BY <1>2, <1>4, <1>5, <1>6 DEF FdInv

(* vmir_destroy drops the table. *)
LEMMA DoneStep ==
  ASSUME FdInv, TerminateDone
  PROVE  FdInv'
<1>0. /\ iu_vfds' = <<>> /\ iu_vfiles' = <<>> /\ closing' = <<>> /\ given' = {}
      /\ iu_vfd_free' = NOFD /\ phase' = "gone"
  BY DEF TerminateDone
<1>1. \A S : <<>> \in Seq(S)
  OBVIOUS
<1>2. TypeOK'
  BY <1>0, <1>1 DEF TypeOK
<1>3. Fds' = {} /\ ClosedOf(iu_vfds') = {}
  BY <1>0 DEF Fds, ClosedOf
<1>4. FreeListSound'
  <2>1. <<>> \in [1..0 -> ClosedOf(iu_vfds')]
    OBVIOUS
  <2>2. FreeList(iu_vfds', iu_vfd_free', 0, <<>>)
    BY <2>1, <1>0, <1>3 DEF FreeList
  <2> QED BY <2>2, <1>0, <1>1, SoundIntro, SoundDefNext
<1>5. Ownership'
  BY <1>0, <1>3 DEF Ownership, GivenStaysOpen, HandlesReachable, StreamsOwnTheirFd
<1>6. ClosingSound' /\ GivenOnce'
  BY <1>0, <1>3 DEF ClosingSound, GivenOnce
<1> QED BY <1>2, <1>4, <1>5, <1>6 DEF FdInv

LEMMA SameStep ==
  ASSUME FdInv, UNCHANGED <<iu_vfds, iu_vfd_free, iu_vfiles, closing, hostopen, given>>,
         phase' = "gone" => phase = "gone", phase = "gone" => phase' = "gone"
  PROVE  FdInv'
<1>1. TypeOK'
  BY DEF FdInv, TypeOK
<1>2. FreeListSound'
  BY SoundDef, SoundDefNext DEF FdInv
<1>3. GivenStaysOpen' /\ HandlesReachable' /\ GivenOnce'
  BY DEF FdInv, Ownership, GivenStaysOpen, HandlesReachable, GivenOnce, IsOpen, Fds, Entry,
         IsGiven, InClose
<1>4. StreamsOwnTheirFd'
  BY DEF FdInv, Ownership, StreamsOwnTheirFd, IsGiven
<1>5. ClosingSound'
  BY Zenon DEF FdInv, ClosingSound, IsOpen, IsStream, Fds, Entry
<1> QED BY <1>1, <1>2, <1>3, <1>4, <1>5 DEF FdInv, Ownership

LEMMA NextFd == FdInv /\ [Next]_vars => FdInv'
<1> SUFFICES ASSUME FdInv, [Next]_vars PROVE FdInv'
  OBVIOUS
<1>1. ASSUME NEW h \in Fresh, Fopen(h) \/ FopenFails(h) \/ Open(h) PROVE FdInv'
  <2>1. Idle /\ Create(h, FILE, TRUE) /\ phase' = phase /\ closing = <<>>
    BY <1>1 DEF Fopen, FopenFails, Open, Idle
  <2>2. PICK f : f = NewFd
    OBVIOUS
  <2>3. CASE Fopen(h) \/ Open(h)
    <3>1. /\ closing' = <<>> /\ hostopen' = hostopen \cup {h}
          /\ iu_vfiles' = iu_vfiles \/ iu_vfiles' = <<f>> \o iu_vfiles
      BY <2>1, <2>2, <2>3 DEF Fopen, Open
    <3> QED BY <2>1, <2>2, <3>1, CreateStep
  <2>4. CASE FopenFails(h)
    <3>1. closing' = <<Call(f, FALSE)>> /\ hostopen' = hostopen /\ iu_vfiles' = iu_vfiles
      BY <2>2, <2>4 DEF FopenFails
    <3> QED BY <2>1, <2>2, <3>1, CreateStep
  <2> QED BY <1>1, <2>3, <2>4
<1>2. ASSUME NEW h \in Fresh, NEW type \in {FILE, SOCKET}, NEW release \in BOOLEAN,
             EmbedderCreate(h, type, release)
      PROVE  FdInv'
  <2>1. Idle /\ Create(h, type, release) /\ phase' = phase /\ closing' = <<>>
    BY <1>2 DEF EmbedderCreate, Idle
  <2>2. PICK f : f = NewFd
    OBVIOUS
  <2>3. /\ hostopen' = IF release THEN hostopen \cup {h} ELSE hostopen
        /\ iu_vfiles' = iu_vfiles
    BY <1>2 DEF EmbedderCreate
  <2> QED BY <2>1, <2>2, <2>3, CreateStep
<1>3. ASSUME NEW fd \in Fds, Close(fd) PROVE FdInv'
  <2>1. ~InClose(fd) /\ ~IsStream(fd) /\ CloseBegin(fd, FALSE)
    BY <1>3 DEF Close
  <2>2. UNCHANGED <<iu_vfds, iu_vfd_free, iu_vfiles, given, phase>>
    BY <1>3 DEF Close
  <2>3. FALSE \in BOOLEAN /\ (FALSE <=> IsStream(fd))
    BY <2>1, Zenon
  <2> QED BY <2>1, <2>2, <2>3, BeginStep
<1>4. ASSUME NEW fd \in Fds, FdopenFails(fd) PROVE FdInv'
  <2>1. closing = <<>> /\ ~IsStream(fd) /\ CloseBegin(fd, FALSE)
    BY <1>4 DEF FdopenFails, Idle
  <2>2. ~InClose(fd)
    BY <2>1 DEF InClose
  <2>3. UNCHANGED <<iu_vfds, iu_vfd_free, iu_vfiles, given, phase>>
    BY <1>4 DEF FdopenFails
  <2>4. FALSE \in BOOLEAN /\ (FALSE <=> IsStream(fd))
    BY <2>1, Zenon
  <2> QED BY <2>1, <2>2, <2>3, <2>4, BeginStep
<1>5. ASSUME NEW fd, closing = <<>>, IsStream(fd), CloseBegin(fd, TRUE),
             UNCHANGED <<iu_vfds, iu_vfd_free, iu_vfiles, given, phase>>
      PROVE  FdInv'
  <2>1. ~InClose(fd)
    BY <1>5 DEF InClose
  <2>2. TRUE \in BOOLEAN /\ (TRUE <=> IsStream(fd))
    BY <1>5, Zenon
  <2> QED BY <1>5, <2>1, <2>2, BeginStep
<1>6. ASSUME NEW fd \in Fds, Fclose(fd) PROVE FdInv'
  BY <1>5, <1>6 DEF Fclose, Idle
<1>7. CASE TerminateClose
  <2>1. PICK fd : fd = Head(iu_vfiles)
    OBVIOUS
  <2>2. iu_vfiles \in Seq(Nat) /\ iu_vfiles # <<>>
    BY <1>7 DEF TerminateClose, FdInv, TypeOK
  <2>3. 1 \in 1..Len(iu_vfiles) /\ iu_vfiles[1] = fd
    BY <2>1, <2>2
  <2>4. IsStream(fd)
    BY <2>3 DEF IsStream
  <2> QED BY <1>5, <1>7, <2>1, <2>4 DEF TerminateClose
<1>8. ASSUME NEW fd \in Fds, Fdopen(fd) PROVE FdInv'
  BY <1>8, FdopenStep
<1>9. CASE CloseEnd
  BY <1>9, EndStep
<1>10. CASE Destroy
  BY <1>10, SameStep DEF Destroy, Idle
<1>11. CASE TerminateDone
  BY <1>11, DoneStep
<1>12. CASE UNCHANGED vars
  BY <1>12, SameStep DEF vars
<1> QED BY <1>1, <1>2, <1>3, <1>4, <1>6, <1>7, <1>8, <1>9, <1>10, <1>11, <1>12 DEF Next

(* The table, its free list, the streams and the calls under way agree. *)
THEOREM FdInvariant == Spec => []FdInv
<1> QED BY InitFd, NextFd, PTL DEF Spec

(* The free list threaded through the closed entries holds each closed     *)
(* descriptor exactly once, for tables of any size, any order of closing   *)
(* and any nesting of release callbacks that close further descriptors.    *)
THEOREM FdFreeListSound == Spec => []FreeListSound
<1>1. FdInv => FreeListSound
  BY DEF FdInv
<1> QED BY <1>1, FdInvariant, PTL

(* A descriptor in use stays open on its handle, an open host handle can   *)
(* still be released exactly once, and a stream owns its descriptor, for   *)
(* tables of any size and any number of handles.                           *)
THEOREM FdOwnership == Spec => []Ownership
<1>1. FdInv => Ownership
  BY DEF FdInv
<1> QED BY <1>1, FdInvariant, PTL
=============================================================================
