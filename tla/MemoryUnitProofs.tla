-------------------------- MODULE MemoryUnitProofs --------------------------
\* Proofs about the memory unit: what its queues and counters hold, and that the stores
\* of any program reach memory in program order, whatever the sizes. The invariant; the
\* folds over the queues; the cycle of the unit; the other steps; and what holds of the
\* whole.
EXTENDS MemoryUnit, FiniteSetTheorems, SequenceTheorems, WellFoundedInduction, TLAPS

-----------------------------------------------------------------------------
\* Types. A value holds, for each of its bytes, the store that wrote it.
Values == UNION {[B -> {None} \cup Tags] : B \in SUBSET Bytes}
Instances ==
  [addr_ready : BOOLEAN, truedep : BOOLEAN, mem_ready : BOOLEAN, memprogress : Int, vsbfwd : Int,
   limbo : Int, exception_code : {"OK", "SOFT_LIMBO"}, done : BOOLEAN,
   flag : {"OK", "SOFT_LIMBO", "SERIALIZE"}, val : Values, seen : SUBSET Tags]
Listed == 1 .. next - 1
QueueTypes ==
  /\ prog \in Programs /\ head \in 1 .. next /\ next \in 1 .. Len(prog) + 1
  /\ LoadQueue \subseteq {i \in head .. next - 1 : IsLoad(i)}
  /\ StoreQueue \subseteq {i \in Listed : IsStore(i)}
  /\ ambig_st_tags \subseteq StoreQueue
  /\ membar_tags \subseteq {i \in Listed : Membar(i)}
  /\ memory \in [Bytes -> {None} \cup Tags]
OpType(o) == o \in [Tags -> Instances]

\* The active list: what has left it was done, and an exception is seen when the
\* instruction is done. The trap that waits for the stores is the oldest instruction.
ListOK(o) ==
  /\ \A i \in 1 .. head - 1 : o[i].done
  /\ \A i \in Listed : o[i].flag = "SERIALIZE" => o[i].done
  /\ in_exception # None => in_exception = head /\ head < next /\ o[head].flag = "SERIALIZE"

\* A store is ready only when nothing older could take it back, and it leaves for the
\* cache only when it is ready; stores that overlap leave, and are performed, in order.
StoresOK(o) ==
  \A i \in Listed : IsStore(i) =>
    /\ o[i].flag = "OK" /\ o[i].memprogress \in {0, InCache, 1}
    /\ o[i].memprogress # 0 => o[i].mem_ready
    /\ i \in StoreQueue <=> o[i].memprogress # 1
    /\ o[i].mem_ready => \A j \in 1 .. i - 1 : o[j].done /\ (j >= head => o[j].flag = "OK")
    /\ \A j \in 1 .. i - 1 : IsStore(j) /\ Overlap(j, i) =>
         /\ o[i].memprogress # 0 => o[j].memprogress # 0
         /\ o[i].memprogress = 1 => o[j].memprogress = 1

\* A store that waits for its address is not ready, and one that is not ready not done.
UnreadyOK(o) ==
  /\ \A i \in ambig_st_tags : ~o[i].addr_ready /\ ~o[i].mem_ready
  /\ \A i \in StoreQueue : o[i].done => o[i].mem_ready

\* A load is queued until it is done, and is in limbo only after its answer.
LoadsOK(o) == \A i \in LoadQueue : ~o[i].done /\ (o[i].memprogress = 0 => o[i].limbo = 0)

\* The cache holds each request once, overlapping stores in program order.
CacheOK(o, d) ==
  /\ d \in Seq(Tags)
  /\ \A k \in DOMAIN d : d[k] \in LoadQueue \cup StoreQueue /\ o[d[k]].memprogress = InCache
  /\ \A k, e \in DOMAIN d : k < e =>
       d[k] # d[e] /\ (IsStore(d[k]) /\ IsStore(d[e]) /\ Overlap(d[k], d[e]) => d[k] < d[e])
  /\ \A i \in StoreQueue : o[i].memprogress = InCache => \E k \in DOMAIN d : d[k] = i

\* What a load has seen of the older stores that are known to overlap it
Saw(o, i, mark) ==
  \A j \in Older(StoreQueue, i) :
    o[j].addr_ready /\ Overlap(i, j) => j \in o[i].seen \/ (mark # 0 /\ mark <= Mark(j))
\* A load in the cache is not in limbo, and a load whose value is forwarded neither.
CacheLoadsOK(o, d) ==
  \A k \in DOMAIN d : IsLoad(d[k]) =>
    o[d[k]].limbo = 0 /\ (o[d[k]].exception_code = "OK" => Saw(o, d[k], o[d[k]].vsbfwd))
ForwardsOK(o, f) ==
  /\ f \subseteq LoadQueue
  /\ \A i \in f : o[i].limbo = 0 /\ o[i].memprogress < InCache /\ Saw(o, i, o[i].memprogress)

Unissued(o) == {i \in StoreQueue : o[i].mem_ready /\ o[i].memprogress = 0}
Counted(o, n) == n \in 0 .. MAX_STORE_BUF /\ n = Cardinality(Unissued(o))

Written(b, o, n) == {i \in 1 .. n - 1 : o[i].memprogress = 1 /\ IsStore(i) /\ b \in prog[i].bytes}
MemoryOK == \A b \in Bytes : memory[b] = MaxOf(Written(b, op, next))

\* The invariant: of the instances o, the requests d and the forwarded loads f of a
\* cycle; and of a state, in which no forward is under way.
UnitOK(o, d, n) ==
  /\ OpType(o) /\ StoresOK(o) /\ LoadsOK(o) /\ CacheOK(o, d) /\ CacheLoadsOK(o, d) /\ Counted(o, n)
IInv ==
  QueueTypes /\ ListOK(op) /\ UnitOK(op, dcache, ReadyUnissuedStores) /\ UnreadyOK(op) /\ MemoryOK
-----------------------------------------------------------------------------
\* Induction up to a number, by the smallest counterexample.
LEMMA SmallestOf ==
  ASSUME NEW S \in SUBSET Nat, S # {}
  PROVE  \E n \in S : \A m \in S : n <= m
<1> DEFINE R == {ss \in Nat \X Nat : ss[1] < ss[2]}
<1>1. IsWellFoundedOn(R, Nat)
  BY NatLessThanWellFounded DEF OpToRel
<1> HIDE DEF R
<1>2. PICK n \in S : \A m \in S : ~(<<m, n>> \in R)
  BY <1>1, WFMin
<1>3. n \in Nat /\ \A m \in S : m \in Nat
  OBVIOUS
<1>4. \A m \in S : ~(m < n)
  BY <1>2, <1>3 DEF R
<1> QED BY <1>3, <1>4

LEMMA UpTo ==
  ASSUME NEW n \in Nat, NEW A, 0 \in A, \A i \in 1 .. n : i - 1 \in A => i \in A
  PROVE  \A i \in 0 .. n : i \in A
<1> DEFINE B == {i \in 0 .. n : i \notin A}
<1> SUFFICES ASSUME B # {} PROVE FALSE
  OBVIOUS
<1>1. PICK k \in B : \A m \in B : k <= m
  <2> B \in SUBSET Nat
    OBVIOUS
  <2> HIDE DEF B
  <2> QED BY SmallestOf
<1>2. k \in 1 .. n /\ k - 1 \in 0 .. n /\ k - 1 \notin B
  BY <1>1
<1> QED BY <1>1, <1>2

\* A function that is defined by a step from each number to the next exists when the
\* steps are functions between given sets.
StepsFrom(f, d, T, n) == f = [i \in 0 .. n |-> IF i = 0 THEN d ELSE T[i][f[i - 1]]]
LEMMA StepsExist ==
  ASSUME NEW n \in Nat, NEW S, NEW d \in S[0], NEW T,
         \A i \in 1 .. n : T[i] \in [S[i - 1] -> S[i]]
  PROVE  \E f : StepsFrom(f, d, T, n) /\ \A i \in 0 .. n : f[i] \in S[i]
<1> DEFINE Good(f, k) == StepsFrom(f, d, T, k) /\ \A i \in 0 .. k : f[i] \in S[i]
           A == {k \in 0 .. n : \E f : Good(f, k)}
<1>1. 0 \in A
  <2> DEFINE g == [i \in 0 .. 0 |-> d]
  <2>1. g = [i \in 0 .. 0 |-> IF i = 0 THEN d ELSE T[i][g[i - 1]]]
    OBVIOUS
  <2>2. Good(g, 0)
    BY <2>1 DEF StepsFrom
  <2> QED BY <2>2
<1>2. ASSUME NEW k \in 1 .. n, k - 1 \in A PROVE k \in A
  <2>1. PICK f : Good(f, k - 1)
    BY <1>2
  <2> DEFINE g == [i \in 0 .. k |-> IF i = k THEN T[k][f[k - 1]] ELSE f[i]]
  <2>2. f = [i \in 0 .. k - 1 |-> IF i = 0 THEN d ELSE T[i][f[i - 1]]]
    BY <2>1 DEF StepsFrom
  <2>3. \A i \in 0 .. k - 1 : f[i] \in S[i]
    BY <2>1
  <2> \A i \in 0 .. k : g[i] = IF i = k THEN T[k][f[k - 1]] ELSE f[i]
    OBVIOUS
  <2> HIDE DEF g
  <2>4. ASSUME NEW i \in 0 .. k
        PROVE  g[i] = (IF i = 0 THEN d ELSE T[i][g[i - 1]]) /\ g[i] \in S[i]
    <3>1. CASE i = k
      <4>1. g[i] = T[k][f[k - 1]] /\ k # 0 /\ g[k - 1] = f[k - 1]
        BY <3>1
      <4>2. T[k][f[k - 1]] \in S[k]
        BY <2>3
      <4> QED BY <3>1, <4>1, <4>2
    <3>2. CASE i # k
      <4>1. i \in 0 .. k - 1 /\ g[i] = f[i]
        BY <3>2
      <4>2. f[i] = IF i = 0 THEN d ELSE T[i][f[i - 1]]
        BY <2>2, <4>1
      <4>3. i # 0 => g[i - 1] = f[i - 1]
        BY <4>1
      <4> QED BY <2>3, <4>1, <4>2, <4>3
    <3> QED BY <3>1, <3>2
  <2>5. g = [i \in 0 .. k |-> IF i = 0 THEN d ELSE T[i][g[i - 1]]]
    <3>1. g = [i \in 0 .. k |-> g[i]]
      BY DEF g
    <3> QED BY <2>4, <3>1
  <2>6. Good(g, k)
    <3> QED BY <2>4, <2>5 DEF StepsFrom
  <2> QED BY <2>6
<1> HIDE DEF Good
<1>3. \A k \in 0 .. n : k \in A
  <2> HIDE DEF A
  <2> QED BY <1>1, <1>2, UpTo
<1>4. \E f : Good(f, n)
  BY <1>3
<1> QED BY <1>4 DEF Good

-----------------------------------------------------------------------------
\* The oldest and the youngest of some instructions
LEMMA MinOfIs ==
  ASSUME NEW S \in SUBSET Nat
  PROVE  IF S = {} THEN MinOf(S) = NoMembar ELSE MinOf(S) \in S /\ \A j \in S : MinOf(S) <= j
<1>1. CASE S = {}
  BY <1>1 DEF MinOf
<1>2. CASE S # {}
  <2>1. \E n \in S : \A m \in S : n <= m
    BY <1>2, SmallestOf
  <2> QED BY <1>2, <2>1 DEF MinOf, Min
<1> QED BY <1>1, <1>2

LEMMA MaxOfIs ==
  ASSUME NEW S, NEW i \in S, S \subseteq Nat, \A j \in S : j <= i
  PROVE  MaxOf(S) = i
<1>1. MaxOf(S) \in S /\ \A j \in S : MaxOf(S) >= j
  BY DEF MaxOf, Max
<1>2. MaxOf(S) \in Nat /\ i \in Nat
  BY <1>1
<1> QED BY <1>1, <1>2

-----------------------------------------------------------------------------
\* Sequences of requests: one more at the end, one less, and those before an instruction
LEMMA Appended ==
  ASSUME NEW S, NEW d \in Seq(S), NEW i \in S
  PROVE  /\ Append(d, i) \in Seq(S) /\ Len(Append(d, i)) = Len(d) + 1
         /\ DOMAIN Append(d, i) = 1 .. Len(d) + 1 /\ DOMAIN d = 1 .. Len(d) /\ Len(d) \in Nat
         /\ Append(d, i)[Len(d) + 1] = i
         /\ \A k \in DOMAIN d : k \in DOMAIN Append(d, i) /\ Append(d, i)[k] = d[k]
OBVIOUS

LEMMA AppendedTo ==
  ASSUME NEW S, NEW d \in Seq(S), NEW e \in Seq(S), NEW i \in S
  PROVE  d \o Append(e, i) = Append(d \o e, i)
OBVIOUS

LEMMA Removed ==
  ASSUME NEW S, NEW d \in Seq(S), NEW k \in DOMAIN d
  PROVE  /\ RemoveAt(d, k) \in Seq(S) /\ DOMAIN RemoveAt(d, k) = 1 .. Len(d) - 1
         /\ DOMAIN d = 1 .. Len(d) /\ Len(d) \in Nat
         /\ \A e \in 1 .. Len(d) - 1 : RemoveAt(d, k)[e] = IF e < k THEN d[e] ELSE d[e + 1]
<1> DEFINE a == SubSeq(d, 1, k - 1)
           b == SubSeq(d, k + 1, Len(d))
<1>1. DOMAIN d = 1 .. Len(d) /\ Len(d) \in Nat /\ k \in 1 .. Len(d)
  OBVIOUS
<1>2. a \in Seq(S) /\ Len(a) = k - 1 /\ \A e \in 1 .. k - 1 : a[e] = d[e]
  BY <1>1
<1>3. b \in Seq(S) /\ Len(b) = Len(d) - k /\ \A e \in 1 .. Len(d) - k : b[e] = d[k + e]
  BY <1>1
<1>4. RemoveAt(d, k) = a \o b
  BY DEF RemoveAt
<1> HIDE DEF a, b
<1> DEFINE w == a \o b
<1>5. /\ w \in Seq(S) /\ Len(w) = Len(a) + Len(b)
      /\ \A e \in 1 .. Len(a) + Len(b) : w[e] = IF e <= Len(a) THEN a[e] ELSE b[e - Len(a)]
  BY <1>2, <1>3, ConcatProperties
<1>6. RemoveAt(d, k) = w
  BY <1>4
<1> HIDE DEF w
<1>7. Len(w) = Len(d) - 1 /\ DOMAIN w = 1 .. Len(d) - 1
  BY <1>1, <1>2, <1>3, <1>5
<1>8. ASSUME NEW e \in 1 .. Len(d) - 1 PROVE w[e] = IF e < k THEN d[e] ELSE d[e + 1]
  <2>1. e \in 1 .. Len(a) + Len(b)
    BY <1>5, <1>7
  <2>2. e \in Nat /\ (e <= Len(a) <=> e < k) /\ Len(a) = k - 1
    BY <1>1, <1>2
  <2>3. CASE e < k
    <3>1. e \in 1 .. k - 1
      BY <1>1, <2>2, <2>3
    <3> QED BY <1>2, <1>5, <2>1, <2>2, <2>3, <3>1
  <2>4. CASE ~(e < k)
    <3>1. e - (k - 1) \in 1 .. Len(d) - k /\ k + (e - (k - 1)) = e + 1
      BY <1>1, <2>2, <2>4
    <3>2. w[e] = b[e - (k - 1)]
      BY <1>5, <2>1, <2>2, <2>4
    <3>3. b[e - (k - 1)] = d[e + 1]
      BY <1>3, <3>1
    <3> QED BY <2>4, <3>2, <3>3
  <2> QED BY <2>3, <2>4
<1> QED BY <1>1, <1>5, <1>6, <1>7, <1>8

\* What RequestsBefore keeps of d
Keeps(r, d, n, i) ==
  /\ \A k \in DOMAIN r : \E e \in 1 .. n : r[k] = d[e] /\ d[e] < i
  /\ \A k, m \in DOMAIN r : k < m => \E e, g \in 1 .. n : e < g /\ r[k] = d[e] /\ r[m] = d[g]
  /\ \A e \in 1 .. n : d[e] < i => \E k \in DOMAIN r : r[k] = d[e]
LEMMA KeepsMore ==
  ASSUME NEW S, NEW d \in Seq(S), NEW r \in Seq(S), NEW n \in 1 .. Len(d), NEW i, Keeps(r, d, n - 1, i)
  PROVE  Keeps(IF d[n] < i THEN Append(r, d[n]) ELSE r, d, n, i)
<1>1. d[n] \in S /\ n \in Nat /\ \A e \in 1 .. n - 1 : e \in 1 .. n /\ e < n
  OBVIOUS
<1>2. \A e \in 1 .. n : e = n \/ e \in 1 .. n - 1
  OBVIOUS
<1>3. CASE d[n] < i
  <2> DEFINE q == Append(r, d[n])
  <2>1. /\ DOMAIN q = 1 .. Len(r) + 1 /\ DOMAIN r = 1 .. Len(r) /\ Len(r) \in Nat
        /\ q[Len(r) + 1] = d[n] /\ \A k \in DOMAIN r : k \in DOMAIN q /\ q[k] = r[k]
    BY <1>1, Appended
  <2> HIDE DEF q
  <2>2. \A k \in DOMAIN q : k = Len(r) + 1 \/ k \in DOMAIN r
    BY <2>1
  <2>3. \A k \in DOMAIN q : \E e \in 1 .. n : q[k] = d[e] /\ d[e] < i
    BY <1>1, <1>3, <2>1, <2>2 DEF Keeps
  <2>4. ASSUME NEW k \in DOMAIN q, NEW m \in DOMAIN q, k < m
        PROVE  \E e, g \in 1 .. n : e < g /\ q[k] = d[e] /\ q[m] = d[g]
    <3>1. k \in DOMAIN r /\ q[k] = r[k]
      BY <2>1, <2>2, <2>4
    <3>2. CASE m = Len(r) + 1
      <4>1. PICK e \in 1 .. n - 1 : r[k] = d[e]
        BY <3>1 DEF Keeps
      <4> QED BY <1>1, <2>1, <3>1, <3>2, <4>1
    <3>3. CASE m \in DOMAIN r
      <4>1. PICK e \in 1 .. n - 1, g \in 1 .. n - 1 : e < g /\ r[k] = d[e] /\ r[m] = d[g]
        BY <2>4, <3>1, <3>3 DEF Keeps
      <4> QED BY <1>1, <2>1, <3>1, <3>3, <4>1
    <3> QED BY <2>2, <3>2, <3>3
  <2>5. \A e \in 1 .. n : d[e] < i => \E k \in DOMAIN q : q[k] = d[e]
    <3>1. Len(r) + 1 \in DOMAIN q
      BY <2>1
    <3> QED BY <1>2, <2>1, <3>1 DEF Keeps
  <2>6. Keeps(q, d, n, i)
    BY <2>3, <2>4, <2>5 DEF Keeps
  <2> QED BY <1>3, <2>6 DEF q
<1>4. CASE ~(d[n] < i)
  <2>1. Keeps(r, d, n, i)
    BY <1>1, <1>2, <1>4 DEF Keeps
  <2> QED BY <1>4, <2>1
<1> QED BY <1>3, <1>4

LEMMA RequestsBeforeKeeps ==
  ASSUME NEW S, NEW d \in Seq(S), NEW i
  PROVE  RequestsBefore(d, i) \in Seq(S) /\ Keeps(RequestsBefore(d, i), d, Len(d), i)
<1> DEFINE n == Len(d)
           Kept == [k \in 0 .. n |-> {r \in Seq(S) : Keeps(r, d, k, i)}]
           T == [k \in 1 .. n |-> [r \in Kept[k - 1] |-> IF d[k] < i THEN Append(r, d[k]) ELSE r]]
           F(f) == f = [k \in 0 .. n |->
                          IF k = 0 THEN <<>> ELSE IF d[k] < i THEN Append(f[k - 1], d[k]) ELSE f[k - 1]]
<1>1. n \in Nat /\ \A k \in 1 .. n : d[k] \in S
  OBVIOUS
<1>2. <<>> \in Kept[0]
  BY DEF Keeps
<1>3. ASSUME NEW k \in 1 .. n, NEW r \in Kept[k - 1]
      PROVE  (IF d[k] < i THEN Append(r, d[k]) ELSE r) \in Kept[k]
  <2>1. r \in Seq(S) /\ Keeps(r, d, k - 1, i)
    OBVIOUS
  <2>2. Keeps(IF d[k] < i THEN Append(r, d[k]) ELSE r, d, k, i)
    BY <2>1, KeepsMore
  <2>3. (IF d[k] < i THEN Append(r, d[k]) ELSE r) \in Seq(S)
    BY <1>1, <2>1
  <2>4. Kept[k] = {q \in Seq(S) : Keeps(q, d, k, i)}
    BY <1>1
  <2> HIDE DEF Kept
  <2> QED BY <2>2, <2>3, <2>4
<1>4. ASSUME NEW k \in 1 .. n PROVE T[k] \in [Kept[k - 1] -> Kept[k]]
  <2>1. T[k] = [r \in Kept[k - 1] |-> IF d[k] < i THEN Append(r, d[k]) ELSE r]
    OBVIOUS
  <2> HIDE DEF T, Kept
  <2> QED BY <1>3, <2>1
<1>5. \E f : F(f)
  <2>1. PICK f : StepsFrom(f, <<>>, T, n) /\ \A k \in 0 .. n : f[k] \in Kept[k]
    <3> HIDE DEF T, Kept
    <3> QED BY <1>1, <1>2, <1>4, StepsExist
  <2>2. f = [k \in 0 .. n |-> IF k = 0 THEN <<>> ELSE T[k][f[k - 1]]]
    BY <2>1 DEF StepsFrom
  <2>3. \A k \in 1 .. n : T[k][f[k - 1]] = IF d[k] < i THEN Append(f[k - 1], d[k]) ELSE f[k - 1]
    <3> TAKE k \in 1 .. n
    <3>1. f[k - 1] \in Kept[k - 1]
      BY <1>1, <2>1
    <3>2. T[k] = [r \in Kept[k - 1] |-> IF d[k] < i THEN Append(r, d[k]) ELSE r]
      OBVIOUS
    <3> HIDE DEF Kept, T
    <3> QED BY <3>1, <3>2
  <2> HIDE DEF T, Kept
  <2>4. F(f)
    BY <1>1, <2>2, <2>3
  <2> QED BY <2>4
<1>6. PICK f : F(f) /\ RequestsBefore(d, i) = f[n]
  BY <1>5 DEF RequestsBefore
<1>7. \A k \in 0 .. n : f[k] \in Kept[k]
  <2> DEFINE A == {k \in 0 .. n : f[k] \in Kept[k]}
  <2>1. 0 \in A
    BY <1>1, <1>2, <1>6
  <2>2. ASSUME NEW k \in 1 .. n, k - 1 \in A PROVE k \in A
    <3>1. f[k] = IF d[k] < i THEN Append(f[k - 1], d[k]) ELSE f[k - 1]
      <4>1. k \in 0 .. n /\ k # 0
        BY <1>1
      <4> HIDE DEF Kept, T, A, n
      <4> QED BY <1>6, <4>1
    <3>2. f[k - 1] \in Kept[k - 1] /\ k \in 0 .. n
      BY <1>1, <2>2
    <3>3. f[k] \in Kept[k]
      <4> HIDE DEF Kept
      <4> QED BY <1>3, <3>1, <3>2
    <3> QED BY <3>2, <3>3
  <2> HIDE DEF A
  <2>3. \A k \in 0 .. n : k \in A
    BY <1>1, <2>1, <2>2, UpTo
  <2> QED BY <2>3 DEF A
<1> QED BY <1>1, <1>6, <1>7

-----------------------------------------------------------------------------
\* Places in the program
LEMMA Places ==
  ASSUME QueueTypes
  PROVE  /\ prog \in Seq([k : {"ld", "st", "rmw", "mb", "br", "trap"}, bytes : SUBSET Bytes,
                          order : SUBSET {"SS", "LS", "SL", "LL", "MEMISSUE"}])
         /\ Len(prog) \in Nat /\ Tags = 1 .. Len(prog) /\ head \in Nat /\ next \in Nat
         /\ Listed \subseteq Tags /\ LoadQueue \subseteq Listed /\ StoreQueue \subseteq Listed
         /\ \A i \in LoadQueue : IsLoad(i) /\ ~IsStore(i) /\ i >= head
         /\ \A i \in StoreQueue : IsStore(i) /\ ~IsLoad(i)
<1>1. prog \in Seq([k : {"ld", "st", "rmw", "mb", "br", "trap"}, bytes : SUBSET Bytes,
                    order : SUBSET {"SS", "LS", "SL", "LL", "MEMISSUE"}])
  BY MemoryUnitAssumption DEF QueueTypes
<1>2. Len(prog) \in Nat /\ Tags = 1 .. Len(prog)
  BY <1>1 DEF Tags
<1>3. head \in Nat /\ next \in Nat /\ Listed \subseteq Tags
  BY <1>2 DEF QueueTypes, Listed
<1>4. LoadQueue \subseteq Listed /\ StoreQueue \subseteq Listed
  BY <1>2, <1>3 DEF QueueTypes, Listed
<1>5. /\ \A i \in LoadQueue : IsLoad(i) /\ ~IsStore(i) /\ i >= head
      /\ \A i \in StoreQueue : IsStore(i) /\ ~IsLoad(i)
  BY <1>3 DEF QueueTypes, IsStore, IsLoad
<1> QED BY <1>1, <1>2, <1>3, <1>4, <1>5

LEMMA BytesOf ==
  ASSUME QueueTypes, NEW i \in Tags
  PROVE  prog[i].bytes \in SUBSET Bytes
<1> DEFINE I == [k : {"ld", "st", "rmw", "mb", "br", "trap"}, bytes : SUBSET Bytes,
                 order : SUBSET {"SS", "LS", "SL", "LL", "MEMISSUE"}]
<1>1. prog \in Seq(I) /\ i \in 1 .. Len(prog)
  BY Places
<1>2. \A x \in I : x.bytes \in SUBSET Bytes
  OBVIOUS
<1> HIDE DEF I
<1>3. prog[i] \in I
  BY <1>1
<1> QED BY <1>2, <1>3

\* Only the instance of i has changed.
Changed(o, o2, i) == OpType(o2) /\ \A j \in Tags \ {i} : o2[j] = o[j]
\* It is of the same store, or load, otherwise.
SameOtherwise(x, y) ==
  /\ y.addr_ready = x.addr_ready /\ y.mem_ready = x.mem_ready /\ y.done = x.done
  /\ y.flag = x.flag /\ y.limbo = x.limbo /\ y.exception_code = x.exception_code

\* The store i leaves for the cache: the counter of the ready stores goes down.
LEMMA UnissuedLess ==
  ASSUME QueueTypes, NEW o, NEW n, Counted(o, n), NEW o2, NEW i \in StoreQueue, Changed(o, o2, i),
         o[i].mem_ready, o[i].memprogress = 0, o2[i].memprogress = InCache
  PROVE  Counted(o2, n - 1)
<1>1. i \in Unissued(o) /\ Unissued(o2) = Unissued(o) \ {i}
  <2>1. i \in Unissued(o) /\ i \notin Unissued(o2)
    BY DEF Unissued, InCache
  <2>2. \A j \in StoreQueue : j # i => o2[j] = o[j]
    BY Places DEF Changed
  <2>3. \A j \in Unissued(o2) : j \in Unissued(o) \ {i}
    BY <2>1, <2>2 DEF Unissued
  <2>4. \A j \in Unissued(o) \ {i} : j \in Unissued(o2)
    BY <2>2 DEF Unissued
  <2> QED BY <2>1, <2>3, <2>4
<1>2. IsFiniteSet(Unissued(o))
  <2>1. Unissued(o) \subseteq 1 .. Len(prog) /\ Len(prog) \in Nat
    BY Places DEF Unissued
  <2>2. IsFiniteSet(1 .. Len(prog))
    BY <2>1, FS_Interval
  <2> QED BY <2>1, <2>2, FS_Subset
<1>3. Cardinality(Unissued(o2)) = Cardinality(Unissued(o)) - 1 /\ Cardinality(Unissued(o2)) \in Nat
  <2>1. IsFiniteSet(Unissued(o2))
    BY <1>1, <1>2, FS_RemoveElement
  <2> QED BY <1>1, <1>2, <2>1, FS_RemoveElement, FS_CardinalityType
<1> QED BY <1>3, MemoryUnitAssumption DEF Counted

LEMMA StoreSent ==
  ASSUME QueueTypes, NEW o, NEW d, NEW n, UnitOK(o, d, n), NEW o2, NEW i \in StoreQueue,
         o[i].mem_ready, o[i].memprogress = 0,
         \A j \in Older(StoreQueue, i) : Overlap(i, j) => o[j].memprogress # 0,
         Changed(o, o2, i), SameOtherwise(o[i], o2[i]), o2[i].memprogress = InCache
  PROVE  UnitOK(o2, Append(d, i), n - 1)
<1> DEFINE e == Append(d, i)
<1>1. /\ Tags = 1 .. Len(prog) /\ Len(prog) \in Nat /\ Listed \subseteq Tags
      /\ StoreQueue \subseteq Listed /\ LoadQueue \subseteq Listed
      /\ IsStore(i) /\ ~IsLoad(i) /\ \A j \in LoadQueue : j # i
  BY Places
<1>2. OpType(o2) /\ OpType(o) /\ i \in Tags
  BY <1>1 DEF UnitOK, Changed
<1>3. ASSUME NEW j \in Tags
      PROVE  /\ o2[j].addr_ready = o[j].addr_ready /\ o2[j].mem_ready = o[j].mem_ready
             /\ o2[j].done = o[j].done /\ o2[j].flag = o[j].flag
             /\ o2[j].memprogress = (IF j = i THEN InCache ELSE o[j].memprogress)
  BY DEF Changed, SameOtherwise
<1>4. StoresOK(o2)
  <2> SUFFICES ASSUME NEW j \in Listed, IsStore(j)
               PROVE  /\ o2[j].flag = "OK" /\ o2[j].memprogress \in {0, InCache, 1}
                      /\ o2[j].memprogress # 0 => o2[j].mem_ready
                      /\ j \in StoreQueue <=> o2[j].memprogress # 1
                      /\ o2[j].mem_ready =>
                           \A h \in 1 .. j - 1 : o2[h].done /\ (h >= head => o2[h].flag = "OK")
                      /\ \A h \in 1 .. j - 1 : IsStore(h) /\ Overlap(h, j) =>
                           /\ o2[j].memprogress # 0 => o2[h].memprogress # 0
                           /\ o2[j].memprogress = 1 => o2[h].memprogress = 1
    BY DEF StoresOK
  <2>1. j \in Nat /\ i \in Nat /\ \A h \in 1 .. j - 1 : h \in Listed /\ h \in Tags /\ h < j
    <3>1. next \in Nat /\ j \in 1 .. next - 1
      BY Places DEF Listed
    <3>2. j \in Nat /\ i \in Nat /\ \A h \in 1 .. j - 1 : h \in Listed /\ h < j
      BY <1>1, <3>1 DEF Listed
    <3> QED BY <1>1, <3>2
  <2>2. /\ o[j].flag = "OK" /\ o[j].memprogress \in {0, InCache, 1}
        /\ o[j].memprogress # 0 => o[j].mem_ready
        /\ j \in StoreQueue <=> o[j].memprogress # 1
        /\ o[j].mem_ready => \A h \in 1 .. j - 1 : o[h].done /\ (h >= head => o[h].flag = "OK")
        /\ \A h \in 1 .. j - 1 : IsStore(h) /\ Overlap(h, j) =>
             /\ o[j].memprogress # 0 => o[h].memprogress # 0
             /\ o[j].memprogress = 1 => o[h].memprogress = 1
    BY DEF UnitOK, StoresOK
  <2>3. /\ o2[j].flag = "OK" /\ o2[j].memprogress \in {0, InCache, 1}
        /\ o2[j].memprogress # 0 => o2[j].mem_ready
        /\ j \in StoreQueue <=> o2[j].memprogress # 1
    BY <1>1, <1>3, <2>2 DEF InCache
  <2>4. o2[j].mem_ready => \A h \in 1 .. j - 1 : o2[h].done /\ (h >= head => o2[h].flag = "OK")
    BY <1>1, <1>3, <2>1, <2>2
  <2>5. ASSUME NEW h \in 1 .. j - 1, IsStore(h), Overlap(h, j)
        PROVE  /\ o2[j].memprogress # 0 => o2[h].memprogress # 0
               /\ o2[j].memprogress = 1 => o2[h].memprogress = 1
    <3>1. CASE j = i
      <4>1. h \in StoreQueue => h \in Older(StoreQueue, i) /\ Overlap(i, h)
        BY <2>1, <2>5, <3>1 DEF Older, Overlap
      <4>2. h \notin StoreQueue => o[h].memprogress = 1
        BY <2>1, <2>5 DEF UnitOK, StoresOK
      <4>3. o[h].memprogress # 0 /\ h # i
        BY <2>1, <3>1, <4>1, <4>2
      <4> QED BY <1>1, <1>3, <2>1, <3>1, <4>3 DEF InCache
    <3>2. CASE j # i
      <4>1. o2[j].memprogress = o[j].memprogress
        BY <1>1, <1>3, <3>2
      <4>2. o[i].memprogress # 1 /\ o2[i].memprogress # 0
        BY DEF InCache
      <4>3. o2[h].memprogress = (IF h = i THEN InCache ELSE o[h].memprogress)
        BY <1>3, <2>1
      <4> QED BY <2>2, <2>5, <4>1, <4>2, <4>3
    <3> QED BY <3>1, <3>2
  <2> QED BY <2>3, <2>4, <2>5
<1>5. LoadsOK(o2)
  BY <1>1 DEF UnitOK, LoadsOK, Changed
<1>6. /\ d \in Seq(Tags) /\ e \in Seq(Tags) /\ DOMAIN e = 1 .. Len(d) + 1 /\ DOMAIN d = 1 .. Len(d)
      /\ Len(d) \in Nat /\ e[Len(d) + 1] = i /\ \A k \in DOMAIN d : k \in DOMAIN e /\ e[k] = d[k]
  <2>1. d \in Seq(Tags)
    BY DEF UnitOK, CacheOK
  <2> QED BY <1>2, <2>1, Appended
<1>7. \A k \in DOMAIN d : d[k] \in Tags /\ d[k] \in LoadQueue \cup StoreQueue
                          /\ o[d[k]].memprogress = InCache /\ d[k] # i
  BY <1>1 DEF UnitOK, CacheOK, InCache
<1> HIDE DEF e
<1>8. \A k \in DOMAIN e : k \in DOMAIN d \/ k = Len(d) + 1
  BY <1>6
<1>9. CacheOK(o2, e)
  <2>1. \A k \in DOMAIN e : e[k] \in LoadQueue \cup StoreQueue /\ o2[e[k]].memprogress = InCache
    BY <1>3, <1>6, <1>7, <1>8
  <2>2. ASSUME NEW k \in DOMAIN e, NEW m \in DOMAIN e, k < m
        PROVE  /\ e[k] # e[m]
               /\ IsStore(e[k]) /\ IsStore(e[m]) /\ Overlap(e[k], e[m]) => e[k] < e[m]
    <3>1. k \in DOMAIN d /\ e[k] = d[k]
      BY <1>6, <1>8, <2>2
    <3>2. CASE m \in DOMAIN d
      BY <1>6, <2>2, <3>1, <3>2 DEF UnitOK, CacheOK
    <3>3. CASE m = Len(d) + 1
      <4>1. e[m] = i /\ d[k] # i
        BY <1>6, <1>7, <3>1, <3>3
      <4>2. ASSUME IsStore(d[k]), Overlap(d[k], i), ~(d[k] < i) PROVE FALSE
        <5>1. d[k] \in Listed /\ d[k] \in Nat /\ i \in Nat /\ i \in 1 .. d[k] - 1
          BY <1>1, <1>2, <1>7, <3>1, <4>1, <4>2
        <5>2. Overlap(i, d[k])
          BY <4>2 DEF Overlap
        <5> QED BY <1>1, <1>7, <3>1, <4>2, <5>1, <5>2 DEF UnitOK, StoresOK, InCache
      <4> QED BY <3>1, <4>1, <4>2
    <3> QED BY <1>8, <3>2, <3>3
  <2>3. ASSUME NEW j \in StoreQueue, o2[j].memprogress = InCache
        PROVE  \E k \in DOMAIN e : e[k] = j
    <3>1. CASE j = i
      <4>1. Len(d) + 1 \in DOMAIN e
        BY <1>6
      <4> QED BY <1>6, <3>1, <4>1
    <3>2. CASE j # i
      <4>1. o[j].memprogress = InCache
        BY <1>1, <1>3, <2>3, <3>2
      <4>2. PICK k \in DOMAIN d : d[k] = j
        BY <4>1 DEF UnitOK, CacheOK
      <4> QED BY <1>6, <4>2
    <3> QED BY <3>1, <3>2
  <2> QED BY <1>6, <2>1, <2>2, <2>3 DEF CacheOK
<1>10. CacheLoadsOK(o2, e)
  <2> SUFFICES ASSUME NEW k \in DOMAIN e, IsLoad(e[k])
               PROVE  /\ o2[e[k]].limbo = 0
                      /\ o2[e[k]].exception_code = "OK" => Saw(o2, e[k], o2[e[k]].vsbfwd)
    BY DEF CacheLoadsOK
  <2>1. k \in DOMAIN d /\ e[k] = d[k] /\ d[k] \in Tags /\ o2[d[k]] = o[d[k]]
    BY <1>1, <1>6, <1>7, <1>8 DEF Changed
  <2>2. o[d[k]].limbo = 0 /\ (o[d[k]].exception_code = "OK" => Saw(o, d[k], o[d[k]].vsbfwd))
    BY <2>1 DEF UnitOK, CacheLoadsOK
  <2>3. ASSUME Saw(o, d[k], o[d[k]].vsbfwd) PROVE Saw(o2, d[k], o[d[k]].vsbfwd)
    BY <1>1, <1>3, <2>1, <2>3 DEF Saw, Older
  <2> QED BY <2>1, <2>2, <2>3
<1>11. Counted(o2, n - 1)
  BY UnissuedLess DEF UnitOK
<1> QED BY <1>2, <1>4, <1>5, <1>9, <1>10, <1>11 DEF UnitOK, e

\* A load that waits is issued, to the cache or by a forward.
LEMMA LoadIssued ==
  ASSUME QueueTypes, NEW o, NEW d, NEW n, UnitOK(o, d, n), NEW o2, NEW i \in LoadQueue,
         o[i].memprogress = 0, Changed(o, o2, i), SameOtherwise(o[i], o2[i]), o2[i].memprogress # 0
  PROVE  UnitOK(o2, d, n)
<1>1. /\ Listed \subseteq Tags /\ StoreQueue \subseteq Listed /\ LoadQueue \subseteq Listed
      /\ ~IsStore(i) /\ (\A j \in StoreQueue : j # i) /\ OpType(o2) /\ i \in Tags
  BY Places DEF Changed
<1>2. ASSUME NEW j \in Tags
      PROVE  /\ o2[j].addr_ready = o[j].addr_ready /\ o2[j].mem_ready = o[j].mem_ready
             /\ o2[j].done = o[j].done /\ o2[j].flag = o[j].flag /\ o2[j].limbo = o[j].limbo
             /\ j # i => o2[j] = o[j]
  BY DEF Changed, SameOtherwise
<1>3. StoresOK(o2)
  <2> SUFFICES ASSUME NEW j \in Listed, IsStore(j)
               PROVE  /\ o2[j].flag = "OK" /\ o2[j].memprogress \in {0, InCache, 1}
                      /\ o2[j].memprogress # 0 => o2[j].mem_ready
                      /\ j \in StoreQueue <=> o2[j].memprogress # 1
                      /\ o2[j].mem_ready =>
                           \A h \in 1 .. j - 1 : o2[h].done /\ (h >= head => o2[h].flag = "OK")
                      /\ \A h \in 1 .. j - 1 : IsStore(h) /\ Overlap(h, j) =>
                           /\ o2[j].memprogress # 0 => o2[h].memprogress # 0
                           /\ o2[j].memprogress = 1 => o2[h].memprogress = 1
    BY DEF StoresOK
  <2>1. j # i /\ o2[j] = o[j] /\ j \in Tags
    BY <1>1, <1>2
  <2>2. ASSUME NEW h \in 1 .. j - 1
        PROVE  o2[h].done = o[h].done /\ o2[h].flag = o[h].flag /\ (IsStore(h) => o2[h] = o[h])
    <3>1. h \in Tags
      BY Places DEF Listed
    <3> QED BY <1>1, <1>2, <3>1
  <2> QED BY <2>1, <2>2 DEF UnitOK, StoresOK
<1>4. LoadsOK(o2)
  BY <1>1, <1>2 DEF UnitOK, LoadsOK
<1>5. \A k \in DOMAIN d : d[k] # i /\ d[k] \in Tags /\ o2[d[k]] = o[d[k]]
  BY <1>1, <1>2 DEF UnitOK, CacheOK, InCache
<1>6. CacheOK(o2, d)
  BY <1>1, <1>2, <1>5 DEF UnitOK, CacheOK
<1>7. CacheLoadsOK(o2, d)
  <2>1. ASSUME NEW k \in DOMAIN d, Saw(o, d[k], o[d[k]].vsbfwd) PROVE Saw(o2, d[k], o[d[k]].vsbfwd)
    BY <1>1, <1>2, <1>5, <2>1 DEF Saw, Older
  <2> QED BY <1>5, <2>1 DEF UnitOK, CacheLoadsOK
<1>8. Unissued(o2) = Unissued(o)
  BY <1>1, <1>2 DEF Unissued
<1> QED BY <1>1, <1>3, <1>4, <1>6, <1>7, <1>8 DEF UnitOK, Counted

LEMMA LoadJoins ==
  ASSUME QueueTypes, NEW o, NEW d, NEW n, UnitOK(o, d, n), NEW i \in LoadQueue,
         \A k \in DOMAIN d : d[k] # i, o[i].memprogress = InCache, o[i].limbo = 0,
         Saw(o, i, o[i].vsbfwd)
  PROVE  UnitOK(o, Append(d, i), n)
<1> DEFINE e == Append(d, i)
<1>1. i \in Tags /\ ~IsStore(i)
  BY Places
<1>2. /\ d \in Seq(Tags) /\ e \in Seq(Tags) /\ DOMAIN e = 1 .. Len(d) + 1 /\ DOMAIN d = 1 .. Len(d)
      /\ Len(d) \in Nat /\ e[Len(d) + 1] = i /\ \A k \in DOMAIN d : k \in DOMAIN e /\ e[k] = d[k]
  <2>1. d \in Seq(Tags)
    BY DEF UnitOK, CacheOK
  <2> QED BY <1>1, <2>1, Appended
<1> HIDE DEF e
<1>3. \A k \in DOMAIN e : k \in DOMAIN d \/ k = Len(d) + 1
  BY <1>2
<1>4. CacheOK(o, e)
  <2>1. \A k \in DOMAIN e : e[k] \in LoadQueue \cup StoreQueue /\ o[e[k]].memprogress = InCache
    BY <1>2, <1>3 DEF UnitOK, CacheOK
  <2>2. ASSUME NEW k \in DOMAIN e, NEW m \in DOMAIN e, k < m
        PROVE  /\ e[k] # e[m]
               /\ IsStore(e[k]) /\ IsStore(e[m]) /\ Overlap(e[k], e[m]) => e[k] < e[m]
    <3>1. k \in DOMAIN d /\ e[k] = d[k]
      BY <1>2, <1>3, <2>2
    <3>2. CASE m \in DOMAIN d
      BY <1>2, <2>2, <3>1, <3>2 DEF UnitOK, CacheOK
    <3>3. CASE m = Len(d) + 1
      BY <1>1, <1>2, <3>1, <3>3
    <3> QED BY <1>3, <3>2, <3>3
  <2>3. \A j \in StoreQueue : o[j].memprogress = InCache => \E k \in DOMAIN e : e[k] = j
    BY <1>2 DEF UnitOK, CacheOK
  <2> QED BY <1>2, <2>1, <2>2, <2>3 DEF CacheOK
<1>5. CacheLoadsOK(o, e)
  BY <1>2, <1>3 DEF UnitOK, CacheLoadsOK
<1> QED BY <1>4, <1>5 DEF UnitOK, e

\* The forwards under way are not disturbed by an instruction that is issued.
LEMMA ForwardsStay ==
  ASSUME QueueTypes, NEW o, NEW f, ForwardsOK(o, f), NEW o2, NEW i \in Tags,
         o[i].memprogress = 0, Changed(o, o2, i), SameOtherwise(o[i], o2[i])
  PROVE  ForwardsOK(o2, f)
<1>1. \A j \in f : j \in Tags /\ j # i /\ o2[j] = o[j]
  BY Places DEF ForwardsOK, Changed, InCache
<1>2. \A j \in StoreQueue : o2[j].addr_ready = o[j].addr_ready
  BY Places DEF Changed, SameOtherwise
<1>3. ASSUME NEW j \in f, Saw(o, j, o[j].memprogress) PROVE Saw(o2, j, o2[j].memprogress)
  BY <1>1, <1>2, <1>3 DEF Saw, Older
<1> QED BY <1>1, <1>3 DEF ForwardsOK

-----------------------------------------------------------------------------
\* The cycle of the unit: the state of the folds over the queues. What they issue is
\* released by the barriers that are left.
Cycles == [op : [Tags -> Instances], room : Int, sent : Seq(Tags), count : Int, fwds : SUBSET Tags,
           full : BOOLEAN]
Released(mbs, j) ==
  /\ j <= MembarTag(mbs, "MEMISSUE")
  /\ IsStore(j) => ~StoreBlocked(mbs, j)
  /\ IsLoad(j) => \/ ~LoadBlocked(mbs, j)
                  \/ \E st \in Older(StoreQueue, j) : MemMatch(j, st) /\ ~ForwardBlocked(mbs, j, st)
CycleOK(mbs, s) ==
  /\ s \in Cycles
  /\ UnitOK(s.op, dcache \o s.sent, s.count) /\ ForwardsOK(s.op, s.fwds)
  /\ \A j \in Tags : /\ s.op[j].done = op[j].done /\ s.op[j].flag = op[j].flag
                     /\ s.op[j].addr_ready = op[j].addr_ready /\ s.op[j].mem_ready = op[j].mem_ready
                     /\ s.op[j].memprogress = 1 <=> op[j].memprogress = 1
                     /\ s.op[j].memprogress = op[j].memprogress
                        \/ (op[j].memprogress = 0 /\ j \in LoadQueue \cup StoreQueue /\ Released(mbs, j))

LEMMA IssueStoreOK ==
  ASSUME QueueTypes, dcache \in Seq(Tags), NEW mbs, NEW s, CycleOK(mbs, s), NEW i \in StoreQueue
  PROVE  CycleOK(mbs, IssueStore(mbs, s, i))
<1> DEFINE t == IssueStore(mbs, s, i)
           X == {j \in StoreQueue : s.op[j].memprogress # 0}
           Issues == /\ s.op[i].mem_ready /\ s.op[i].memprogress = 0 /\ i <= MembarTag(mbs, "MEMISSUE")
                     /\ ~MustFollow(s, i) /\ ~StoreBlocked(mbs, i) /\ s.room > 0
<1>1. CASE ~Issues
  <2>1. t = s
    BY <1>1 DEF IssueStore
  <2> QED BY <2>1
<1>2. CASE Issues
  <2>1. i \in Tags /\ IsStore(i) /\ ~IsLoad(i) /\ StoreQueue \subseteq Tags /\ X \in SUBSET Tags
    BY Places
  <2>2. s \in Cycles
    BY DEF CycleOK
  <2> DEFINE u == SendToCache(s, i)
             y == [s.op[i] EXCEPT !.memprogress = InCache, !.seen = X]
  <2>3. t = [u EXCEPT !.count = @ - 1]
    BY <1>2 DEF IssueStore, CountIssued
  <2>14. u = SendToCache(s, i) /\ y = [s.op[i] EXCEPT !.memprogress = InCache, !.seen = X]
    OBVIOUS
  <2>15. X = {j \in StoreQueue : s.op[j].memprogress # 0}
    OBVIOUS
  <2> HIDE DEF u, t, X, y
  <2>4. /\ u.op = [s.op EXCEPT ![i] = y] /\ u.room = s.room - 1 /\ u.sent = Append(s.sent, i)
        /\ u.count = s.count /\ u.fwds = s.fwds /\ u.full = s.full
        /\ u = [op |-> u.op, room |-> u.room, sent |-> u.sent, count |-> u.count, fwds |-> u.fwds,
                full |-> u.full]
    BY <2>1, <2>2, <2>14, <2>15 DEF Cycles, SendToCache
  <2>5. /\ s.op \in [Tags -> Instances] /\ s.room \in Int /\ s.sent \in Seq(Tags) /\ s.count \in Int
        /\ s.fwds \in SUBSET Tags /\ s.full \in BOOLEAN
    BY <2>2 DEF Cycles
  <2>6. y \in Instances /\ SameOtherwise(s.op[i], y) /\ y.memprogress = InCache
    <3>1. s.op[i] \in Instances /\ InCache \in Int
      BY <2>1, <2>5 DEF InCache
    <3> QED BY <2>1, <2>14, <3>1 DEF Instances, SameOtherwise
  <2>13. /\ t.op = [s.op EXCEPT ![i] = y] /\ t.room = s.room - 1 /\ t.sent = Append(s.sent, i)
         /\ t.count = s.count - 1 /\ t.fwds = s.fwds /\ t.full = s.full
         /\ t = [op |-> t.op, room |-> t.room, sent |-> t.sent, count |-> t.count, fwds |-> t.fwds,
                 full |-> t.full]
    BY <2>3, <2>4
  <2>7. Changed(s.op, t.op, i) /\ SameOtherwise(s.op[i], t.op[i]) /\ t.op[i].memprogress = InCache
    BY <2>1, <2>5, <2>6, <2>13 DEF Changed, OpType
  <2>8. t \in Cycles
    <3>1. t.op \in [Tags -> Instances] /\ t.sent \in Seq(Tags) /\ t.room \in Int /\ t.count \in Int
      BY <2>1, <2>5, <2>7, <2>13 DEF Changed, OpType
    <3> QED BY <2>5, <2>13, <3>1 DEF Cycles
  <2>9. UnitOK(t.op, dcache \o t.sent, t.count)
    <3>1. dcache \o t.sent = Append(dcache \o s.sent, i)
      BY <2>1, <2>5, <2>13, AppendedTo
    <3>2. \A j \in Older(StoreQueue, i) : Overlap(i, j) => s.op[j].memprogress # 0
      BY <1>2 DEF MustFollow
    <3>3. UnitOK(s.op, dcache \o s.sent, s.count) /\ s.op[i].mem_ready /\ s.op[i].memprogress = 0
      BY <1>2 DEF CycleOK
    <3>4. UnitOK(t.op, Append(dcache \o s.sent, i), s.count - 1)
      BY <2>7, <3>2, <3>3, StoreSent
    <3> QED BY <2>13, <3>1, <3>4
  <2>10. ForwardsOK(t.op, t.fwds)
    BY <1>2, <2>1, <2>7, <2>13, ForwardsStay DEF CycleOK
  <2>11. Released(mbs, i) /\ op[i].memprogress = 0
    BY <1>2, <2>1 DEF Released, CycleOK
  <2>12. ASSUME NEW j \in Tags
        PROVE  /\ t.op[j].done = op[j].done /\ t.op[j].flag = op[j].flag
               /\ t.op[j].addr_ready = op[j].addr_ready /\ t.op[j].mem_ready = op[j].mem_ready
               /\ t.op[j].memprogress = 1 <=> op[j].memprogress = 1
               /\ t.op[j].memprogress = op[j].memprogress
                  \/ (op[j].memprogress = 0 /\ j \in LoadQueue \cup StoreQueue /\ Released(mbs, j))
    <3>1. /\ s.op[j].done = op[j].done /\ s.op[j].flag = op[j].flag
          /\ s.op[j].addr_ready = op[j].addr_ready /\ s.op[j].mem_ready = op[j].mem_ready
          /\ s.op[j].memprogress = 1 <=> op[j].memprogress = 1
          /\ s.op[j].memprogress = op[j].memprogress
             \/ (op[j].memprogress = 0 /\ j \in LoadQueue \cup StoreQueue /\ Released(mbs, j))
      BY DEF CycleOK
    <3>2. CASE j = i
      BY <2>7, <2>11, <3>1, <3>2 DEF SameOtherwise, InCache
    <3>3. CASE j # i
      BY <2>7, <3>1, <3>3 DEF Changed
    <3> QED BY <3>2, <3>3
  <2> QED BY <2>8, <2>9, <2>10, <2>12 DEF CycleOK, t
<1> QED BY <1>1, <1>2

\* The fold over the store queue
LEMMA IssueStoresOK ==
  ASSUME QueueTypes, dcache \in Seq(Tags), NEW mbs, NEW start, CycleOK(mbs, start)
  PROVE  CycleOK(mbs, IssueStores(mbs, start))
<1> DEFINE n == Len(prog)
           Good == {s \in Cycles : CycleOK(mbs, s)}
           S == [k \in 0 .. n |-> Good]
           T == [k \in 1 .. n |-> [s \in Good |-> IF k \in StoreQueue THEN IssueStore(mbs, s, k) ELSE s]]
           F(f) == f = [i \in 0 .. n |->
                          IF i \in StoreQueue THEN CHOOSE t \in {IssueStore(mbs, s, i) : s \in {f[i - 1]}} : TRUE
                          ELSE IF i = 0 THEN start ELSE f[i - 1]]
<1>1. n \in Nat /\ StoreQueue \subseteq 1 .. n /\ start \in Good
  BY Places DEF CycleOK
<1>2. ASSUME NEW s \in Good, NEW k \in StoreQueue PROVE IssueStore(mbs, s, k) \in Good
  <2>1. CycleOK(mbs, IssueStore(mbs, s, k))
    BY IssueStoreOK
  <2> QED BY <2>1 DEF CycleOK
<1> HIDE DEF Good
<1>3. \E f : F(f)
  <2>1. \A k \in 1 .. n : S[k - 1] = Good /\ S[k] = Good
    BY <1>1
  <2>2. \A k \in 1 .. n : T[k] \in [S[k - 1] -> S[k]]
    BY <1>2, <2>1
  <2>3. start \in S[0]
    BY <1>1
  <2>4. PICK f : StepsFrom(f, start, T, n) /\ \A k \in 0 .. n : f[k] \in S[k]
    <3> HIDE DEF T, S, n
    <3> QED BY <1>1, <2>2, <2>3, StepsExist
  <2>5. \A k \in 0 .. n : f[k] \in Good
    BY <2>4
  <2>6. f = [k \in 0 .. n |-> IF k = 0 THEN start ELSE T[k][f[k - 1]]]
    BY <2>4 DEF StepsFrom
  <2>7. ASSUME NEW k \in 0 .. n
        PROVE  f[k] = IF k \in StoreQueue THEN CHOOSE t \in {IssueStore(mbs, s, k) : s \in {f[k - 1]}} : TRUE
                      ELSE IF k = 0 THEN start ELSE f[k - 1]
    <3>1. CASE k = 0
      BY <1>1, <2>6, <3>1
    <3>2. CASE k # 0
      <4>1. k \in 1 .. n /\ k - 1 \in 0 .. n
        BY <1>1, <3>2
      <4>2. T[k] = [s \in Good |-> IF k \in StoreQueue THEN IssueStore(mbs, s, k) ELSE s]
        BY <4>1
      <4>3. f[k] = T[k][f[k - 1]] /\ f[k - 1] \in Good
        BY <2>5, <2>6, <3>2, <4>1
      <4> HIDE DEF T
      <4>4. f[k] = IF k \in StoreQueue THEN IssueStore(mbs, f[k - 1], k) ELSE f[k - 1]
        BY <4>2, <4>3
      <4> QED BY <3>2, <4>4
    <3> QED BY <3>1, <3>2
  <2> HIDE DEF T, S, n
  <2>8. F(f)
    BY <2>6, <2>7
  <2> QED BY <2>8
<1>4. PICK f : F(f) /\ IssueStores(mbs, start) = f[n]
  BY <1>3 DEF InOrder, IssueStores
<1>5. \A k \in 0 .. n : f[k] \in Good
  <2> DEFINE A == {k \in 0 .. n : f[k] \in Good}
  <2>1. 0 \in A
    <3>1. 0 \in 0 .. n /\ 0 \notin StoreQueue
      BY <1>1
    <3> HIDE DEF n
    <3>2. f[0] = start
      BY <1>4, <3>1, Zenon
    <3> QED BY <1>1, <3>1, <3>2
  <2>2. ASSUME NEW k \in 1 .. n, k - 1 \in A PROVE k \in A
    <3>1. k \in 0 .. n /\ k # 0 /\ f[k - 1] \in Good
      BY <1>1, <2>2
    <3> HIDE DEF A, S, T, n
    <3>2. f[k] = IF k \in StoreQueue THEN CHOOSE t \in {IssueStore(mbs, s, k) : s \in {f[k - 1]}} : TRUE
                 ELSE f[k - 1]
      BY <1>4, <3>1
    <3>3. f[k] = IF k \in StoreQueue THEN IssueStore(mbs, f[k - 1], k) ELSE f[k - 1]
      BY <3>2
    <3>4. f[k] \in Good
      BY <1>2, <3>1, <3>3
    <3> QED BY <3>1, <3>4 DEF A
  <2> HIDE DEF A, S, T, F
  <2>3. \A k \in 0 .. n : k \in A
    BY <1>1, <2>1, <2>2, UpTo
  <2> QED BY <2>3 DEF A
<1>6. f[n] \in Good
  BY <1>1, <1>5
<1> QED BY <1>4, <1>6 DEF Good

LEMMA MembarTagIs ==
  ASSUME NEW mbs \in SUBSET Nat, NEW kind, Len(prog) \in Nat
  PROVE  /\ MembarTag(mbs, kind) \in Nat
         /\ MembarTag(mbs, kind) = NoMembar
            \/ (MembarTag(mbs, kind) \in mbs /\ kind \in prog[MembarTag(mbs, kind)].order)
         /\ \A m \in mbs : kind \in prog[m].order => MembarTag(mbs, kind) <= m
<1> DEFINE M == {m \in mbs : kind \in prog[m].order}
<1>1. IF M = {} THEN MinOf(M) = NoMembar ELSE MinOf(M) \in M /\ \A j \in M : MinOf(M) <= j
  <2>1. M \in SUBSET Nat
    OBVIOUS
  <2> HIDE DEF M
  <2> QED BY <2>1, MinOfIs
<1>2. MembarTag(mbs, kind) = MinOf(M)
  BY DEF MembarTag
<1>3. NoMembar \in Nat
  BY DEF NoMembar
<1> DEFINE first == MembarTag(mbs, kind)
<1>4. first = MinOf(M)
  BY <1>2
<1>5. CASE M = {}
  <2>1. first = NoMembar
    BY <1>1, <1>4, <1>5
  <2> HIDE DEF first
  <2>2. \A j \in mbs : kind \notin prog[j].order
    BY <1>5, Zenon
  <2>3. \A j \in mbs : kind \in prog[j].order => first <= j
    BY <2>2
  <2>4. first \in Nat
    BY <1>3, <2>1
  <2> QED BY <2>1, <2>3, <2>4 DEF first
<1>6. CASE M # {}
  <2>1. first \in M /\ \A j \in M : first <= j
    BY <1>1, <1>4, <1>6
  <2> HIDE DEF first
  <2>2. first \in Nat /\ first \in mbs /\ kind \in prog[first].order
    BY <2>1
  <2>3. \A j \in mbs : kind \in prog[j].order => first <= j
    BY <2>1
  <2> QED BY <2>2, <2>3 DEF first
<1> QED BY <1>5, <1>6

-----------------------------------------------------------------------------
\* The scan of a load over the older stores, as far as instruction k
Scans == [mp : Int, vsb : Int, can : BOOLEAN, val : Values]
ScanOK(mbs, o, i, r, k) ==
  /\ r \in Scans /\ (r.mp = 0 \/ r.vsb = 0)
  /\ r.mp # 0 => \E st \in Older(StoreQueue, i) :
                   r.mp = Mark(st) /\ MemMatch(i, st) /\ ~ForwardBlocked(mbs, i, st)
  /\ r.can => \A j \in Older(StoreQueue, i) : j <= k /\ o[j].addr_ready /\ Overlap(i, j) =>
                o[j].memprogress # 0 \/ (r.mp # 0 /\ r.mp <= Mark(j)) \/ (r.vsb # 0 /\ r.vsb <= Mark(j))

LEMMA MeetStoreOK ==
  ASSUME QueueTypes, NEW mbs, NEW o, NEW i \in LoadQueue, NEW k \in Older(StoreQueue, i),
         NEW r, ScanOK(mbs, o, i, r, k - 1), NEW q, q = MeetStore(mbs, o, i, r, k)
  PROVE  ScanOK(mbs, o, i, q, k)
<1> DEFINE value == [b \in prog[i].bytes |-> k]
           Matches == /\ o[k].addr_ready /\ Overlap(i, k) /\ MemMatch(i, k) /\ ~o[k].truedep
                      /\ ~ForwardBlocked(mbs, i, k)
           Known == o[k].addr_ready /\ Overlap(i, k)
<1>1. /\ i \in Tags /\ k \in Tags /\ Tags = 1 .. Len(prog) /\ StoreQueue \subseteq Tags /\ k \in StoreQueue
      /\ prog[i].bytes \in SUBSET Bytes /\ Len(prog) \in Nat
  <2>1. k \in StoreQueue
    BY DEF Older
  <2>2. /\ i \in Tags /\ k \in Tags /\ Tags = 1 .. Len(prog) /\ StoreQueue \subseteq Tags
        /\ Len(prog) \in Nat
    BY <2>1, Places
  <2>3. prog[i].bytes \in SUBSET Bytes
    BY <2>2, BytesOf
  <2> QED BY <2>1, <2>2, <2>3
<1>2. value \in Values
  BY <1>1 DEF Values
<1> HIDE DEF value
<1>3. r \in Scans /\ (r.mp = 0 \/ r.vsb = 0)
  BY DEF ScanOK
<1>4. \A j \in Older(StoreQueue, i) : j \in Nat /\ k \in Nat /\ (j <= k => j <= k - 1 \/ j = k)
  BY <1>1 DEF Older
<1>5. Mark(k) \in Int /\ Mark(k) # 0 /\ \A j \in Older(StoreQueue, i) : j <= k => Mark(k) <= Mark(j)
  BY <1>1, <1>4 DEF Mark
<1>6. CASE ~Known
  <2>1. q = r
    BY <1>6 DEF MeetStore
  <2> QED BY <1>4, <1>6, <2>1 DEF ScanOK
<1>7. CASE Matches
  <2>1. CASE o[k].memprogress # 0
    <3>1. q = [mp |-> 0, vsb |-> Mark(k), can |-> TRUE, val |-> value]
      BY <1>7, <2>1 DEF MeetStore, value
    <3>2. q \in Scans /\ q.mp = 0 /\ q.vsb = Mark(k)
      BY <1>2, <1>5, <3>1 DEF Scans
    <3> QED BY <1>5, <3>2 DEF ScanOK
  <2>2. CASE o[k].memprogress = 0
    <3>1. q = [mp |-> Mark(k), vsb |-> 0, can |-> TRUE, val |-> value]
      BY <1>7, <2>2 DEF MeetStore, value
    <3>2. q \in Scans /\ q.mp = Mark(k) /\ q.vsb = 0
      BY <1>2, <1>5, <3>1 DEF Scans
    <3> QED BY <1>5, <1>7, <3>2 DEF ScanOK
  <2> QED BY <2>1, <2>2
<1>8. CASE Known /\ ~Matches
  <2>1. CASE o[k].memprogress = 0 \/ IsRMW(k) \/ ~LoadBlocked(mbs, i)
    <3>1. q = [r EXCEPT !.mp = 0, !.vsb = 0, !.can = FALSE]
      BY <1>8, <2>1 DEF MeetStore
    <3>2. q \in Scans /\ q.mp = 0 /\ q.vsb = 0 /\ ~q.can
      BY <1>3, <3>1 DEF Scans
    <3> QED BY <3>2 DEF ScanOK
  <2>2. CASE ~(o[k].memprogress = 0 \/ IsRMW(k) \/ ~LoadBlocked(mbs, i))
    <3>1. q = r
      BY <1>8, <2>2 DEF MeetStore
    <3> QED BY <1>4, <2>2, <3>1 DEF ScanOK
  <2> QED BY <2>1, <2>2
<1> QED BY <1>6, <1>7, <1>8

LEMMA ScanIs ==
  ASSUME QueueTypes, NEW mbs, NEW s, NEW i \in LoadQueue, s.op[i].val \in Values
  PROVE  ScanOK(mbs, s.op, i, Scan(mbs, s, i), Len(prog))
<1> DEFINE n == Len(prog)
           o == s.op
           Q == Older(StoreQueue, i)
           start == [mp |-> 0, vsb |-> 0, can |-> TRUE, val |-> o[i].val]
           S == [k \in 0 .. n |-> {r \in Scans : ScanOK(mbs, o, i, r, k)}]
           T == [k \in 1 .. n |-> [r \in S[k - 1] |-> IF k \in Q THEN MeetStore(mbs, o, i, r, k) ELSE r]]
           F(f) == f = [k \in 0 .. n |->
                          IF k \in Q THEN CHOOSE t \in {MeetStore(mbs, o, i, r, k) : r \in {f[k - 1]}} : TRUE
                          ELSE IF k = 0 THEN start ELSE f[k - 1]]
<1>1. n \in Nat /\ Q \subseteq 1 .. n
  BY Places DEF Older
<1>2. start \in S[0]
  <2>1. ScanOK(mbs, o, i, start, 0)
    BY <1>1 DEF ScanOK, Scans
  <2> QED BY <1>1, <2>1 DEF ScanOK
<1>3. ASSUME NEW k \in 1 .. n, NEW r \in S[k - 1]
      PROVE  (IF k \in Q THEN MeetStore(mbs, o, i, r, k) ELSE r) \in S[k]
  <2>1. ScanOK(mbs, o, i, r, k - 1) /\ S[k] = {q \in Scans : ScanOK(mbs, o, i, q, k)}
    BY <1>1
  <2>2. CASE k \in Q
    <3>1. ScanOK(mbs, o, i, MeetStore(mbs, o, i, r, k), k)
      BY <2>1, <2>2, MeetStoreOK
    <3> HIDE DEF S
    <3> QED BY <2>1, <2>2, <3>1 DEF ScanOK
  <2>3. CASE k \notin Q
    <3>1. \A j \in Q : j <= k => j <= k - 1
      BY <1>1, <2>3
    <3>2. ScanOK(mbs, o, i, r, k)
      BY <2>1, <3>1 DEF ScanOK
    <3> HIDE DEF S
    <3> QED BY <2>1, <2>3, <3>2 DEF ScanOK
  <2> QED BY <2>2, <2>3
<1> HIDE DEF S, Q, start
<1>4. \E f : F(f)
  <2>1. ASSUME NEW k \in 1 .. n PROVE T[k] \in [S[k - 1] -> S[k]]
    <3>1. T[k] = [r \in S[k - 1] |-> IF k \in Q THEN MeetStore(mbs, o, i, r, k) ELSE r]
      OBVIOUS
    <3> HIDE DEF T
    <3> QED BY <1>3, <3>1
  <2>2. PICK f : StepsFrom(f, start, T, n) /\ \A k \in 0 .. n : f[k] \in S[k]
    <3> HIDE DEF T, n
    <3> QED BY <1>1, <1>2, <2>1, StepsExist
  <2>3. f = [k \in 0 .. n |-> IF k = 0 THEN start ELSE T[k][f[k - 1]]]
    BY <2>2 DEF StepsFrom
  <2>4. ASSUME NEW k \in 0 .. n
        PROVE  f[k] = IF k \in Q THEN CHOOSE t \in {MeetStore(mbs, o, i, r, k) : r \in {f[k - 1]}} : TRUE
                      ELSE IF k = 0 THEN start ELSE f[k - 1]
    <3>1. CASE k = 0
      BY <1>1, <2>3, <3>1
    <3>2. CASE k # 0
      <4>1. k \in 1 .. n /\ k - 1 \in 0 .. n
        BY <1>1, <3>2
      <4>2. T[k] = [r \in S[k - 1] |-> IF k \in Q THEN MeetStore(mbs, o, i, r, k) ELSE r]
        BY <4>1
      <4>3. f[k] = T[k][f[k - 1]] /\ f[k - 1] \in S[k - 1]
        BY <2>2, <2>3, <3>2, <4>1
      <4> HIDE DEF T
      <4>4. f[k] = IF k \in Q THEN MeetStore(mbs, o, i, f[k - 1], k) ELSE f[k - 1]
        BY <4>2, <4>3
      <4> QED BY <3>2, <4>4
    <3> QED BY <3>1, <3>2
  <2> HIDE DEF T, n
  <2>5. F(f)
    BY <2>3, <2>4
  <2> QED BY <2>5
<1>5. PICK f : F(f) /\ Scan(mbs, s, i) = f[n]
  BY <1>4 DEF Scan, InOrder, start, Q
<1>6. \A k \in 0 .. n : f[k] \in S[k]
  <2> DEFINE A == {k \in 0 .. n : f[k] \in S[k]}
  <2>1. 0 \in A
    <3>1. 0 \in 0 .. n /\ 0 \notin Q
      BY <1>1
    <3> HIDE DEF n
    <3>2. f[0] = start
      BY <1>5, <3>1, Zenon
    <3> QED BY <1>2, <3>1, <3>2
  <2>2. ASSUME NEW k \in 1 .. n, k - 1 \in A PROVE k \in A
    <3>1. k \in 0 .. n /\ k # 0 /\ f[k - 1] \in S[k - 1]
      BY <1>1, <2>2
    <3> HIDE DEF A, T, n
    <3>2. f[k] = IF k \in Q THEN CHOOSE t \in {MeetStore(mbs, o, i, r, k) : r \in {f[k - 1]}} : TRUE
                 ELSE f[k - 1]
      BY <1>5, <3>1
    <3>3. f[k] = IF k \in Q THEN MeetStore(mbs, o, i, f[k - 1], k) ELSE f[k - 1]
      BY <3>2
    <3>4. f[k] \in S[k]
      BY <1>3, <3>1, <3>3
    <3> QED BY <3>1, <3>4 DEF A
  <2> HIDE DEF A, T, F
  <2>3. \A k \in 0 .. n : k \in A
    BY <1>1, <2>1, <2>2, UpTo
  <2> QED BY <2>3 DEF A
<1>7. f[n] \in S[n] /\ n \in 0 .. n
  BY <1>1, <1>6
<1> QED BY <1>5, <1>7 DEF S

\* A load that is issued: forwarded from an older store, or sent to the cache
LEMMA IssueLoadOK ==
  ASSUME QueueTypes, dcache \in Seq(Tags), NEW mbs \in SUBSET Nat, NEW s, CycleOK(mbs, s),
         NEW i \in LoadQueue
  PROVE  CycleOK(mbs, IssueLoad(mbs, s, i))
<1> DEFINE t == IssueLoad(mbs, s, i)
           scan == Scan(mbs, s, i)
           x == s.op[i]
           X == {j \in StoreQueue : s.op[j].memprogress # 0}
           found == [s EXCEPT !.op[i] = [@ EXCEPT !.val = scan.val, !.vsbfwd = scan.vsb]]
           w == [x EXCEPT !.val = scan.val, !.vsbfwd = scan.vsb]
           Waits == s.full \/ x.memprogress # 0 \/ ~x.addr_ready \/ i > MembarTag(mbs, "MEMISSUE") \/ ~scan.can
<1>1. /\ i \in Tags /\ IsLoad(i) /\ ~IsStore(i) /\ StoreQueue \subseteq Tags /\ LoadQueue \subseteq Tags
      /\ X \in SUBSET Tags /\ (\A j \in StoreQueue : j # i)
      /\ (i > MembarTag(mbs, "MEMISSUE") \/ i <= MembarTag(mbs, "MEMISSUE"))
  <2>1. MembarTag(mbs, "MEMISSUE") \in Nat
    BY MembarTagIs, Places
  <2> QED BY <2>1, Places
<1>2. s \in Cycles /\ s.op \in [Tags -> Instances] /\ s.room \in Int /\ s.sent \in Seq(Tags)
      /\ s.count \in Int /\ s.fwds \in SUBSET Tags /\ s.full \in BOOLEAN /\ x \in Instances
  BY <1>1 DEF CycleOK, Cycles
<1>3. ScanOK(mbs, s.op, i, scan, Len(prog)) /\ scan \in Scans
  <2>1. s.op[i].val \in Values
    BY <1>2 DEF Instances
  <2>2. ScanOK(mbs, s.op, i, Scan(mbs, s, i), Len(prog))
    BY <2>1, ScanIs
  <2> QED BY <2>2 DEF ScanOK
<1>4. \A j \in Older(StoreQueue, i) : j <= Len(prog)
  BY <1>1, Places DEF Older
<1>5. UnitOK(s.op, dcache \o s.sent, s.count) /\ ForwardsOK(s.op, s.fwds)
  BY DEF CycleOK
<1>6. X = {j \in StoreQueue : s.op[j].memprogress # 0}
  OBVIOUS
<1> HIDE DEF scan, X
<1>7. /\ w \in Instances /\ SameOtherwise(x, w) /\ w.vsbfwd = scan.vsb
      /\ scan.mp \in Int /\ scan.vsb \in Int
  BY <1>2, <1>3 DEF Instances, SameOtherwise, Scans
<1>8. /\ found.op = [s.op EXCEPT ![i] = w] /\ found.room = s.room /\ found.sent = s.sent
      /\ found.count = s.count /\ found.fwds = s.fwds /\ found.full = s.full
      /\ found = [op |-> found.op, room |-> found.room, sent |-> found.sent, count |-> found.count,
                  fwds |-> found.fwds, full |-> found.full]
  <2>1. found = [s EXCEPT !.op = [s.op EXCEPT ![i] = w]]
    OBVIOUS
  <2>2. /\ s = [op |-> s.op, room |-> s.room, sent |-> s.sent, count |-> s.count, fwds |-> s.fwds,
                full |-> s.full]
    BY <1>2 DEF Cycles
  <2> HIDE DEF found, w
  <2> QED BY <2>1, <2>2
\* What is left to prove, when the instance of the load becomes y
<1>9. ASSUME NEW y \in Instances, NEW u \in Cycles, SameOtherwise(x, y), y.memprogress \notin {0, 1},
             u.op = [s.op EXCEPT ![i] = y], UnitOK(u.op, dcache \o u.sent, u.count),
             ForwardsOK(u.op, u.fwds), x.memprogress = 0, Released(mbs, i)
      PROVE  CycleOK(mbs, u)
  <2>1. ASSUME NEW j \in Tags
        PROVE  /\ u.op[j].done = op[j].done /\ u.op[j].flag = op[j].flag
               /\ u.op[j].addr_ready = op[j].addr_ready /\ u.op[j].mem_ready = op[j].mem_ready
               /\ u.op[j].memprogress = 1 <=> op[j].memprogress = 1
               /\ u.op[j].memprogress = op[j].memprogress
                  \/ (op[j].memprogress = 0 /\ j \in LoadQueue \cup StoreQueue /\ Released(mbs, j))
    <3>1. /\ s.op[j].done = op[j].done /\ s.op[j].flag = op[j].flag
          /\ s.op[j].addr_ready = op[j].addr_ready /\ s.op[j].mem_ready = op[j].mem_ready
          /\ s.op[j].memprogress = 1 <=> op[j].memprogress = 1
          /\ s.op[j].memprogress = op[j].memprogress
             \/ (op[j].memprogress = 0 /\ j \in LoadQueue \cup StoreQueue /\ Released(mbs, j))
      BY DEF CycleOK
    <3>2. CASE j = i
      <4>1. u.op[i] = y
        BY <1>1, <1>2, <1>9
      <4>2. /\ y.done = s.op[i].done /\ y.flag = s.op[i].flag
            /\ y.addr_ready = s.op[i].addr_ready /\ y.mem_ready = s.op[i].mem_ready
        BY <1>9 DEF SameOtherwise
      <4>3. op[i].memprogress = 0
        BY <1>9, <3>1, <3>2
      <4> QED BY <1>9, <3>1, <3>2, <4>1, <4>2, <4>3
    <3>3. CASE j # i
      <4>1. u.op[j] = s.op[j]
        BY <1>2, <1>9, <3>3
      <4> QED BY <3>1, <4>1
    <3> QED BY <3>2, <3>3
  <2> QED BY <1>9, <2>1 DEF CycleOK
<1>10. CASE Waits \/ (scan.mp = 0 /\ LoadBlocked(mbs, i))
  <2>1. t = s
    BY <1>10 DEF IssueLoad, scan
  <2> QED BY <2>1
<1>11. CASE ~Waits /\ scan.mp # 0
  <2> DEFINE y == [w EXCEPT !.memprogress = scan.mp, !.seen = X]
  <2>1. t = [found EXCEPT !.fwds = @ \cup {i}, !.op[i] = [@ EXCEPT !.memprogress = scan.mp, !.seen = X]]
    BY <1>11 DEF IssueLoad, scan, X
  <2>2. found.op \in [Tags -> Instances] /\ found.op[i] = w
    BY <1>1, <1>2, <1>7, <1>8
  <2>3. y \in Instances /\ SameOtherwise(x, y) /\ y.memprogress = scan.mp /\ y.seen = X
    BY <1>1, <1>7 DEF Instances, SameOtherwise
  <2>4. y = [w EXCEPT !.memprogress = scan.mp, !.seen = X]
    OBVIOUS
  <2> HIDE DEF t, w, y, found
  <2>5. /\ t.op = [found.op EXCEPT ![i] = y] /\ t.fwds = found.fwds \cup {i} /\ t.sent = found.sent
        /\ t.count = found.count
        /\ t = [op |-> t.op, room |-> found.room, sent |-> t.sent, count |-> t.count, fwds |-> t.fwds,
                full |-> found.full]
    BY <1>8, <2>1, <2>2, <2>4
  <2>6. t.op = [s.op EXCEPT ![i] = y] /\ t.fwds = s.fwds \cup {i} /\ t.sent = s.sent /\ t.count = s.count
    <3>1. [found.op EXCEPT ![i] = y] = [s.op EXCEPT ![i] = y]
      BY <1>1, <1>2, <1>8
    <3> QED BY <1>8, <2>5, <3>1
  <2>7. t \in Cycles
    <3>1. t.op \in [Tags -> Instances]
      BY <1>2, <2>3, <2>6
    <3> QED BY <1>1, <1>2, <1>8, <2>5, <2>6, <3>1 DEF Cycles
  <2>8. Changed(s.op, t.op, i) /\ t.op[i] = y
    BY <1>1, <1>2, <2>3, <2>6 DEF Changed, OpType
  <2>9. PICK st \in Older(StoreQueue, i) :
          scan.mp = Mark(st) /\ MemMatch(i, st) /\ ~ForwardBlocked(mbs, i, st)
    BY <1>3, <1>11 DEF ScanOK
  <2>10. scan.mp < InCache
    <3>1. st \in Nat
      BY <1>4, <2>9, Places DEF Older
    <3> QED BY <2>9, <3>1 DEF Mark, InCache
  <2>11. Released(mbs, i)
    BY <1>1, <1>11, <2>9 DEF Released
  <2>12. UnitOK(t.op, dcache \o t.sent, t.count)
    <3>1. UnitOK(t.op, dcache \o s.sent, s.count)
      BY <1>5, <1>11, <2>3, <2>8, <2>10, LoadIssued DEF InCache
    <3> QED BY <2>6, <3>1
  <2>13. ForwardsOK(t.op, s.fwds)
    BY <1>1, <1>5, <1>11, <2>3, <2>8, ForwardsStay
  <2>14. Saw(t.op, i, scan.mp)
    <3> SUFFICES ASSUME NEW j \in Older(StoreQueue, i), t.op[j].addr_ready, Overlap(i, j)
                 PROVE  j \in t.op[i].seen \/ (scan.mp # 0 /\ scan.mp <= Mark(j))
      BY DEF Saw
    <3>1. j \in StoreQueue /\ j # i /\ t.op[j] = s.op[j]
      BY <1>1, <2>8 DEF Older, Changed
    <3>2. s.op[j].memprogress # 0 \/ scan.mp <= Mark(j)
      BY <1>3, <1>4, <1>11, <3>1 DEF ScanOK
    <3>3. s.op[j].memprogress # 0 => j \in X
      BY <1>6, <3>1
    <3> QED BY <1>11, <2>3, <2>8, <3>2, <3>3
  <2>15. ForwardsOK(t.op, t.fwds)
    <3>1. t.op[i].limbo = 0 /\ t.op[i].memprogress = scan.mp
      BY <1>5, <1>11, <2>3, <2>8 DEF SameOtherwise, UnitOK, LoadsOK
    <3> QED BY <2>6, <2>10, <2>13, <2>14, <3>1 DEF ForwardsOK
  <2>16. t.op[i].memprogress \notin {0, 1} /\ y.memprogress \notin {0, 1} /\ x.memprogress = 0
    BY <1>11, <2>3, <2>8, <2>10 DEF InCache
  <2> HIDE DEF x
  <2>17. CycleOK(mbs, t)
    BY <1>9, <2>3, <2>6, <2>7, <2>11, <2>12, <2>15, <2>16
  <2> QED BY <2>17 DEF t
<1>12. CASE ~Waits /\ scan.mp = 0 /\ ~LoadBlocked(mbs, i) /\ s.room = 0
  <2>1. t = [s EXCEPT !.full = TRUE]
    BY <1>12 DEF IssueLoad, scan
  <2>2. t \in Cycles /\ t.op = s.op /\ t.sent = s.sent /\ t.count = s.count /\ t.fwds = s.fwds
    BY <1>2, <2>1 DEF Cycles
  <2> HIDE DEF t
  <2> QED BY <2>2 DEF CycleOK, t
<1>13. CASE ~Waits /\ scan.mp = 0 /\ ~LoadBlocked(mbs, i) /\ s.room # 0
  <2> DEFINE y == [w EXCEPT !.memprogress = InCache, !.seen = X]
  <2>1. t = SendToCache(found, i)
    BY <1>13 DEF IssueLoad, scan
  <2>2. found.op \in [Tags -> Instances] /\ found.op[i] = w
    BY <1>1, <1>2, <1>7, <1>8
  <2>3. y \in Instances /\ SameOtherwise(x, y) /\ y.memprogress = InCache /\ y.seen = X /\ y.vsbfwd = scan.vsb
    <3>1. InCache \in Int
      BY DEF InCache
    <3> HIDE DEF w, x
    <3>2. w \in Instances /\ SameOtherwise(x, w) /\ w.vsbfwd = scan.vsb /\ X \in SUBSET Tags
      BY <1>1, <1>7
    <3> QED BY <3>1, <3>2 DEF Instances, SameOtherwise
  <2>4. y = [w EXCEPT !.memprogress = InCache, !.seen = X]
    OBVIOUS
  <2>5. X = {j \in StoreQueue : found.op[j].memprogress # 0}
    <3>1. \A j \in StoreQueue : j # i /\ j \in Tags
      BY <1>1, Places
    <3>2. \A j \in StoreQueue : found.op[j] = s.op[j]
      BY <1>2, <1>8, <3>1
    <3> HIDE DEF found
    <3> QED BY <1>6, <3>2
  <2> HIDE DEF t, w, y, found
  <2>6. /\ t.op = [found.op EXCEPT ![i] = y] /\ t.fwds = found.fwds /\ t.sent = Append(found.sent, i)
        /\ t.count = found.count
        /\ t = [op |-> t.op, room |-> found.room - 1, sent |-> t.sent, count |-> t.count, fwds |-> t.fwds,
                full |-> found.full]
    BY <1>8, <2>1, <2>2, <2>4, <2>5 DEF SendToCache
  <2>7. /\ t.op = [s.op EXCEPT ![i] = y] /\ t.fwds = s.fwds /\ t.sent = Append(s.sent, i) /\ t.count = s.count
    <3>1. [found.op EXCEPT ![i] = y] = [s.op EXCEPT ![i] = y]
      BY <1>1, <1>2, <1>8
    <3> QED BY <1>8, <2>6, <3>1
  <2>8. t \in Cycles
    <3>1. t.op \in [Tags -> Instances] /\ t.sent \in Seq(Tags)
      BY <1>1, <1>2, <2>3, <2>7
    <3>2. found.room - 1 \in Int /\ found.full \in BOOLEAN /\ t.count \in Int /\ t.fwds \in SUBSET Tags
      BY <1>2, <1>8, <2>7
    <3> DEFINE v == [op |-> t.op, room |-> found.room - 1, sent |-> t.sent, count |-> t.count,
                     fwds |-> t.fwds, full |-> found.full]
    <3>3. v \in Cycles
      BY <3>1, <3>2 DEF Cycles
    <3>4. t = v
      BY <2>6
    <3> QED BY <3>3, <3>4
  <2>9. Changed(s.op, t.op, i) /\ t.op[i] = y
    BY <1>1, <1>2, <2>3, <2>7 DEF Changed, OpType
  <2>10. Released(mbs, i)
    BY <1>1, <1>13 DEF Released
  <2>11. UnitOK(t.op, dcache \o s.sent, s.count)
    BY <1>5, <1>13, <2>3, <2>9, LoadIssued DEF InCache
  <2>12. \A k \in DOMAIN (dcache \o s.sent) : (dcache \o s.sent)[k] # i
    BY <1>5, <1>13 DEF UnitOK, CacheOK, InCache
  <2>13. Saw(t.op, i, scan.vsb)
    <3> SUFFICES ASSUME NEW j \in Older(StoreQueue, i), t.op[j].addr_ready, Overlap(i, j)
                 PROVE  j \in t.op[i].seen \/ (scan.vsb # 0 /\ scan.vsb <= Mark(j))
      BY DEF Saw
    <3>1. j \in StoreQueue /\ j # i /\ t.op[j] = s.op[j]
      BY <1>1, <2>9 DEF Older, Changed
    <3>2. s.op[j].memprogress # 0 \/ (scan.vsb # 0 /\ scan.vsb <= Mark(j))
      BY <1>3, <1>4, <1>13, <3>1 DEF ScanOK
    <3>3. s.op[j].memprogress # 0 => j \in X
      BY <1>6, <3>1
    <3> QED BY <2>3, <2>9, <3>2, <3>3
  <2>14. UnitOK(t.op, dcache \o t.sent, t.count)
    <3>1. t.op[i].limbo = 0 /\ t.op[i].memprogress = InCache /\ t.op[i].vsbfwd = scan.vsb
      BY <1>5, <1>13, <2>3, <2>9 DEF SameOtherwise, UnitOK, LoadsOK
    <3>2. UnitOK(t.op, Append(dcache \o s.sent, i), s.count)
      BY <2>11, <2>12, <2>13, <3>1, LoadJoins
    <3>3. dcache \o Append(s.sent, i) = Append(dcache \o s.sent, i)
      BY <1>1, <1>2, AppendedTo
    <3>4. dcache \o t.sent = Append(dcache \o s.sent, i)
      BY <2>7, <3>3
    <3> QED BY <2>7, <3>2, <3>4
  <2>15. ForwardsOK(t.op, t.fwds)
    BY <1>1, <1>5, <1>13, <2>3, <2>7, <2>9, ForwardsStay
  <2>16. y.memprogress \notin {0, 1} /\ x.memprogress = 0
    BY <1>13, <2>3 DEF InCache
  <2> HIDE DEF x
  <2>17. CycleOK(mbs, t)
    BY <1>9, <2>3, <2>7, <2>8, <2>10, <2>14, <2>15, <2>16
  <2> QED BY <2>17 DEF t
<1> QED BY <1>10, <1>11, <1>12, <1>13

\* The fold over the load queue
LEMMA IssueLoadsOK ==
  ASSUME QueueTypes, dcache \in Seq(Tags), NEW mbs \in SUBSET Nat, NEW start, CycleOK(mbs, start)
  PROVE  CycleOK(mbs, IssueLoads(mbs, start))
<1> DEFINE n == Len(prog)
           Good == {s \in Cycles : CycleOK(mbs, s)}
           S == [k \in 0 .. n |-> Good]
           T == [k \in 1 .. n |-> [s \in Good |-> IF k \in LoadQueue THEN IssueLoad(mbs, s, k) ELSE s]]
           F(f) == f = [i \in 0 .. n |->
                          IF i \in LoadQueue THEN CHOOSE t \in {IssueLoad(mbs, s, i) : s \in {f[i - 1]}} : TRUE
                          ELSE IF i = 0 THEN start ELSE f[i - 1]]
<1>1. n \in Nat /\ LoadQueue \subseteq 1 .. n /\ start \in Good
  BY Places DEF CycleOK
<1>2. ASSUME NEW s \in Good, NEW k \in LoadQueue PROVE IssueLoad(mbs, s, k) \in Good
  <2>1. CycleOK(mbs, IssueLoad(mbs, s, k))
    BY IssueLoadOK
  <2> QED BY <2>1 DEF CycleOK
<1> HIDE DEF Good
<1>3. \E f : F(f)
  <2>1. \A k \in 1 .. n : S[k - 1] = Good /\ S[k] = Good
    BY <1>1
  <2>2. \A k \in 1 .. n : T[k] \in [S[k - 1] -> S[k]]
    BY <1>2, <2>1
  <2>3. start \in S[0]
    BY <1>1
  <2>4. PICK f : StepsFrom(f, start, T, n) /\ \A k \in 0 .. n : f[k] \in S[k]
    <3> HIDE DEF T, S, n
    <3> QED BY <1>1, <2>2, <2>3, StepsExist
  <2>5. \A k \in 0 .. n : f[k] \in Good
    BY <2>4
  <2>6. f = [k \in 0 .. n |-> IF k = 0 THEN start ELSE T[k][f[k - 1]]]
    BY <2>4 DEF StepsFrom
  <2>7. ASSUME NEW k \in 0 .. n
        PROVE  f[k] = IF k \in LoadQueue THEN CHOOSE t \in {IssueLoad(mbs, s, k) : s \in {f[k - 1]}} : TRUE
                      ELSE IF k = 0 THEN start ELSE f[k - 1]
    <3>1. CASE k = 0
      BY <1>1, <2>6, <3>1
    <3>2. CASE k # 0
      <4>1. k \in 1 .. n /\ k - 1 \in 0 .. n
        BY <1>1, <3>2
      <4>2. T[k] = [s \in Good |-> IF k \in LoadQueue THEN IssueLoad(mbs, s, k) ELSE s]
        BY <4>1
      <4>3. f[k] = T[k][f[k - 1]] /\ f[k - 1] \in Good
        BY <2>5, <2>6, <3>2, <4>1
      <4> HIDE DEF T
      <4>4. f[k] = IF k \in LoadQueue THEN IssueLoad(mbs, f[k - 1], k) ELSE f[k - 1]
        BY <4>2, <4>3
      <4> QED BY <3>2, <4>4
    <3> QED BY <3>1, <3>2
  <2> HIDE DEF T, S, n
  <2>8. F(f)
    BY <2>6, <2>7
  <2> QED BY <2>8
<1>4. PICK f : F(f) /\ IssueLoads(mbs, start) = f[n]
  BY <1>3 DEF InOrder, IssueLoads
<1>5. \A k \in 0 .. n : f[k] \in Good
  <2> DEFINE A == {k \in 0 .. n : f[k] \in Good}
  <2>1. 0 \in A
    <3>1. 0 \in 0 .. n /\ 0 \notin LoadQueue
      BY <1>1
    <3> HIDE DEF n
    <3>2. f[0] = start
      BY <1>4, <3>1, Zenon
    <3> QED BY <1>1, <3>1, <3>2
  <2>2. ASSUME NEW k \in 1 .. n, k - 1 \in A PROVE k \in A
    <3>1. k \in 0 .. n /\ k # 0 /\ f[k - 1] \in Good
      BY <1>1, <2>2
    <3> HIDE DEF A, S, T, n
    <3>2. f[k] = IF k \in LoadQueue THEN CHOOSE t \in {IssueLoad(mbs, s, k) : s \in {f[k - 1]}} : TRUE
                 ELSE f[k - 1]
      BY <1>4, <3>1
    <3>3. f[k] = IF k \in LoadQueue THEN IssueLoad(mbs, f[k - 1], k) ELSE f[k - 1]
      BY <3>2
    <3>4. f[k] \in Good
      BY <1>2, <3>1, <3>3
    <3> QED BY <3>1, <3>4 DEF A
  <2> HIDE DEF A, S, T, F
  <2>3. \A k \in 0 .. n : k \in A
    BY <1>1, <2>1, <2>2, UpTo
  <2> QED BY <2>3 DEF A
<1>6. f[n] \in Good
  BY <1>1, <1>5
<1> QED BY <1>4, <1>6 DEF Good

-----------------------------------------------------------------------------
\* The answer to a load that has seen the known stores: it is done, in limbo, or, when
\* a store has flagged it, to be issued again.
Answer(x, y) ==
  /\ y \in Instances /\ y.addr_ready = x.addr_ready /\ y.mem_ready = x.mem_ready
  /\ y.flag \in {x.flag, "OK"} /\ (y.done \/ (y.memprogress = 0 => y.limbo = 0))

LEMMA LoadAnswered ==
  ASSUME QueueTypes, NEW o, OpType(o), NEW i \in LoadQueue, o[i].limbo = 0, o[i].memprogress # 0,
         o[i].exception_code = "OK" =>
           \A j \in Older(StoreQueue, i) :
             o[j].addr_ready /\ Overlap(i, j) => j \in o[i].seen \/ o[i].memprogress <= Mark(j)
  PROVE  Answer(o[i], CompleteLoad(o, i))
<1> DEFINE x == o[i]
           y == CompleteLoad(o, i)
           seen == {j \in Older(StoreQueue, i) : ~(x.memprogress <= Mark(j))}
           R == {j \in seen : o[j].addr_ready /\ Overlap(i, j) /\ j \notin x.seen}
           redo == MinOf(R)
           L == {j \in seen : ~o[j].addr_ready /\ j < redo}
           limbo == x.limbo + Cardinality(L)
<1>1. i \in Tags /\ x \in Instances
  BY Places DEF OpType
<1>2. x.exception_code = "OK" => redo = NoMembar
  <2>1. ASSUME x.exception_code = "OK" PROVE R = {}
    BY <2>1
  <2> HIDE DEF R
  <2> QED BY <2>1 DEF MinOf
<1>3. limbo \in Int
  <2>1. L \subseteq 1 .. Len(prog) /\ Len(prog) \in Nat
    <3>1. StoreQueue \subseteq 1 .. Len(prog) /\ Len(prog) \in Nat
      BY Places
    <3> HIDE DEF redo
    <3> QED BY <3>1 DEF Older
  <2> HIDE DEF L
  <2>2. IsFiniteSet(1 .. Len(prog))
    BY <2>1, FS_Interval
  <2>3. IsFiniteSet(L)
    BY <2>1, <2>2, FS_Subset
  <2>4. Cardinality(L) \in Nat
    BY <2>3, FS_CardinalityType
  <2> QED BY <1>1, <2>4 DEF Instances
<1>4. y = CASE x.exception_code = "SOFT_LIMBO" ->
                 [x EXCEPT !.memprogress = 0, !.vsbfwd = 0, !.exception_code = "OK"]
            [] x.exception_code = "OK" /\ redo # NoMembar ->
                 [x EXCEPT !.memprogress = 0, !.vsbfwd = 0, !.limbo = limbo - 1]
            [] x.exception_code = "OK" /\ redo = NoMembar /\ limbo # 0 -> [x EXCEPT !.limbo = limbo]
            [] OTHER -> [x EXCEPT !.limbo = 0, !.memprogress = 1, !.done = TRUE, !.flag = "OK"]
  BY Zenon DEF CompleteLoad
<1>5. x.limbo = 0 /\ x.memprogress # 0 /\ x.exception_code \in {"OK", "SOFT_LIMBO"}
  BY <1>1 DEF Instances
<1> HIDE DEF x, y, redo, limbo
<1>6. CASE x.exception_code = "SOFT_LIMBO"
  <2>1. y = [x EXCEPT !.memprogress = 0, !.vsbfwd = 0, !.exception_code = "OK"]
    BY <1>4, <1>6
  <2>2. Answer(x, y)
    BY <1>1, <1>5, <2>1 DEF Instances, Answer
  <2> QED BY <2>2 DEF x, y
<1>7. CASE x.exception_code = "OK" /\ limbo # 0
  <2>1. y = [x EXCEPT !.limbo = limbo]
    BY <1>2, <1>4, <1>7
  <2>2. Answer(x, y)
    BY <1>1, <1>3, <1>5, <2>1 DEF Instances, Answer
  <2> QED BY <2>2 DEF x, y
<1>8. CASE x.exception_code = "OK" /\ limbo = 0
  <2>1. y = [x EXCEPT !.limbo = 0, !.memprogress = 1, !.done = TRUE, !.flag = "OK"]
    BY <1>2, <1>4, <1>8
  <2> DEFINE z == [x EXCEPT !.limbo = 0]
             w == [z EXCEPT !.memprogress = 1]
             v == [w EXCEPT !.done = TRUE]
  <2>2. z \in Instances /\ z.addr_ready = x.addr_ready /\ z.mem_ready = x.mem_ready
    BY <1>1 DEF Instances
  <2>5. y = [v EXCEPT !.flag = "OK"]
    BY <2>1
  <2> HIDE DEF z
  <2>6. w \in Instances /\ w.addr_ready = x.addr_ready /\ w.mem_ready = x.mem_ready
    BY <2>2 DEF Instances
  <2> HIDE DEF w
  <2>7. v \in Instances /\ v.addr_ready = x.addr_ready /\ v.mem_ready = x.mem_ready /\ v.done
    BY <2>6 DEF Instances
  <2> HIDE DEF v
  <2>3. /\ y \in Instances /\ y.addr_ready = x.addr_ready /\ y.mem_ready = x.mem_ready
        /\ y.flag = "OK" /\ y.done
    BY <2>5, <2>7 DEF Instances
  <2>4. Answer(x, y)
    BY <2>3 DEF Answer
  <2> QED BY <2>4 DEF x, y
<1> QED BY <1>5, <1>6, <1>7, <1>8

\* Only the loads of the queue move: what holds of the active list and of the stores
\* is not disturbed.
LoadsMove(o, o2) ==
  /\ OpType(o2)
  /\ \A j \in Tags \ LoadQueue :
       /\ o2[j].mem_ready = o[j].mem_ready /\ o2[j].memprogress = o[j].memprogress
       /\ o2[j].done = o[j].done /\ o2[j].flag = o[j].flag
  /\ \A j \in LoadQueue :
       o2[j].flag # "SERIALIZE" /\ (o2[j].done \/ (o2[j].memprogress = 0 => o2[j].limbo = 0))

LEMMA StoresKept ==
  ASSUME QueueTypes, NEW o, NEW o2, StoresOK(o), LoadsOK(o), LoadsMove(o, o2)
  PROVE  StoresOK(o2)
<1>1. Listed \subseteq Tags /\ LoadQueue \subseteq Listed /\ \A j \in LoadQueue : ~IsStore(j) /\ ~o[j].done
  BY Places DEF LoadsOK
<1> SUFFICES ASSUME NEW i \in Listed, IsStore(i)
             PROVE  /\ o2[i].flag = "OK" /\ o2[i].memprogress \in {0, InCache, 1}
                    /\ o2[i].memprogress # 0 => o2[i].mem_ready
                    /\ i \in StoreQueue <=> o2[i].memprogress # 1
                    /\ o2[i].mem_ready =>
                         \A j \in 1 .. i - 1 : o2[j].done /\ (j >= head => o2[j].flag = "OK")
                    /\ \A j \in 1 .. i - 1 : IsStore(j) /\ Overlap(j, i) =>
                         /\ o2[i].memprogress # 0 => o2[j].memprogress # 0
                         /\ o2[i].memprogress = 1 => o2[j].memprogress = 1
  BY DEF StoresOK
<1>2. /\ o2[i].mem_ready = o[i].mem_ready /\ o2[i].memprogress = o[i].memprogress
      /\ o2[i].flag = o[i].flag
  BY <1>1 DEF LoadsMove
<1>3. \A j \in 1 .. i - 1 : j \in Tags
  BY Places DEF Listed
<1>4. \A j \in 1 .. i - 1 : IsStore(j) => o2[j].memprogress = o[j].memprogress
  BY <1>1, <1>3 DEF LoadsMove
<1>5. ASSUME o[i].mem_ready, NEW j \in 1 .. i - 1
      PROVE  o2[j].done /\ (j >= head => o2[j].flag = "OK")
  <2>1. o[j].done /\ (j >= head => o[j].flag = "OK")
    BY <1>5 DEF StoresOK
  <2>2. j \in Tags \ LoadQueue
    BY <1>1, <1>3, <2>1
  <2> QED BY <2>1, <2>2 DEF LoadsMove
<1> QED BY <1>2, <1>4, <1>5 DEF StoresOK

LEMMA ListKept ==
  ASSUME QueueTypes, NEW o, NEW o2, ListOK(o), LoadsOK(o), LoadsMove(o, o2)
  PROVE  ListOK(o2)
<1>1. /\ Listed \subseteq Tags /\ LoadQueue \subseteq Listed /\ (\A j \in LoadQueue : ~o[j].done /\ j >= head)
      /\ head \in Nat /\ next \in Nat
  BY Places DEF LoadsOK
<1>2. \A i \in 1 .. head - 1 : i \in Tags \ LoadQueue
  BY <1>1, Places DEF QueueTypes
<1>3. \A i \in 1 .. head - 1 : o2[i].done
  BY <1>2 DEF ListOK, LoadsMove
<1>4. ASSUME NEW i \in Listed, o2[i].flag = "SERIALIZE" PROVE o2[i].done
  <2>1. i \in Tags \ LoadQueue
    BY <1>1, <1>4 DEF LoadsMove
  <2> QED BY <1>4, <2>1 DEF ListOK, LoadsMove
<1>5. ASSUME in_exception # None PROVE in_exception = head /\ head < next /\ o2[head].flag = "SERIALIZE"
  <2>1. in_exception = head /\ head < next /\ o[head].flag = "SERIALIZE" /\ head \in Listed
    BY <1>1, <1>5 DEF ListOK, Listed, QueueTypes
  <2>2. head \in Tags \ LoadQueue
    BY <1>1, <2>1 DEF ListOK
  <2> QED BY <2>1, <2>2 DEF LoadsMove
<1> QED BY <1>3, <1>4, <1>5 DEF ListOK

\* Memory is not disturbed as long as the same stores are performed.
LEMMA MemoryKept ==
  ASSUME QueueTypes, MemoryOK, NEW o2, UNCHANGED <<prog, next, memory>>,
         \A j \in Listed : IsStore(j) => (o2[j].memprogress = 1 <=> op[j].memprogress = 1), op' = o2
  PROVE  MemoryOK'
<1>1. ASSUME NEW b \in Bytes PROVE Written(b, op, next)' = Written(b, op, next)
  BY DEF Written, IsStore, Listed
<1>2. ASSUME NEW b \in Bytes PROVE MaxOf(Written(b, op, next)') = MaxOf(Written(b, op, next))
  BY <1>1
<1> QED BY <1>2 DEF MemoryOK, MaxOf, None


-----------------------------------------------------------------------------
\* What depends on the program alone
LEMMA SameProgram ==
  ASSUME prog' = prog
  PROVE  /\ Tags' = Tags /\ Instances' = Instances
         /\ \A i : IsLoad(i)' = IsLoad(i) /\ IsStore(i)' = IsStore(i) /\ Membar(i)' = Membar(i)
         /\ \A i, j : Overlap(i, j)' = Overlap(i, j)
<1>1. Tags' = Tags /\ None' = None
  BY DEF Tags, None
<1>2. Values' = Values
  BY <1>1 DEF Values
<1>3. Instances' = Instances
  BY <1>1, <1>2 DEF Instances
<1> QED BY <1>1, <1>3 DEF IsLoad, IsStore, Membar, Overlap

\* A step that moves only loads, and takes those that are done off the load queue, keeps
\* the invariant when the requests d still belong to loads that are under way.
LEMMA LoadsSettle ==
  ASSUME QueueTypes, MemoryOK, NEW o, NEW d, NEW n, ListOK(o), UnitOK(o, d, n),
         NEW o2, LoadsMove(o, o2), CacheOK(o2, d), CacheLoadsOK(o2, d),
         \A k \in DOMAIN d : d[k] \in LoadQueue => ~o2[d[k]].done,
         \A j \in Listed : IsStore(j) => (o[j].memprogress = 1 <=> op[j].memprogress = 1),
         op' = o2, dcache' = d, ReadyUnissuedStores' = n, LoadQueue' = StillQueued(o2),
         ambig_st_tags' \subseteq ambig_st_tags, membar_tags' \subseteq membar_tags, UnreadyOK(op)',
         UNCHANGED <<prog, head, next, StoreQueue, in_exception, memory>>
  PROVE  IInv'
<1>0. prog' = prog /\ op' = o2
  OBVIOUS
<1>1. StoresOK(o2) /\ ListOK(o2)
  BY StoresKept, ListKept DEF UnitOK
<1>2. LoadQueue' \subseteq LoadQueue /\ \A j \in LoadQueue : j \in LoadQueue' \/ o2[j].done
  BY DEF StillQueued
<1>3. \A j \in StoreQueue : j \in Tags \ LoadQueue
  BY Places
<1>4. \A j \in Listed : IsStore(j) => (o2[j].memprogress = 1 <=> op[j].memprogress = 1)
  <2>1. \A j \in Listed : IsStore(j) => j \in Tags \ LoadQueue
    BY Places
  <2> QED BY <2>1 DEF LoadsMove
<1>5. MemoryOK'
  BY <1>4, MemoryKept
<1>6. QueueTypes'
  <2>1. \A j \in LoadQueue' : j \in head' .. next' - 1 /\ IsLoad(j)'
    BY <1>2 DEF QueueTypes, IsLoad
  <2>2. \A j \in StoreQueue' : j \in Listed' /\ IsStore(j)'
    BY DEF QueueTypes, IsStore, Listed
  <2>3. \A j \in membar_tags' : j \in Listed' /\ Membar(j)'
    <3>1. next' = next /\ membar_tags \subseteq {i \in Listed : Membar(i)}
      BY DEF QueueTypes
    <3> QED BY <1>0, <3>1, SameProgram DEF Listed
  <2>4. /\ prog' \in Programs /\ head' \in 1 .. next' /\ next' \in 1 .. Len(prog') + 1
        /\ memory' \in [Bytes -> {None'} \cup Tags']
    <3>1. memory' = memory /\ memory \in [Bytes -> {None} \cup Tags]
      BY DEF QueueTypes
    <3>2. memory' \in [Bytes -> {None'} \cup Tags']
      BY <1>0, <3>1, SameProgram DEF None
    <3> QED BY <3>2 DEF QueueTypes
  <2>5. ambig_st_tags' \subseteq StoreQueue'
    BY DEF QueueTypes
  <2> QED BY <2>1, <2>2, <2>3, <2>4, <2>5 DEF QueueTypes
<1>7. ListOK(op)'
  BY <1>1 DEF ListOK, Listed, None
<1>8. StoresOK(op)'
  BY <1>1 DEF StoresOK, Listed, IsStore, Overlap, InCache
<1>9. OpType(op)' /\ LoadsOK(op)'
  <2>1. OpType(op)'
    <3>1. o2 \in [Tags -> Instances]
      BY DEF LoadsMove, OpType
    <3> QED BY <1>0, <3>1, SameProgram DEF OpType
  <2>2. ASSUME NEW j \in LoadQueue' PROVE ~o2[j].done /\ (o2[j].memprogress = 0 => o2[j].limbo = 0)
    BY DEF StillQueued, LoadsMove
  <2> QED BY <2>1, <2>2 DEF LoadsOK
<1>10. CacheOK(op, dcache)'
  <2>1. \A k \in DOMAIN d : d[k] \in LoadQueue' \cup StoreQueue
    BY <1>2 DEF CacheOK
  <2>2. d \in Seq(Tags') /\ \A k \in DOMAIN d : o2[d[k]].memprogress = InCache
    <3>1. d \in Seq(Tags) /\ \A k \in DOMAIN d : o2[d[k]].memprogress = InCache
      BY DEF CacheOK
    <3> QED BY <1>0, <3>1, SameProgram
  <2>3. \A k, e \in DOMAIN d : k < e => d[k] # d[e]
                 /\ (IsStore(d[k])' /\ IsStore(d[e])' /\ Overlap(d[k], d[e])' => d[k] < d[e])
    BY DEF CacheOK, IsStore, Overlap
  <2>4. \A i \in StoreQueue : o2[i].memprogress = InCache => \E k \in DOMAIN d : d[k] = i
    BY DEF CacheOK
  <2> QED BY <2>1, <2>2, <2>3, <2>4 DEF CacheOK, InCache
<1>11. CacheLoadsOK(op, dcache)'
  BY DEF CacheLoadsOK, Saw, Older, Overlap, IsLoad, Mark
<1>12. Counted(op, ReadyUnissuedStores)'
  <2>1. Unissued(o2) = Unissued(o)
    BY <1>3 DEF Unissued, LoadsMove
  <2>2. Unissued(op)' = Unissued(o2)
    BY DEF Unissued
  <2> QED BY <2>1, <2>2 DEF Counted, UnitOK
<1> QED BY <1>5, <1>6, <1>7, <1>8, <1>9, <1>10, <1>11, <1>12 DEF IInv, UnitOK

\* The end of a cycle: what was sent follows what the cache held, and the forwards are
\* complete.
LEMMA CycleEnds ==
  ASSUME IInv, NEW mbs, NEW s, CycleOK(mbs, s),
         op' = [i \in Tags |-> IF i \in s.fwds THEN CompleteLoad(s.op, i) ELSE s.op[i]],
         dcache' = dcache \o s.sent, ReadyUnissuedStores' = s.count, LoadQueue' = StillQueued(op'),
         membar_tags' \subseteq membar_tags,
         UNCHANGED <<prog, head, next, StoreQueue, ambig_st_tags, in_exception, memory>>
  PROVE  IInv'
<1> DEFINE o == s.op
           o2 == [i \in Tags |-> IF i \in s.fwds THEN CompleteLoad(o, i) ELSE o[i]]
           d == dcache \o s.sent
<1>1. QueueTypes /\ MemoryOK /\ ListOK(op) /\ UnitOK(o, d, s.count) /\ ForwardsOK(o, s.fwds)
  BY DEF IInv, CycleOK
<1>2. \A j \in Tags : /\ o[j].done = op[j].done /\ o[j].flag = op[j].flag
                      /\ o[j].addr_ready = op[j].addr_ready /\ o[j].mem_ready = op[j].mem_ready
                      /\ o[j].memprogress = 1 <=> op[j].memprogress = 1
  BY DEF CycleOK
<1>3. Listed \subseteq Tags /\ LoadQueue \subseteq Listed /\ StoreQueue \subseteq Tags
      /\ (\A j \in StoreQueue : j \notin LoadQueue) /\ head \in Nat /\ next \in Nat
      /\ 1 .. head - 1 \subseteq Listed
  BY <1>1, Places DEF QueueTypes, Listed
<1>4. ListOK(o)
  <2>1. \A i \in 1 .. head - 1 : o[i].done
    BY <1>1, <1>2, <1>3 DEF ListOK
  <2>2. \A i \in Listed : o[i].flag = "SERIALIZE" => o[i].done
    BY <1>1, <1>2, <1>3 DEF ListOK
  <2>3. ASSUME in_exception # None
        PROVE  in_exception = head /\ head < next /\ o[head].flag = "SERIALIZE"
    <3>1. in_exception = head /\ head < next /\ op[head].flag = "SERIALIZE"
      BY <1>1, <2>3 DEF ListOK
    <3>2. head \in Tags
      BY <1>1, <1>3, <3>1 DEF Listed, QueueTypes
    <3> QED BY <1>2, <3>1, <3>2
  <2> QED BY <2>1, <2>2, <2>3 DEF ListOK
<1>5. s.fwds \subseteq LoadQueue
  BY <1>1 DEF ForwardsOK
<1>6. ASSUME NEW i \in s.fwds PROVE Answer(o[i], CompleteLoad(o, i))
  <2>1. i \in LoadQueue /\ o[i].limbo = 0 /\ o[i].memprogress < InCache /\ Saw(o, i, o[i].memprogress)
    BY <1>1, <1>6 DEF ForwardsOK
  <2>2. o[i].memprogress < 0
    <3>1. o[i].memprogress \in Int
      BY <1>1, <1>3, <2>1 DEF UnitOK, OpType, Instances
    <3> QED BY <2>1, <3>1 DEF InCache
  <2>3. \A j \in Older(StoreQueue, i) :
          o[j].addr_ready /\ Overlap(i, j) => j \in o[i].seen \/ o[i].memprogress <= Mark(j)
    BY <2>1 DEF Saw
  <2> HIDE DEF o
  <2> QED BY <1>1, <2>1, <2>2, <2>3, LoadAnswered DEF UnitOK
<1> HIDE DEF o, d
<1>7. LoadsMove(o, o2)
  <2>1. OpType(o2)
    BY <1>1, <1>3, <1>5, <1>6 DEF OpType, UnitOK, Answer
  <2>2. ASSUME NEW j \in Tags \ LoadQueue PROVE o2[j] = o[j]
    BY <1>5
  <2>3. ASSUME NEW j \in LoadQueue
        PROVE  o2[j].flag # "SERIALIZE" /\ (o2[j].done \/ (o2[j].memprogress = 0 => o2[j].limbo = 0))
    <3>1. o[j].flag # "SERIALIZE" /\ (o[j].memprogress = 0 => o[j].limbo = 0)
      BY <1>1, <1>3, <1>4 DEF ListOK, UnitOK, LoadsOK
    <3>2. CASE j \in s.fwds
      BY <1>3, <1>6, <3>1, <3>2 DEF Answer
    <3>3. CASE j \notin s.fwds
      BY <1>3, <3>1, <3>3
    <3> QED BY <3>2, <3>3
  <2> HIDE DEF o2
  <2> QED BY <2>1, <2>2, <2>3 DEF LoadsMove
<1>8. ASSUME NEW k \in DOMAIN d
      PROVE  d[k] \in Tags /\ o2[d[k]] = o[d[k]] /\ (d[k] \in LoadQueue => ~o2[d[k]].done)
  <2>1. d[k] \in LoadQueue \cup StoreQueue /\ o[d[k]].memprogress = InCache
    BY <1>1 DEF UnitOK, CacheOK
  <2>2. d[k] \notin s.fwds /\ d[k] \in Tags
    BY <1>1, <1>3, <2>1 DEF ForwardsOK, InCache
  <2>3. o2[d[k]] = o[d[k]]
    BY <2>2
  <2> QED BY <1>1, <2>1, <2>2, <2>3 DEF UnitOK, LoadsOK
<1>9. \A j \in StoreQueue : o2[j] = o[j]
  BY <1>3, <1>5
<1>10. op' = o2 /\ LoadQueue' = StillQueued(o2)
  BY DEF o
<1> HIDE DEF o2
<1>11. CacheOK(o2, d)
  BY <1>1, <1>8, <1>9 DEF UnitOK, CacheOK
<1>12. CacheLoadsOK(o2, d)
  <2>1. ASSUME NEW i, Saw(o, i, o[i].vsbfwd), o2[i] = o[i] PROVE Saw(o2, i, o2[i].vsbfwd)
    BY <1>9, <2>1 DEF Saw, Older
  <2> QED BY <1>1, <1>8, <2>1 DEF UnitOK, CacheLoadsOK
<1>14. UnreadyOK(op)'
  <2>1. ASSUME NEW i \in ambig_st_tags' PROVE ~op'[i].addr_ready /\ ~op'[i].mem_ready
    <3>1. i \in StoreQueue /\ i \in Tags /\ ~op[i].addr_ready /\ ~op[i].mem_ready
      BY <1>1, <1>3 DEF QueueTypes, IInv, UnreadyOK
    <3>2. op'[i] = o[i] /\ o[i].addr_ready = op[i].addr_ready /\ o[i].mem_ready = op[i].mem_ready
      BY <1>2, <1>9, <1>10, <3>1
    <3> QED BY <3>1, <3>2
  <2>2. ASSUME NEW i \in StoreQueue PROVE op'[i].done => op'[i].mem_ready
    <3>1. i \in Tags /\ (op[i].done => op[i].mem_ready)
      BY <1>3 DEF IInv, UnreadyOK
    <3> QED BY <1>2, <1>9, <1>10, <3>1
  <2> QED BY <2>1, <2>2 DEF UnreadyOK
<1>13. dcache' = d /\ \A j \in Listed : IsStore(j) => (o[j].memprogress = 1 <=> op[j].memprogress = 1)
  BY <1>2, <1>3 DEF d
<1> HIDE DEF o, d
<1> QED BY <1>1, <1>4, <1>7, <1>8, <1>10, <1>11, <1>12, <1>13, <1>14, LoadsSettle

\* A cycle of the memory unit: the barriers that are done with retire, the queues issue
\* past those that are left, and the forwards are complete.
LEMMA IssueMemIs ==
  ASSUME IInv, NEW room \in 0 .. L1Ports, IssueMem(room)
  PROVE  \E mbs \in SUBSET Nat, s \in Cycles :
           /\ CycleOK(mbs, s) /\ membar_tags' = mbs /\ mbs \subseteq membar_tags
           /\ \A m \in membar_tags \ mbs : MembarRetires(m)
           /\ dcache' = dcache \o s.sent /\ ReadyUnissuedStores' = s.count
           /\ op' = [i \in Tags |-> IF i \in s.fwds THEN CompleteLoad(s.op, i) ELSE s.op[i]]
           /\ LoadQueue' = StillQueued(op')
           /\ UNCHANGED <<prog, head, next, StoreQueue, ambig_st_tags, in_exception, memory>>
<1> DEFINE retiring == {m \in membar_tags : \A d \in membar_tags : d <= m => MembarRetires(d)}
           gone == {m \in retiring : Cardinality(Older(retiring, m)) < room}
           start == [op |-> op, room |-> room - Cardinality(gone), sent |-> <<>>,
                     count |-> ReadyUnissuedStores, fwds |-> {}, full |-> FALSE]
           mbs == membar_tags \ gone
           all == IF gone # retiring THEN start ELSE IssueLoads(mbs, IssueStores(mbs, start))
<1>1. QueueTypes /\ dcache \in Seq(Tags) /\ UnitOK(op, dcache, ReadyUnissuedStores)
  BY DEF IInv, UnitOK, CacheOK
<1>2. mbs \in SUBSET Nat /\ Cardinality(gone) \in Int
  <2>1. membar_tags \subseteq Tags /\ Tags = 1 .. Len(prog) /\ Len(prog) \in Nat
    <3>1. membar_tags \subseteq Listed
      BY <1>1 DEF QueueTypes
    <3> QED BY <1>1, <3>1, Places
  <2>4. gone \subseteq membar_tags
    OBVIOUS
  <2>2. IsFiniteSet(1 .. Len(prog)) /\ gone \subseteq 1 .. Len(prog)
    <3> HIDE DEF gone
    <3> QED BY <2>1, <2>4, FS_Interval
  <2> HIDE DEF gone
  <2>3. IsFiniteSet(gone)
    BY <2>2, FS_Subset
  <2>5. Cardinality(gone) \in Nat
    BY <2>3, FS_CardinalityType
  <2>6. mbs \subseteq membar_tags
    OBVIOUS
  <2> HIDE DEF mbs
  <2> QED BY <2>1, <2>5, <2>6
<1>3. mbs \subseteq membar_tags /\ \A m \in membar_tags \ mbs : MembarRetires(m)
  <2>1. gone \subseteq retiring /\ \A m \in membar_tags \ mbs : m \in gone
    OBVIOUS
  <2>2. \A m \in retiring : MembarRetires(m)
    <3>1. \A m \in retiring : m \in membar_tags /\ \A d \in membar_tags : d <= m => MembarRetires(d)
      BY Zenon
    <3>2. \A m \in membar_tags : m <= m
      BY <1>1, Places DEF QueueTypes, Listed
    <3> HIDE DEF retiring
    <3> QED BY <3>1, <3>2
  <2>3. mbs \subseteq membar_tags
    OBVIOUS
  <2> HIDE DEF gone, retiring, mbs
  <2> QED BY <2>1, <2>2, <2>3
<1> HIDE DEF gone, retiring
<1>4. start \in Cycles /\ start.op = op /\ start.sent = <<>> /\ start.count = ReadyUnissuedStores
      /\ start.fwds = {}
  BY <1>1, <1>2 DEF Cycles, UnitOK, OpType, Counted
<1> HIDE DEF start
<1>5. CycleOK(mbs, start)
  <2>1. dcache \o start.sent = dcache
    BY <1>1, <1>4, ConcatEmptySeq
  <2> QED BY <1>1, <1>4, <2>1 DEF CycleOK, ForwardsOK
<1> HIDE DEF mbs
<1>6. CycleOK(mbs, all)
  <2>1. CycleOK(mbs, IssueStores(mbs, start))
    BY <1>1, <1>5, IssueStoresOK
  <2>2. CycleOK(mbs, IssueLoads(mbs, IssueStores(mbs, start)))
    BY <1>1, <1>2, <2>1, IssueLoadsOK
  <2> QED BY <1>5, <2>2
<1>7. /\ membar_tags' = mbs
      /\ dcache' = dcache \o all.sent /\ ReadyUnissuedStores' = all.count
      /\ op' = [i \in Tags |-> IF i \in all.fwds THEN CompleteLoad(all.op, i) ELSE all.op[i]]
      /\ LoadQueue' = StillQueued(op')
      /\ UNCHANGED <<prog, head, next, StoreQueue, ambig_st_tags, in_exception, mispredicted, memory>>
  BY DEF IssueMem, gone, retiring, start, mbs
<1> HIDE DEF all
<1>8. all \in Cycles
  BY <1>6 DEF CycleOK
<1> QED BY <1>2, <1>3, <1>6, <1>7, <1>8

\* The cycle of the memory unit keeps the invariant.
LEMMA IssueMemKeeps ==
  ASSUME IInv, NEW room \in 0 .. L1Ports, IssueMem(room)
  PROVE  IInv'
<1>1. PICK mbs \in SUBSET Nat, s \in Cycles :
           /\ CycleOK(mbs, s) /\ membar_tags' = mbs /\ mbs \subseteq membar_tags
           /\ \A m \in membar_tags \ mbs : MembarRetires(m)
           /\ dcache' = dcache \o s.sent /\ ReadyUnissuedStores' = s.count
           /\ op' = [i \in Tags |-> IF i \in s.fwds THEN CompleteLoad(s.op, i) ELSE s.op[i]]
           /\ LoadQueue' = StillQueued(op')
           /\ UNCHANGED <<prog, head, next, StoreQueue, ambig_st_tags, in_exception, memory>>
  BY IssueMemIs
<1> QED BY <1>1, CycleEnds

-----------------------------------------------------------------------------
\* A request leaves the cache: the others stay, in their order.
LEMMA RequestLeaves ==
  ASSUME QueueTypes, NEW o, NEW d, CacheOK(o, d), NEW k \in DOMAIN d
  PROVE  /\ RemoveAt(d, k) \in Seq(Tags)
         /\ \A e \in DOMAIN RemoveAt(d, k) : RemoveAt(d, k)[e] # d[k] /\ \E g \in DOMAIN d : d[g] = RemoveAt(d, k)[e]
         /\ \A e, f \in DOMAIN RemoveAt(d, k) : e < f =>
              LET r == RemoveAt(d, k) IN
              r[e] # r[f] /\ (IsStore(r[e]) /\ IsStore(r[f]) /\ Overlap(r[e], r[f]) => r[e] < r[f])
         /\ \A g \in DOMAIN d : d[g] # d[k] => \E e \in DOMAIN RemoveAt(d, k) : RemoveAt(d, k)[e] = d[g]
<1> DEFINE r == RemoveAt(d, k)
<1>1. /\ r \in Seq(Tags) /\ DOMAIN r = 1 .. Len(d) - 1 /\ DOMAIN d = 1 .. Len(d) /\ Len(d) \in Nat
      /\ \A e \in 1 .. Len(d) - 1 : r[e] = IF e < k THEN d[e] ELSE d[e + 1]
  <2>1. d \in Seq(Tags)
    BY DEF CacheOK
  <2> QED BY <2>1, Removed
<1> HIDE DEF r
<1>2. \A g, f \in DOMAIN d : g < f =>
        d[g] # d[f] /\ (IsStore(d[g]) /\ IsStore(d[f]) /\ Overlap(d[g], d[f]) => d[g] < d[f])
  BY DEF CacheOK
<1>3. k \in 1 .. Len(d)
  BY <1>1
<1>4. ASSUME NEW e \in DOMAIN r PROVE r[e] # d[k] /\ \E g \in DOMAIN d : d[g] = r[e]
  <2>1. CASE e < k
    BY <1>1, <1>2, <1>3, <2>1
  <2>2. CASE ~(e < k)
    <3>1. r[e] = d[e + 1] /\ e + 1 \in DOMAIN d /\ k < e + 1
      BY <1>1, <1>3, <2>2
    <3> QED BY <1>2, <3>1
  <2> QED BY <2>1, <2>2
<1>5. ASSUME NEW e \in DOMAIN r, NEW f \in DOMAIN r, e < f
      PROVE  \E g, h \in DOMAIN d : g < h /\ r[e] = d[g] /\ r[f] = d[h]
  <2> DEFINE at(n) == IF n < k THEN n ELSE n + 1
  <2>1. at(e) \in DOMAIN d /\ at(f) \in DOMAIN d /\ at(e) < at(f)
    BY <1>1, <1>3, <1>5
  <2>2. r[e] = d[at(e)] /\ r[f] = d[at(f)]
    BY <1>1
  <2> HIDE DEF at
  <2> QED BY <2>1, <2>2
<1>6. ASSUME NEW g \in DOMAIN d, d[g] # d[k] PROVE \E e \in DOMAIN r : r[e] = d[g]
  <2>1. CASE g < k
    BY <1>1, <1>3, <2>1
  <2>2. CASE g > k
    <3>1. g - 1 \in DOMAIN r /\ ~(g - 1 < k) /\ g - 1 + 1 = g
      BY <1>1, <1>3, <2>2
    <3>2. r[g - 1] = d[g]
      BY <1>1, <3>1
    <3> QED BY <3>1, <3>2
  <2> QED BY <1>1, <1>3, <1>6, <2>1, <2>2
<1>7. ASSUME NEW e \in DOMAIN r, NEW f \in DOMAIN r, e < f
      PROVE  r[e] # r[f] /\ (IsStore(r[e]) /\ IsStore(r[f]) /\ Overlap(r[e], r[f]) => r[e] < r[f])
  BY <1>2, <1>5, <1>7
<1> QED BY <1>1, <1>4, <1>6, <1>7 DEF r

\* The cache answers a load.
LEMMA PerformLoad ==
  ASSUME IInv, NEW k \in DOMAIN dcache, Perform(k), IsLoad(dcache[k])
  PROVE  IInv'
<1> DEFINE i == dcache[k]
           x == op[i]
           Load == [b \in prog[i].bytes |-> memory[b]]
           read == IF x.vsbfwd # 0 THEN [x EXCEPT !.memprogress = x.vsbfwd, !.vsbfwd = 0]
                   ELSE [x EXCEPT !.val = Load]
           q == [op EXCEPT ![i] = read]
           new == CompleteLoad(q, i)
           d == RemoveAt(dcache, k)
           n == ReadyUnissuedStores
<1>1. /\ QueueTypes /\ MemoryOK /\ ListOK(op) /\ UnreadyOK(op) /\ OpType(op) /\ StoresOK(op) /\ LoadsOK(op)
      /\ CacheOK(op, dcache) /\ CacheLoadsOK(op, dcache) /\ Counted(op, n)
  BY DEF IInv, UnitOK
<1>2. /\ i \in LoadQueue /\ i \in Tags /\ x \in Instances /\ x.memprogress = InCache /\ x.limbo = 0
      /\ ~x.done /\ x.flag # "SERIALIZE" /\ (x.exception_code = "OK" => Saw(op, i, x.vsbfwd))
      /\ LoadQueue \subseteq Listed /\ Listed \subseteq Tags
      /\ (\A j \in StoreQueue : j # i /\ j \in Tags /\ j \notin LoadQueue) /\ i \notin StoreQueue
  <2>1. i \in LoadQueue \cup StoreQueue /\ x.memprogress = InCache
    BY <1>1 DEF CacheOK
  <2>2. i \in LoadQueue /\ LoadQueue \subseteq Listed /\ Listed \subseteq Tags /\ i \notin StoreQueue
        /\ (\A j \in StoreQueue : j # i /\ j \in Tags /\ j \notin LoadQueue)
    BY <1>1, <2>1, Places
  <2>3. x \in Instances
    BY <1>1, <2>2 DEF OpType
  <2>4. x.limbo = 0 /\ (x.exception_code = "OK" => Saw(op, i, x.vsbfwd))
    BY <1>1 DEF CacheLoadsOK
  <2>5. ~x.done /\ x.flag # "SERIALIZE"
    BY <1>1, <2>2 DEF LoadsOK, ListOK
  <2> QED BY <2>1, <2>2, <2>3, <2>4, <2>5
<1>3. op' = [op EXCEPT ![i] = new] /\ dcache' = d /\ ReadyUnissuedStores' = n
      /\ LoadQueue' = StillQueued(op') /\ StoreQueue' = StoreQueue \ {i}
      /\ UNCHANGED <<prog, head, next, ambig_st_tags, membar_tags, in_exception, memory>>
  <2>1. ~IsStore(i)
    BY <1>1, <1>2, Places
  <2> DEFINE c == CASE IsLoad(i) -> new
                    [] IsRMW(i) -> [x EXCEPT !.val = Load, !.memprogress = 1, !.done = TRUE]
                    [] OTHER -> [x EXCEPT !.memprogress = 1]
  <2>2. /\ op' = [op EXCEPT ![i] = c] /\ dcache' = d /\ ReadyUnissuedStores' = n
        /\ LoadQueue' = StillQueued(op') /\ StoreQueue' = StoreQueue \ {i}
        /\ memory' = IF IsStore(i) THEN [b \in Bytes |-> IF b \in prog[i].bytes THEN i ELSE memory[b]]
                     ELSE memory
        /\ UNCHANGED <<prog, head, next, ambig_st_tags, membar_tags, in_exception>>
    BY Zenon DEF Perform
  <2>3. IsLoad(i) /\ ~IsRMW(i)
    BY <2>1 DEF IsStore, IsRMW
  <2> HIDE DEF new, x, Load
  <2>4. c = new
    BY <2>3
  <2> HIDE DEF c, d, n, i
  <2> QED BY <2>1, <2>2, <2>4
<1>4. /\ read \in Instances /\ read.addr_ready = x.addr_ready /\ read.mem_ready = x.mem_ready
      /\ read.flag = x.flag /\ read.exception_code = x.exception_code /\ read.seen = x.seen
      /\ read.limbo = 0 /\ read.memprogress = IF x.vsbfwd # 0 THEN x.vsbfwd ELSE InCache
  <2>1. Load \in Values
    <3>1. prog[i].bytes \in SUBSET Bytes
      BY <1>1, <1>2, BytesOf
    <3>2. memory \in [Bytes -> {None} \cup Tags]
      BY <1>1 DEF QueueTypes
    <3>3. Load \in [prog[i].bytes -> {None} \cup Tags]
      BY <3>1, <3>2
    <3> HIDE DEF Load
    <3> QED BY <3>1, <3>3 DEF Values
  <2> HIDE DEF Load
  <2>2. CASE x.vsbfwd # 0
    <3>1. read = [x EXCEPT !.memprogress = x.vsbfwd, !.vsbfwd = 0]
      BY <2>2
    <3> HIDE DEF read, x
    <3> QED BY <1>2, <2>2, <3>1 DEF Instances
  <2>3. CASE x.vsbfwd = 0
    <3>1. read = [x EXCEPT !.val = Load]
      BY <2>3
    <3> HIDE DEF read, x
    <3> QED BY <1>2, <2>1, <2>3, <3>1 DEF Instances
  <2> QED BY <2>2, <2>3
<1> HIDE DEF read
<1>5. OpType(q) /\ q[i] = read /\ \A j \in Tags \ {i} : q[j] = op[j]
  BY <1>1, <1>2, <1>4 DEF OpType
<1>6. q[i].limbo = 0 /\ q[i].memprogress # 0
  BY <1>4, <1>5 DEF InCache
<1>7. q[i].exception_code = "OK" =>
        \A j \in Older(StoreQueue, i) :
          q[j].addr_ready /\ Overlap(i, j) => j \in q[i].seen \/ q[i].memprogress <= Mark(j)
  <2> SUFFICES ASSUME x.exception_code = "OK", NEW j \in Older(StoreQueue, i), op[j].addr_ready, Overlap(i, j)
               PROVE  j \in x.seen \/ read.memprogress <= Mark(j)
    BY <1>2, <1>4, <1>5 DEF Older
  <2>1. j \in x.seen \/ (x.vsbfwd # 0 /\ x.vsbfwd <= Mark(j))
    BY <1>2 DEF Saw
  <2> QED BY <1>4, <2>1
<1>8. Answer(q[i], new)
  <2> HIDE DEF q
  <2> QED BY <1>1, <1>2, <1>5, <1>6, <1>7, LoadAnswered
<1> HIDE DEF new, q
<1>9. /\ new \in Instances /\ new.addr_ready = x.addr_ready /\ new.mem_ready = x.mem_ready
      /\ new.flag # "SERIALIZE" /\ (new.done \/ (new.memprogress = 0 => new.limbo = 0))
  BY <1>2, <1>4, <1>5, <1>8 DEF Answer
<1> DEFINE o2 == [op EXCEPT ![i] = new]
<1>10. OpType(o2) /\ o2[i] = new /\ \A j \in Tags \ {i} : o2[j] = op[j]
  BY <1>1, <1>2, <1>9 DEF OpType
<1>11. /\ d \in Seq(Tags)
       /\ \A e \in DOMAIN d : d[e] # i /\ \E g \in DOMAIN dcache : dcache[g] = d[e]
       /\ \A e, f \in DOMAIN d : e < f =>
            d[e] # d[f] /\ (IsStore(d[e]) /\ IsStore(d[f]) /\ Overlap(d[e], d[f]) => d[e] < d[f])
       /\ \A g \in DOMAIN dcache : dcache[g] # i => \E e \in DOMAIN d : d[e] = dcache[g]
  BY <1>1, RequestLeaves
<1> HIDE DEF d, o2
<1>12. \A e \in DOMAIN d : /\ d[e] \in LoadQueue \cup StoreQueue /\ op[d[e]].memprogress = InCache
                          /\ o2[d[e]] = op[d[e]]
                          /\ (IsLoad(d[e]) => op[d[e]].limbo = 0
                               /\ (op[d[e]].exception_code = "OK" => Saw(op, d[e], op[d[e]].vsbfwd)))
  <2> SUFFICES ASSUME NEW e \in DOMAIN d
               PROVE  /\ d[e] \in LoadQueue \cup StoreQueue /\ op[d[e]].memprogress = InCache
                      /\ o2[d[e]] = op[d[e]]
                      /\ (IsLoad(d[e]) => op[d[e]].limbo = 0
                               /\ (op[d[e]].exception_code = "OK" => Saw(op, d[e], op[d[e]].vsbfwd)))
    OBVIOUS
  <2>1. PICK g \in DOMAIN dcache : dcache[g] = d[e]
    BY <1>11
  <2>2. d[e] \in LoadQueue \cup StoreQueue /\ op[d[e]].memprogress = InCache
    BY <1>1, <2>1 DEF CacheOK
  <2>3. d[e] \in Tags \ {i}
    BY <1>2, <1>11, <2>2
  <2> QED BY <1>1, <1>10, <2>1, <2>2, <2>3 DEF CacheLoadsOK
<1>13. CacheOK(op, d) /\ CacheOK(o2, d)
  <2>1. \A j \in StoreQueue : o2[j] = op[j] /\ (op[j].memprogress = InCache => \E e \in DOMAIN d : d[e] = j)
    BY <1>1, <1>2, <1>10, <1>11 DEF CacheOK
  <2> QED BY <1>11, <1>12, <2>1 DEF CacheOK
<1>14. CacheLoadsOK(op, d) /\ CacheLoadsOK(o2, d)
  <2>1. CacheLoadsOK(op, d)
    BY <1>12 DEF CacheLoadsOK
  <2>2. \A j \in StoreQueue : o2[j] = op[j]
    BY <1>2, <1>10
  <2>3. ASSUME NEW e, Saw(op, e, op[e].vsbfwd), o2[e] = op[e] PROVE Saw(o2, e, o2[e].vsbfwd)
    BY <2>2, <2>3 DEF Saw, Older
  <2> QED BY <1>12, <2>1, <2>3 DEF CacheLoadsOK
<1>15. UnitOK(op, d, n)
  BY <1>1, <1>13, <1>14 DEF UnitOK
<1>16. LoadsMove(op, o2)
  <2>1. \A j \in Tags \ LoadQueue : o2[j] = op[j]
    BY <1>2, <1>10
  <2>2. ASSUME NEW j \in LoadQueue
        PROVE  o2[j].flag # "SERIALIZE" /\ (o2[j].done \/ (o2[j].memprogress = 0 => o2[j].limbo = 0))
    <3>1. CASE j = i
      BY <1>9, <1>10, <3>1
    <3>2. CASE j # i
      <4>1. o2[j] = op[j] /\ ~op[j].done /\ (op[j].memprogress = 0 => op[j].limbo = 0) /\ j \in Listed
        BY <1>1, <1>2, <1>10, <3>2 DEF LoadsOK
      <4> QED BY <1>1, <4>1 DEF ListOK
    <3> QED BY <3>1, <3>2
  <2> QED BY <1>10, <2>1, <2>2 DEF LoadsMove
<1>17. \A e \in DOMAIN d : d[e] \in LoadQueue => ~o2[d[e]].done
  BY <1>1, <1>12 DEF LoadsOK
<1>18. op' = o2 /\ StoreQueue' = StoreQueue
  BY <1>2, <1>3 DEF o2
<1>19. UnreadyOK(op)'
  <2>1. \A j \in ambig_st_tags : j \in Tags \ {i}
    BY <1>1, <1>2 DEF QueueTypes
  <2>2. \A j \in StoreQueue : j \in Tags \ {i}
    BY <1>2
  <2> QED BY <1>1, <1>3, <1>10, <1>18, <2>1, <2>2 DEF UnreadyOK
<1> HIDE DEF x, i, n
<1> QED BY <1>1, <1>3, <1>13, <1>14, <1>15, <1>16, <1>17, <1>18, <1>19, LoadsSettle

\* The cache performs a store: it is the youngest performed store of each of its bytes.
LEMMA PerformStore ==
  ASSUME IInv, NEW k \in DOMAIN dcache, Perform(k), NEW i, i = dcache[k], ~IsLoad(i)
  PROVE  IInv'
<1> DEFINE x == op[i]
           Load == [b \in prog[i].bytes |-> memory[b]]
           new == IF IsRMW(i) THEN [x EXCEPT !.val = Load, !.memprogress = 1, !.done = TRUE]
                  ELSE [x EXCEPT !.memprogress = 1]
           d == RemoveAt(dcache, k)
           n == ReadyUnissuedStores
           o2 == [op EXCEPT ![i] = new]
           S2 == StoreQueue \ {i}
<1>1. /\ QueueTypes /\ MemoryOK /\ ListOK(op) /\ UnreadyOK(op) /\ OpType(op) /\ StoresOK(op) /\ LoadsOK(op)
      /\ CacheOK(op, dcache) /\ CacheLoadsOK(op, dcache) /\ Counted(op, n)
  BY DEF IInv, UnitOK
<1>2. /\ i \in StoreQueue /\ i \in Tags /\ i \in Listed /\ IsStore(i) /\ x \in Instances /\ x.memprogress = InCache
      /\ x.mem_ready /\ LoadQueue \subseteq Listed /\ Listed \subseteq Tags /\ StoreQueue \subseteq Listed
      /\ (\A j \in LoadQueue : j # i) /\ head \in Nat /\ next \in Nat /\ Listed \subseteq Nat
  <2>1. i \in LoadQueue \cup StoreQueue /\ x.memprogress = InCache
    BY <1>1 DEF CacheOK
  <2>2. i \in StoreQueue /\ LoadQueue \subseteq Listed /\ Listed \subseteq Tags /\ StoreQueue \subseteq Listed
        /\ IsStore(i) /\ (\A j \in LoadQueue : j # i) /\ head \in Nat /\ next \in Nat
    BY <1>1, <2>1, Places
  <2>3. x \in Instances /\ i \in Listed /\ Listed \subseteq Nat
    <3>1. i \in Listed /\ i \in Tags /\ Listed \subseteq Nat
      BY <2>2 DEF Listed
    <3> QED BY <1>1, <3>1 DEF OpType
  <2>4. x.mem_ready
    BY <1>1, <2>1, <2>2, <2>3 DEF StoresOK, InCache
  <2> QED BY <2>1, <2>2, <2>3, <2>4
<1>3. /\ op' = o2 /\ dcache' = d /\ ReadyUnissuedStores' = n
      /\ LoadQueue' = StillQueued(op') /\ StoreQueue' = S2
      /\ memory' = [b \in Bytes |-> IF b \in prog[i].bytes THEN i ELSE memory[b]]
      /\ \A e \in 1 .. k - 1 : ~Overlap(dcache[e], i)
      /\ prog' = prog /\ head' = head /\ next' = next /\ ambig_st_tags' = ambig_st_tags
      /\ membar_tags' = membar_tags /\ in_exception' = in_exception
  <2> DEFINE c == CASE IsLoad(i) -> CompleteLoad([op EXCEPT ![i] =
                          IF x.vsbfwd # 0 THEN [x EXCEPT !.memprogress = x.vsbfwd, !.vsbfwd = 0]
                          ELSE [x EXCEPT !.val = Load]], i)
                    [] IsRMW(i) -> [x EXCEPT !.val = Load, !.memprogress = 1, !.done = TRUE]
                    [] OTHER -> [x EXCEPT !.memprogress = 1]
  <2>2. /\ op' = [op EXCEPT ![i] = c] /\ dcache' = d /\ ReadyUnissuedStores' = n
        /\ LoadQueue' = StillQueued(op') /\ StoreQueue' = S2
        /\ memory' = IF IsStore(i) THEN [b \in Bytes |-> IF b \in prog[i].bytes THEN i ELSE memory[b]]
                     ELSE memory
        /\ \A e \in 1 .. k - 1 : ~Overlap(dcache[e], i)
        /\ prog' = prog /\ head' = head /\ next' = next /\ ambig_st_tags' = ambig_st_tags
        /\ membar_tags' = membar_tags /\ in_exception' = in_exception
    BY Zenon DEF Perform
  <2>3. ~IsLoad(i)
    OBVIOUS
  <2> HIDE DEF x, Load
  <2>4. c = new
    BY <2>3
  <2> HIDE DEF c, d, n, new, S2
  <2> QED BY <1>2, <2>2, <2>4
<1>4. /\ new \in Instances /\ new.addr_ready = x.addr_ready /\ new.mem_ready = x.mem_ready
      /\ new.flag = x.flag /\ new.memprogress = 1 /\ (x.done => new.done)
  <2>1. Load \in Values
    <3>1. prog[i].bytes \in SUBSET Bytes
      BY <1>1, <1>2, BytesOf
    <3>2. memory \in [Bytes -> {None} \cup Tags]
      BY <1>1 DEF QueueTypes
    <3>3. Load \in [prog[i].bytes -> {None} \cup Tags]
      BY <3>1, <3>2
    <3> HIDE DEF Load
    <3> QED BY <3>1, <3>3 DEF Values
  <2> HIDE DEF Load
  <2>2. CASE IsRMW(i)
    <3> DEFINE z == [x EXCEPT !.val = Load]
               y == [z EXCEPT !.memprogress = 1]
    <3>1. new = [y EXCEPT !.done = TRUE]
      BY <2>2
    <3>3. x \in Instances
      BY <1>2
    <3> HIDE DEF new, x
    <3>2. /\ y \in Instances /\ y.addr_ready = x.addr_ready /\ y.mem_ready = x.mem_ready
          /\ y.flag = x.flag /\ y.memprogress = 1 /\ y.done = x.done
      <4>1. z \in Instances /\ z.addr_ready = x.addr_ready /\ z.mem_ready = x.mem_ready
            /\ z.flag = x.flag /\ z.done = x.done
        BY <2>1, <3>3 DEF Instances
      <4> HIDE DEF z
      <4> QED BY <4>1 DEF Instances
    <3> HIDE DEF y
    <3> QED BY <3>1, <3>2 DEF Instances
  <2>3. CASE ~IsRMW(i)
    <3>1. new = [x EXCEPT !.memprogress = 1]
      BY <2>3
    <3>2. x \in Instances
      BY <1>2
    <3> HIDE DEF new, x
    <3> QED BY <3>1, <3>2 DEF Instances
  <2> QED BY <2>2, <2>3
<1> HIDE DEF new
<1>20. /\ op[i] \in Instances /\ op[i].memprogress = InCache /\ op[i].mem_ready
       /\ new.addr_ready = op[i].addr_ready /\ new.mem_ready = op[i].mem_ready
       /\ new.flag = op[i].flag /\ (op[i].done => new.done)
  BY <1>2, <1>4
<1> HIDE DEF x
<1>5. OpType(o2) /\ o2[i] = new /\ \A j \in Tags \ {i} : o2[j] = op[j]
  BY <1>1, <1>2, <1>4 DEF OpType
<1>6. \A j \in Tags : /\ o2[j].addr_ready = op[j].addr_ready /\ o2[j].mem_ready = op[j].mem_ready
                      /\ o2[j].flag = op[j].flag /\ (op[j].done => o2[j].done)
                      /\ o2[j].memprogress = IF j = i THEN 1 ELSE op[j].memprogress
  <2> HIDE DEF o2
  <2>1. /\ o2[i].addr_ready = op[i].addr_ready /\ o2[i].mem_ready = op[i].mem_ready
        /\ o2[i].flag = op[i].flag /\ (op[i].done => o2[i].done) /\ o2[i].memprogress = 1
    BY <1>4, <1>5, <1>20
  <2> QED BY <1>5, <2>1
<1>7. /\ d \in Seq(Tags)
      /\ \A e \in DOMAIN d : d[e] # i /\ \E g \in DOMAIN dcache : dcache[g] = d[e]
      /\ \A e, f \in DOMAIN d : e < f =>
           d[e] # d[f] /\ (IsStore(d[e]) /\ IsStore(d[f]) /\ Overlap(d[e], d[f]) => d[e] < d[f])
      /\ \A g \in DOMAIN dcache : dcache[g] # i => \E e \in DOMAIN d : d[e] = dcache[g]
  <2> HIDE DEF d
  <2> QED BY <1>1, <1>20, RequestLeaves DEF d
\* No older store that overlaps it is in the cache, nor waits to be issued.
<1>8. ASSUME NEW j \in 1 .. i - 1, IsStore(j), Overlap(j, i) PROVE op[j].memprogress = 1
  <2>1. j \in Listed /\ j \in Nat /\ i \in Nat /\ j < i
    BY <1>2 DEF Listed
  <2>2. op[j].memprogress \in {0, InCache, 1} /\ (j \in StoreQueue <=> op[j].memprogress # 1)
    BY <1>1, <1>8, <2>1 DEF StoresOK
  <2>3. op[j].memprogress # 0
    BY <1>1, <1>2, <1>8, <1>20 DEF StoresOK, InCache
  <2>4. CASE op[j].memprogress = InCache
    <3>1. PICK e \in DOMAIN dcache : dcache[e] = j
      BY <1>1, <2>2, <2>4 DEF CacheOK, InCache
    <3>2. e \in Nat /\ k \in Nat /\ e # k /\ 1 <= e
      BY <1>1, <2>1, <3>1 DEF CacheOK
    <3>3. ~(k < e)
      <4>1. Overlap(i, j)
        BY <1>8 DEF Overlap
      <4>2. k < e => i < j
        BY <1>1, <1>2, <1>8, <3>1, <4>1 DEF CacheOK
      <4> QED BY <2>1, <4>2
    <3>4. e \in 1 .. k - 1
      BY <3>2, <3>3
    <3> QED BY <1>3, <1>8, <3>1, <3>4
  <2> QED BY <2>2, <2>3, <2>4
<1> HIDE DEF d, o2
<1>9. StoresOK(op)'
  <2> SUFFICES ASSUME NEW j \in Listed, IsStore(j)
               PROVE  /\ o2[j].flag = "OK" /\ o2[j].memprogress \in {0, InCache, 1}
                      /\ o2[j].memprogress # 0 => o2[j].mem_ready
                      /\ j \in S2 <=> o2[j].memprogress # 1
                      /\ o2[j].mem_ready =>
                           \A e \in 1 .. j - 1 : o2[e].done /\ (e >= head => o2[e].flag = "OK")
                      /\ \A e \in 1 .. j - 1 : IsStore(e) /\ Overlap(e, j) =>
                           /\ o2[j].memprogress # 0 => o2[e].memprogress # 0
                           /\ o2[j].memprogress = 1 => o2[e].memprogress = 1
    BY <1>3, SameProgram DEF StoresOK, Listed, InCache
  <2>1. j \in Tags /\ \A e \in 1 .. j - 1 : e \in Tags /\ e \in Listed
    BY <1>2 DEF Listed
  <2>2. /\ op[j].flag = "OK" /\ op[j].memprogress \in {0, InCache, 1}
        /\ op[j].memprogress # 0 => op[j].mem_ready
        /\ j \in StoreQueue <=> op[j].memprogress # 1
        /\ op[j].mem_ready =>
             \A e \in 1 .. j - 1 : op[e].done /\ (e >= head => op[e].flag = "OK")
        /\ \A e \in 1 .. j - 1 : IsStore(e) /\ Overlap(e, j) =>
             /\ op[j].memprogress # 0 => op[e].memprogress # 0
             /\ op[j].memprogress = 1 => op[e].memprogress = 1
    BY <1>1 DEF StoresOK
  <2>3. o2[j].mem_ready => \A e \in 1 .. j - 1 : o2[e].done /\ (e >= head => o2[e].flag = "OK")
    BY <1>6, <2>1, <2>2
  <2>4. ASSUME NEW e \in 1 .. j - 1, IsStore(e), Overlap(e, j)
        PROVE  /\ o2[j].memprogress # 0 => o2[e].memprogress # 0
               /\ o2[j].memprogress = 1 => o2[e].memprogress = 1
    <3>1. CASE j = i
      BY <1>2, <1>6, <1>8, <2>1, <2>4, <3>1
    <3>2. CASE j # i
      BY <1>6, <2>1, <2>2, <2>4, <3>2
    <3> QED BY <3>1, <3>2
  <2>5. j \in S2 <=> o2[j].memprogress # 1
    BY <1>2, <1>6, <2>1, <2>2
  <2>6. o2[j].flag = "OK" /\ o2[j].memprogress \in {0, InCache, 1} /\ (o2[j].memprogress # 0 => o2[j].mem_ready)
    <3>1. CASE j = i
      BY <1>2, <1>6, <1>20, <2>1, <2>2, <3>1
    <3>2. CASE j # i
      BY <1>6, <2>1, <2>2, <3>2
    <3> QED BY <3>1, <3>2
  <2> QED BY <2>3, <2>4, <2>5, <2>6
<1>10. LoadQueue' = LoadQueue
  <2>1. \A j \in LoadQueue : ~o2[j].done
    BY <1>1, <1>2, <1>5 DEF LoadsOK
  <2> QED BY <1>3, <2>1 DEF StillQueued
<1>11. QueueTypes'
  <2>1. i \notin ambig_st_tags
    BY <1>1, <1>2, <1>20 DEF UnreadyOK
  <2>2. /\ prog' \in Programs /\ head' \in 1 .. next' /\ next' \in 1 .. Len(prog') + 1
        /\ ambig_st_tags' \subseteq StoreQueue'
    BY <1>1, <1>3, <2>1 DEF QueueTypes
  <2>3. \A j \in LoadQueue' : j \in head' .. next' - 1 /\ IsLoad(j)'
    BY <1>1, <1>3, <1>10, SameProgram DEF QueueTypes
  <2>4. \A j \in StoreQueue' : j \in Listed' /\ IsStore(j)'
    BY <1>1, <1>3, SameProgram DEF QueueTypes, Listed
  <2>5. \A j \in membar_tags' : j \in Listed' /\ Membar(j)'
    BY <1>1, <1>3, SameProgram DEF QueueTypes, Listed
  <2>6. memory' \in [Bytes -> {None'} \cup Tags']
    <3>1. memory \in [Bytes -> {None} \cup Tags]
      BY <1>1 DEF QueueTypes
    <3>2. memory' \in [Bytes -> {None} \cup Tags]
      BY <1>2, <1>3, <3>1
    <3> QED BY <1>3, <3>2, SameProgram DEF None
  <2> QED BY <2>2, <2>3, <2>4, <2>5, <2>6 DEF QueueTypes
<1>12. ListOK(op)'
  <2>1. \A j \in 1 .. head - 1 : o2[j].done
    <3>1. \A j \in 1 .. head - 1 : j \in Tags /\ op[j].done
      BY <1>1, <1>2 DEF ListOK, QueueTypes, Listed
    <3> QED BY <1>6, <3>1
  <2>2. \A j \in Listed : o2[j].flag = "SERIALIZE" => o2[j].done
    BY <1>1, <1>2, <1>6 DEF ListOK
  <2>3. ASSUME in_exception # None PROVE in_exception = head /\ head < next /\ o2[head].flag = "SERIALIZE"
    <3>1. in_exception = head /\ head < next /\ op[head].flag = "SERIALIZE"
      BY <1>1, <2>3 DEF ListOK
    <3>2. head \in Tags
      BY <1>1, <1>2, <3>1 DEF Listed, QueueTypes
    <3> QED BY <1>6, <3>1, <3>2
  <2> QED BY <1>3, <2>1, <2>2, <2>3 DEF ListOK, Listed, None
<1>13. OpType(op)' /\ LoadsOK(op)'
  <2>1. OpType(op)'
    BY <1>3, <1>5, SameProgram DEF OpType
  <2>2. LoadsOK(op)'
    BY <1>1, <1>2, <1>3, <1>5, <1>10 DEF LoadsOK
  <2> QED BY <2>1, <2>2
<1>21. PICK r : r = d
  OBVIOUS
<1>22. /\ r \in Seq(Tags)
       /\ \A e \in DOMAIN r : r[e] # i /\ \E g \in DOMAIN dcache : dcache[g] = r[e]
       /\ \A e, f \in DOMAIN r : e < f =>
            r[e] # r[f] /\ (IsStore(r[e]) /\ IsStore(r[f]) /\ Overlap(r[e], r[f]) => r[e] < r[f])
       /\ \A g \in DOMAIN dcache : dcache[g] # i => \E e \in DOMAIN r : r[e] = dcache[g]
  BY <1>7, <1>21
<1>14. \A e \in DOMAIN r : /\ r[e] \in LoadQueue \cup S2 /\ o2[r[e]] = op[r[e]]
                          /\ op[r[e]].memprogress = InCache
                          /\ (IsLoad(r[e]) => op[r[e]].limbo = 0
                               /\ (op[r[e]].exception_code = "OK" => Saw(op, r[e], op[r[e]].vsbfwd)))
  <2> SUFFICES ASSUME NEW e \in DOMAIN r
               PROVE  /\ r[e] \in LoadQueue \cup S2 /\ o2[r[e]] = op[r[e]]
                      /\ op[r[e]].memprogress = InCache
                      /\ (IsLoad(r[e]) => op[r[e]].limbo = 0
                               /\ (op[r[e]].exception_code = "OK" => Saw(op, r[e], op[r[e]].vsbfwd)))
    OBVIOUS
  <2>1. PICK g \in DOMAIN dcache : dcache[g] = r[e]
    BY <1>22
  <2>2. r[e] \in LoadQueue \cup S2 /\ op[r[e]].memprogress = InCache
    BY <1>1, <1>22, <2>1 DEF CacheOK
  <2>3. r[e] \in Tags \ {i}
    BY <1>2, <1>22, <2>2
  <2> QED BY <1>1, <1>5, <2>1, <2>2, <2>3 DEF CacheLoadsOK
<1>15. CacheOK(op, dcache)'
  <2>1. \A j \in S2 : o2[j].memprogress = InCache => \E e \in DOMAIN r : r[e] = j
    <3> SUFFICES ASSUME NEW j \in StoreQueue, j # i, o2[j].memprogress = InCache
                 PROVE  \E e \in DOMAIN r : r[e] = j
      OBVIOUS
    <3>1. op[j].memprogress = InCache
      BY <1>2, <1>5
    <3>2. PICK g \in DOMAIN dcache : dcache[g] = j
      BY <1>1, <3>1 DEF CacheOK
    <3> QED BY <1>22, <3>2
  <2>2. r \in Seq(Tags') /\ \A e \in DOMAIN r : r[e] \in LoadQueue' \cup S2 /\ o2[r[e]].memprogress = InCache
    BY <1>3, <1>21, <1>22, <1>10, <1>14, SameProgram
  <2>3. \A e, f \in DOMAIN r : e < f => r[e] # r[f]
               /\ (IsStore(r[e])' /\ IsStore(r[f])' /\ Overlap(r[e], r[f])' => r[e] < r[f])
    BY <1>3, <1>21, <1>22, SameProgram
  <2> QED BY <1>3, <1>21, <2>1, <2>2, <2>3 DEF CacheOK, InCache
<1>16. CacheLoadsOK(op, dcache)'
  <2>1. ASSUME NEW e \in DOMAIN r, IsLoad(r[e])
        PROVE  /\ o2[r[e]].limbo = 0
               /\ o2[r[e]].exception_code = "OK" =>
                    \A j \in S2 : j < r[e] /\ o2[j].addr_ready /\ Overlap(r[e], j) =>
                      j \in o2[r[e]].seen \/ (o2[r[e]].vsbfwd # 0 /\ o2[r[e]].vsbfwd <= Mark(j))
    <3>1. \A j \in S2 : j \in Tags \ {i} /\ o2[j] = op[j]
      BY <1>2, <1>5
    <3> QED BY <1>14, <2>1, <3>1 DEF Saw, Older
  <2>2. \A e \in DOMAIN r : IsLoad(r[e])' = IsLoad(r[e]) /\ \A j \in S2 : Overlap(r[e], j)' = Overlap(r[e], j)
    BY <1>3, <1>21, SameProgram
  <2> QED BY <1>3, <1>21, <2>1, <2>2 DEF CacheLoadsOK, Saw, Older, Mark
<1>17. Counted(op, ReadyUnissuedStores)'
  <2>1. ASSUME NEW j \in StoreQueue
        PROVE  j \in S2 /\ o2[j].mem_ready /\ o2[j].memprogress = 0 <=> op[j].mem_ready /\ op[j].memprogress = 0
    BY <1>2, <1>6, <1>20 DEF InCache
  <2>2. Unissued(op)' = Unissued(op)
    BY <1>3, <2>1 DEF Unissued
  <2> QED BY <1>1, <1>3, <2>2 DEF Counted
<1>18. UnreadyOK(op)'
  <2>1. \A j \in ambig_st_tags : j \in Tags
    BY <1>1, <1>2 DEF QueueTypes
  <2>2. \A j \in S2 : j \in Tags \ {i} /\ j \in StoreQueue
    BY <1>2
  <2> QED BY <1>1, <1>3, <1>5, <1>6, <2>1, <2>2 DEF UnreadyOK
<1>19. MemoryOK'
  <2> SUFFICES ASSUME NEW b \in Bytes PROVE memory'[b] = MaxOf(Written(b, op, next)')
    BY DEF MemoryOK, MaxOf, None
  <2> DEFINE W == Written(b, op, next)
             W2 == {j \in Listed : o2[j].memprogress = 1 /\ IsStore(j) /\ b \in prog[j].bytes}
  <2>1. Written(b, op, next)' = W2
    BY <1>3 DEF Written, IsStore, Listed
  <2>2. memory[b] = MaxOf(W)
    BY <1>1 DEF MemoryOK
  <2>3. CASE b \in prog[i].bytes
    <3>1. i \in W2
      BY <1>2, <1>6, <2>3
    <3>2. ASSUME NEW j \in W2 PROVE j <= i
      <4>1. j \in Listed /\ IsStore(j) /\ b \in prog[j].bytes /\ (j = i \/ op[j].memprogress = 1)
        BY <1>2, <1>6
      <4>2. CASE j > i
        <5>1. i \in 1 .. j - 1 /\ Overlap(i, j)
          BY <1>2, <2>3, <4>1, <4>2 DEF Overlap, Listed
        <5>2. op[i].memprogress = 1
          BY <1>1, <1>2, <4>1, <4>2, <5>1 DEF StoresOK
        <5> QED BY <1>20, <5>2 DEF InCache
      <4> QED BY <1>2, <4>1, <4>2
    <3>3. W2 \subseteq Nat
      BY <1>2
    <3> HIDE DEF W2
    <3>4. MaxOf(W2) = i
      BY <3>1, <3>2, <3>3, MaxOfIs
    <3> QED BY <1>3, <2>1, <2>3, <3>4
  <2>4. CASE b \notin prog[i].bytes
    <3>1. W2 = W
      BY <1>2, <1>6, <2>4 DEF Written, Listed
    <3> HIDE DEF W, W2
    <3> QED BY <1>3, <2>1, <2>2, <2>4, <3>1
  <2> QED BY <2>3, <2>4
<1> QED BY <1>9, <1>11, <1>12, <1>13, <1>15, <1>16, <1>17, <1>18, <1>19 DEF IInv, UnitOK

-----------------------------------------------------------------------------
\* A flag for a soft exception, and the end of a load
LEMMA SoftLimboIs ==
  ASSUME NEW x \in Instances, NEW y, y = SoftLimbo(x)
  PROVE  /\ y \in Instances /\ y.memprogress = x.memprogress /\ y.limbo = x.limbo
         /\ y.done = x.done /\ y.vsbfwd = x.vsbfwd /\ y.seen = x.seen
         /\ y.flag \in {x.flag, "SOFT_LIMBO"} /\ y.exception_code = "SOFT_LIMBO"
<1>1. CASE x.exception_code = "OK"
  <2>1. y = [x EXCEPT !.exception_code = "SOFT_LIMBO", !.flag = "SOFT_LIMBO"]
    BY <1>1 DEF SoftLimbo
  <2> QED BY <2>1 DEF Instances
<1>2. CASE x.exception_code # "OK"
  <2>1. y = x
    BY <1>2 DEF SoftLimbo
  <2> QED BY <1>2, <2>1 DEF Instances
<1> QED BY <1>1, <1>2

LEMMA DoneWithIs ==
  ASSUME NEW x \in Instances, NEW y, y = DoneWith(x)
  PROVE  y \in Instances /\ y.done /\ y.flag \in {"OK", "SOFT_LIMBO"}
<1>1. y = [x EXCEPT !.done = TRUE, !.flag = x.exception_code] /\ x.exception_code \in {"OK", "SOFT_LIMBO"}
  BY DEF DoneWith, Instances
<1> QED BY <1>1 DEF Instances

\* What the address of a store makes of a younger load
LEMMA DisambiguatedIs ==
  ASSUME NEW i, NEW st, NEW lowambig \in Nat, st \in Nat, op[i] \in Instances, ~op[i].done,
         op[i].memprogress = 0 => op[i].limbo = 0, op[i].flag # "SERIALIZE",
         NEW y, y = Disambiguated(i, st, lowambig)
  PROVE  /\ y \in Instances /\ y.flag # "SERIALIZE" /\ (y.done \/ (y.memprogress = 0 => y.limbo = 0))
         /\ op[i].limbo = 0 =>
              /\ y.memprogress = op[i].memprogress /\ y.limbo = 0 /\ ~y.done /\ y.vsbfwd = op[i].vsbfwd
              /\ y.seen = op[i].seen
              /\ y.exception_code = "OK" => /\ op[i].exception_code = "OK"
                                            /\ ~(op[i].memprogress < 0 /\ Overlap(i, st))
<1> DEFINE x == op[i]
           drop == [x EXCEPT !.limbo = @ - 1]
           less == [x EXCEPT !.limbo = @ - 1, !.memprogress = IF lowambig > i \/ x.limbo = 1 THEN 1 ELSE @]
<1>1. y = CASE x.limbo # 0 /\ Overlap(i, st) -> DoneWith(SoftLimbo(drop))
            [] x.limbo # 0 /\ ~Overlap(i, st) -> IF less.limbo = 0 THEN DoneWith(less) ELSE less
            [] OTHER -> IF x.memprogress < 0 /\ Overlap(i, st) THEN SoftLimbo(x) ELSE x
  BY Zenon DEF Disambiguated
<1>2. x \in Instances /\ ~x.done /\ (x.memprogress = 0 => x.limbo = 0) /\ x.flag # "SERIALIZE"
  OBVIOUS
<1>3. x.limbo \in Int /\ x.memprogress \in Int /\ x.flag \in {"OK", "SOFT_LIMBO", "SERIALIZE"}
  BY <1>2 DEF Instances
<1> HIDE DEF x
<1>4. CASE x.limbo # 0 /\ Overlap(i, st)
  <2>1. drop \in Instances
    BY <1>2, <1>3 DEF Instances
  <2>2. y = DoneWith(SoftLimbo(drop))
    BY <1>1, <1>4
  <2> HIDE DEF drop
  <2>3. SoftLimbo(drop) \in Instances
    BY <2>1, SoftLimboIs
  <2> QED BY <1>4, <2>2, <2>3, DoneWithIs DEF x
<1>5. CASE x.limbo # 0 /\ ~Overlap(i, st)
  <2>1. less = [x EXCEPT !.limbo = x.limbo - 1,
                         !.memprogress = IF lowambig > i \/ x.limbo = 1 THEN 1 ELSE x.memprogress]
    OBVIOUS
  <2> HIDE DEF less
  <2> DEFINE m == IF lowambig > i \/ x.limbo = 1 THEN 1 ELSE x.memprogress
             z == [x EXCEPT !.limbo = x.limbo - 1]
  <2>5. z \in Instances /\ z.limbo = x.limbo - 1 /\ z.flag = x.flag /\ less = [z EXCEPT !.memprogress = m]
    BY <1>2, <1>3, <2>1 DEF Instances
  <2>6. m \in {1, x.memprogress} /\ m \in Int
    BY <1>3
  <2> HIDE DEF m, z
  <2>2. /\ less \in Instances /\ less.limbo = x.limbo - 1 /\ less.flag = x.flag
        /\ less.memprogress \in {1, x.memprogress}
    BY <2>5, <2>6 DEF Instances
  <2>3. CASE less.limbo = 0
    <3>1. y = DoneWith(less)
      BY <1>1, <1>5, <2>3
    <3> QED BY <1>5, <2>2, <3>1, DoneWithIs DEF x
  <2>4. CASE less.limbo # 0
    <3>1. y = less
      BY <1>1, <1>5, <2>4
    <3> QED BY <1>2, <1>5, <2>2, <3>1 DEF x
  <2> QED BY <2>3, <2>4
<1>6. CASE x.limbo = 0 /\ x.memprogress < 0 /\ Overlap(i, st)
  <2>1. y = SoftLimbo(x)
    BY <1>1, <1>6
  <2>2. /\ y \in Instances /\ y.memprogress = x.memprogress /\ y.limbo = x.limbo
        /\ y.done = x.done /\ y.vsbfwd = x.vsbfwd /\ y.seen = x.seen
        /\ y.flag \in {x.flag, "SOFT_LIMBO"} /\ y.exception_code = "SOFT_LIMBO"
    BY <1>2, <2>1, SoftLimboIs
  <2> QED BY <1>2, <1>6, <2>2 DEF x
<1>7. CASE x.limbo = 0 /\ ~(x.memprogress < 0 /\ Overlap(i, st))
  <2>1. y = x
    BY <1>1, <1>7
  <2> QED BY <1>2, <1>7, <2>1 DEF x
<1> QED BY <1>4, <1>5, <1>6, <1>7

\* An address becomes known.
LEMMA DisambiguateKeeps ==
  ASSUME IInv, NEW i \in Tags, Disambiguate(i)
  PROVE  IInv'
<1> DEFINE younger == {j \in LoadQueue : j > i /\ IsStore(i)}
           known == [op[i] EXCEPT !.addr_ready = TRUE]
           lowambig == MinOf(ambig_st_tags')
           o2 == [j \in Tags |-> IF j = i THEN known
                                 ELSE IF j \in younger THEN Disambiguated(j, i, lowambig) ELSE op[j]]
           n == ReadyUnissuedStores
<1>1. /\ QueueTypes /\ MemoryOK /\ ListOK(op) /\ UnreadyOK(op) /\ UnitOK(op, dcache, n)
      /\ OpType(op) /\ LoadsOK(op) /\ CacheOK(op, dcache) /\ CacheLoadsOK(op, dcache)
  BY DEF IInv, UnitOK
<1>2. /\ LoadQueue \subseteq Listed /\ Listed \subseteq Tags /\ StoreQueue \subseteq Tags /\ Tags \subseteq Nat
      /\ (\A j \in StoreQueue : j \notin LoadQueue /\ IsStore(j))
      /\ (\A j \in LoadQueue : IsLoad(j) /\ ~IsStore(j)) /\ i \in Nat /\ Len(prog) \in Nat
  BY <1>1, Places
<1>3. /\ op' = o2 /\ ambig_st_tags' = ambig_st_tags \ {i} /\ LoadQueue' = StillQueued(op')
      /\ UNCHANGED <<prog, head, next, StoreQueue, membar_tags, ReadyUnissuedStores, in_exception, memory>>
      /\ dcache' = dcache /\ ReadyUnissuedStores' = n /\ i \in LoadQueue \cup StoreQueue
  BY DEF Disambiguate
<1>4. lowambig \in Nat
  <2>1. ambig_st_tags' \in SUBSET Nat
    BY <1>1, <1>2, <1>3 DEF QueueTypes
  <2> DEFINE Q == ambig_st_tags'
  <2>2. Q \in SUBSET Nat
    BY <2>1
  <2> HIDE DEF Q
  <2>3. MinOf(Q) \in Nat
    <3>1. IF Q = {} THEN MinOf(Q) = NoMembar ELSE MinOf(Q) \in Q /\ \A j \in Q : MinOf(Q) <= j
      BY <2>2, MinOfIs
    <3>2. NoMembar \in Nat
      BY <1>2 DEF NoMembar
    <3> QED BY <2>2, <3>1, <3>2
  <2>4. NoMembar' = NoMembar
    BY <1>3 DEF NoMembar
  <2> QED BY <2>3 DEF Q
<1> HIDE DEF lowambig
<1>5. /\ known \in Instances /\ known.mem_ready = op[i].mem_ready /\ known.memprogress = op[i].memprogress
      /\ known.done = op[i].done /\ known.flag = op[i].flag /\ known.limbo = op[i].limbo
      /\ known.exception_code = op[i].exception_code /\ known.seen = op[i].seen
      /\ known.vsbfwd = op[i].vsbfwd
  <2>1. op[i] \in Instances
    BY <1>1 DEF OpType
  <2> QED BY <2>1 DEF Instances
<1> HIDE DEF known
<1>6. \A j \in LoadQueue : /\ op[j] \in Instances /\ ~op[j].done /\ op[j].flag # "SERIALIZE"
                           /\ (op[j].memprogress = 0 => op[j].limbo = 0)
  BY <1>1, <1>2 DEF LoadsOK, ListOK, OpType
<1>7. ASSUME NEW j \in younger
      PROVE  LET y == Disambiguated(j, i, lowambig) IN
             /\ y \in Instances /\ y.flag # "SERIALIZE" /\ (y.done \/ (y.memprogress = 0 => y.limbo = 0))
             /\ op[j].limbo = 0 =>
                  /\ y.memprogress = op[j].memprogress /\ y.limbo = 0 /\ ~y.done /\ y.vsbfwd = op[j].vsbfwd
                  /\ y.seen = op[j].seen
                  /\ y.exception_code = "OK" => /\ op[j].exception_code = "OK"
                                                /\ ~(op[j].memprogress < 0 /\ Overlap(j, i))
  BY <1>2, <1>4, <1>6, DisambiguatedIs
<1>8. \A j \in Tags : o2[j] = IF j = i THEN known
                              ELSE IF j \in younger THEN Disambiguated(j, i, lowambig) ELSE op[j]
  OBVIOUS
<1>9. OpType(o2)
  <2>1. ASSUME NEW j \in Tags PROVE (IF j = i THEN known
                 ELSE IF j \in younger THEN Disambiguated(j, i, lowambig) ELSE op[j]) \in Instances
    <3>1. op[j] \in Instances
      BY <1>1 DEF OpType
    <3> HIDE DEF younger
    <3> QED BY <1>5, <1>7, <3>1
  <2> HIDE DEF younger
  <2> QED BY <2>1 DEF OpType
<1>10. \A j \in younger : j \in LoadQueue /\ IsStore(i) /\ j # i /\ j > i
  BY <1>2
<1>11. i \in LoadQueue => younger = {}
  BY <1>2
<1>12. IsStore(i) => \A j \in LoadQueue : j > i => j \in younger
  OBVIOUS
<1> HIDE DEF younger, o2
<1>13. LoadsMove(op, o2)
  <2>1. ASSUME NEW j \in Tags \ LoadQueue
        PROVE  /\ o2[j].mem_ready = op[j].mem_ready /\ o2[j].memprogress = op[j].memprogress
               /\ o2[j].done = op[j].done /\ o2[j].flag = op[j].flag
    BY <1>5, <1>8, <1>10
  <2>2. ASSUME NEW j \in LoadQueue
        PROVE  o2[j].flag # "SERIALIZE" /\ (o2[j].done \/ (o2[j].memprogress = 0 => o2[j].limbo = 0))
    BY <1>2, <1>5, <1>6, <1>7, <1>8
  <2> QED BY <1>9, <2>1, <2>2 DEF LoadsMove
\* A load that the cache holds is flagged when the store overlaps it.
<1>14. ASSUME NEW j \in LoadQueue, op[j].limbo = 0
       PROVE  /\ o2[j].memprogress = op[j].memprogress /\ o2[j].limbo = 0 /\ ~o2[j].done
              /\ o2[j].vsbfwd = op[j].vsbfwd /\ o2[j].seen = op[j].seen
              /\ o2[j].exception_code = "OK" =>
                   /\ op[j].exception_code = "OK"
                   /\ ~(IsStore(i) /\ j > i /\ op[j].memprogress < 0 /\ Overlap(j, i))
  <2>1. CASE j = i
    BY <1>2, <1>5, <1>6, <1>8, <1>14, <2>1
  <2>2. CASE j # i /\ j \in younger
    BY <1>2, <1>7, <1>8, <1>14, <2>2
  <2>3. CASE j # i /\ j \notin younger
    BY <1>2, <1>6, <1>8, <1>12, <1>14, <2>3
  <2> QED BY <2>1, <2>2, <2>3
<1>15. \A k \in DOMAIN dcache : dcache[k] \in LoadQueue => op[dcache[k]].limbo = 0 /\ IsLoad(dcache[k])
  BY <1>1, <1>2 DEF CacheLoadsOK
<1>16. \A j \in StoreQueue : o2[j].memprogress = op[j].memprogress /\ (j # i => o2[j] = op[j])
  BY <1>2, <1>5, <1>8, <1>10
<1>17. CacheOK(o2, dcache)
  <2>1. \A k \in DOMAIN dcache : o2[dcache[k]].memprogress = InCache
    BY <1>1, <1>14, <1>15, <1>16 DEF CacheOK
  <2> QED BY <1>1, <1>16, <2>1 DEF CacheOK
<1>18. CacheLoadsOK(o2, dcache)
  <2> SUFFICES ASSUME NEW k \in DOMAIN dcache, IsLoad(dcache[k])
               PROVE  /\ o2[dcache[k]].limbo = 0
                      /\ o2[dcache[k]].exception_code = "OK" => Saw(o2, dcache[k], o2[dcache[k]].vsbfwd)
    BY DEF CacheLoadsOK
  <2>1. PICK l : l = dcache[k]
    OBVIOUS
  <2>2. l \in LoadQueue /\ op[l].memprogress = InCache
    BY <1>1, <2>1, Places DEF CacheOK
  <2>3. op[l].limbo = 0 /\ (op[l].exception_code = "OK" => Saw(op, l, op[l].vsbfwd))
    BY <1>1, <2>1 DEF CacheLoadsOK
  <2>4. ASSUME o2[l].exception_code = "OK", NEW j \in Older(StoreQueue, l), o2[j].addr_ready, Overlap(l, j)
        PROVE  j \in o2[l].seen \/ (o2[l].vsbfwd # 0 /\ o2[l].vsbfwd <= Mark(j))
    <3>1. j \in StoreQueue /\ j < l /\ l \in Nat /\ j \in Nat /\ IsStore(j)
      BY <1>2, <2>2 DEF Older
    <3>2. j # i
      BY <1>14, <2>2, <2>3, <2>4, <3>1 DEF InCache
    <3>3. o2[j] = op[j]
      BY <1>16, <3>1, <3>2
    <3> QED BY <1>14, <2>2, <2>3, <2>4, <3>3 DEF Saw
  <2> QED BY <1>14, <2>1, <2>2, <2>3, <2>4 DEF Saw
<1>19. \A k \in DOMAIN dcache : dcache[k] \in LoadQueue => ~o2[dcache[k]].done
  BY <1>14, <1>15
<1>20. UnreadyOK(op)'
  <2>1. \A j \in ambig_st_tags' : j \in StoreQueue /\ j # i /\ ~op[j].addr_ready /\ ~op[j].mem_ready
    BY <1>1, <1>3 DEF UnreadyOK, QueueTypes
  <2>2. \A j \in StoreQueue : o2[j].done = op[j].done /\ o2[j].mem_ready = op[j].mem_ready
    BY <1>2, <1>5, <1>8, <1>10
  <2> QED BY <1>1, <1>3, <1>16, <2>1, <2>2 DEF UnreadyOK
<1>21. LoadQueue' = StillQueued(o2) /\ ambig_st_tags' \subseteq ambig_st_tags
  BY <1>3
<1> HIDE DEF n
<1> QED BY <1>1, <1>3, <1>13, <1>17, <1>18, <1>19, <1>20, <1>21, LoadsSettle

LEMMA OperandReadyKeeps ==
  ASSUME IInv, NEW i \in Tags, OperandReady(i)
  PROVE  IInv'
<1> DEFINE o2 == [op EXCEPT ![i].truedep = FALSE]
           y == [op[i] EXCEPT !.truedep = FALSE]
           n == ReadyUnissuedStores
<1>1. /\ QueueTypes /\ MemoryOK /\ ListOK(op) /\ UnreadyOK(op) /\ UnitOK(op, dcache, n)
      /\ OpType(op) /\ LoadsOK(op) /\ CacheOK(op, dcache) /\ CacheLoadsOK(op, dcache)
  BY DEF IInv, UnitOK
<1>2. /\ LoadQueue \subseteq Listed /\ Listed \subseteq Tags /\ StoreQueue \subseteq Tags
      /\ i \in StoreQueue /\ i \notin LoadQueue
  BY <1>1, Places DEF OperandReady
<1>3. /\ op' = o2 /\ ambig_st_tags' = ambig_st_tags /\ LoadQueue' = LoadQueue
      /\ UNCHANGED <<prog, head, next, StoreQueue, membar_tags, ReadyUnissuedStores, in_exception, memory>>
      /\ dcache' = dcache /\ ReadyUnissuedStores' = n
  BY DEF OperandReady, queues
<1>4. /\ y \in Instances /\ y.mem_ready = op[i].mem_ready /\ y.memprogress = op[i].memprogress
      /\ y.done = op[i].done /\ y.flag = op[i].flag /\ y.addr_ready = op[i].addr_ready
  <2>1. op[i] \in Instances
    BY <1>1 DEF OpType
  <2> QED BY <2>1 DEF Instances
<1>5. o2 = [op EXCEPT ![i] = y]
  OBVIOUS
<1> HIDE DEF o2, y
<1>6. OpType(o2) /\ o2[i] = y /\ \A j \in Tags \ {i} : o2[j] = op[j]
  BY <1>1, <1>4, <1>5 DEF OpType
<1>7. \A j \in Tags : /\ o2[j].mem_ready = op[j].mem_ready /\ o2[j].memprogress = op[j].memprogress
                      /\ o2[j].done = op[j].done /\ o2[j].flag = op[j].flag
                      /\ o2[j].addr_ready = op[j].addr_ready
  BY <1>4, <1>6
<1>8. \A j \in LoadQueue : o2[j] = op[j] /\ ~op[j].done /\ op[j].flag # "SERIALIZE"
  BY <1>1, <1>2, <1>6 DEF LoadsOK, ListOK
<1>9. LoadsMove(op, o2) /\ LoadQueue' = StillQueued(o2)
  BY <1>1, <1>3, <1>6, <1>7, <1>8 DEF LoadsMove, StillQueued, LoadsOK
<1>10. CacheOK(o2, dcache)
  BY <1>1, <1>2, <1>7 DEF CacheOK
<1>11. CacheLoadsOK(o2, dcache)
  <2>1. ASSUME NEW l, Saw(op, l, op[l].vsbfwd), o2[l] = op[l] PROVE Saw(o2, l, o2[l].vsbfwd)
    BY <1>2, <1>7, <2>1 DEF Saw, Older
  <2>2. \A k \in DOMAIN dcache : IsLoad(dcache[k]) => dcache[k] \in LoadQueue
    BY <1>1, Places DEF CacheOK
  <2> QED BY <1>1, <1>8, <2>1, <2>2 DEF CacheLoadsOK
<1>12. \A k \in DOMAIN dcache : dcache[k] \in LoadQueue => ~o2[dcache[k]].done
  BY <1>8
<1>13. UnreadyOK(op)'
  <2>1. \A j \in ambig_st_tags : j \in Tags /\ ~op[j].addr_ready /\ ~op[j].mem_ready
    BY <1>1, <1>2 DEF UnreadyOK, QueueTypes
  <2>2. \A j \in StoreQueue : j \in Tags /\ (op[j].done => op[j].mem_ready)
    BY <1>1, <1>2 DEF UnreadyOK
  <2> QED BY <1>3, <1>7, <2>1, <2>2 DEF UnreadyOK
<1> HIDE DEF n
<1> QED BY <1>1, <1>3, <1>9, <1>10, <1>11, <1>12, <1>13, LoadsSettle

-----------------------------------------------------------------------------
\* A store becomes ready: the counter of the ready stores goes up.
LEMMA UnissuedMore ==
  ASSUME QueueTypes, NEW o, NEW n, Counted(o, n), n < MAX_STORE_BUF, NEW o2, NEW i \in StoreQueue,
         ~o[i].mem_ready, o2[i].mem_ready, o2[i].memprogress = 0, \A j \in Tags \ {i} : o2[j] = o[j]
  PROVE  Counted(o2, n + 1)
<1>1. Unissued(o2) = Unissued(o) \cup {i} /\ i \notin Unissued(o)
  <2>1. i \in Unissued(o2) /\ i \notin Unissued(o)
    BY DEF Unissued
  <2>2. \A j \in StoreQueue : j # i => o2[j] = o[j]
    BY Places
  <2> QED BY <2>1, <2>2 DEF Unissued
<1>2. IsFiniteSet(Unissued(o))
  <2>1. Unissued(o) \subseteq 1 .. Len(prog) /\ Len(prog) \in Nat
    BY Places DEF Unissued
  <2>2. IsFiniteSet(1 .. Len(prog))
    BY <2>1, FS_Interval
  <2> QED BY <2>1, <2>2, FS_Subset
<1>3. Cardinality(Unissued(o2)) = Cardinality(Unissued(o)) + 1
  BY <1>1, <1>2, FS_AddElement
<1> QED BY <1>3, MemoryUnitAssumption DEF Counted

\* The fold over the oldest instructions, as far as instruction k
Marks == [op : [Tags -> Instances], count : Int]
MarkOK(s, k) ==
  /\ s \in Marks /\ StoresOK(s.op) /\ Counted(s.op, s.count)
  /\ \A j \in Tags :
       /\ j > k \/ ~IsStore(j) => s.op[j] = op[j]
       /\ s.op[j].addr_ready = op[j].addr_ready /\ s.op[j].memprogress = op[j].memprogress
       /\ s.op[j].flag = op[j].flag /\ (op[j].done => s.op[j].done)
       /\ s.op[j].mem_ready => op[j].mem_ready \/ op[j].addr_ready
       /\ s.op[j].done => op[j].done \/ s.op[j].mem_ready
       /\ op[j].mem_ready => s.op[j].mem_ready

LEMMA MarkMemopReadyOK ==
  ASSUME IInv, NEW i \in head .. next - 1, NEW s, MarkOK(s, i - 1)
  PROVE  MarkOK(MarkMemopReady(s, i), i)
<1> DEFINE t == MarkMemopReady(s, i)
           Marking == /\ IsStore(i) /\ op[i].addr_ready /\ ~op[i].truedep /\ ~op[i].mem_ready
                      /\ s.count < MAX_STORE_BUF
                      /\ \A j \in head .. i - 1 : s.op[j].done /\ op[j].flag = "OK"
           y == [s.op[i] EXCEPT !.mem_ready = TRUE, !.done = ~IsRMW(i)]
<1>1. /\ QueueTypes /\ ListOK(op) /\ StoresOK(op) /\ UnreadyOK(op)
      /\ s \in Marks /\ StoresOK(s.op) /\ Counted(s.op, s.count)
  BY DEF IInv, UnitOK, MarkOK
<1>2. /\ i \in Tags /\ i \in Listed /\ Listed \subseteq Tags /\ i \in Nat /\ i >= head /\ Tags \subseteq Nat
      /\ head \in Nat /\ next \in Nat /\ \A j \in 1 .. i : j \in Listed
  <2>1. Listed \subseteq Tags /\ head \in Nat /\ next \in Nat /\ Tags = 1 .. Len(prog)
    BY <1>1, Places
  <2>2. head >= 1
    BY <1>1, <2>1 DEF QueueTypes
  <2> QED BY <2>1, <2>2 DEF Listed
<1>3. \A j \in Tags :
        /\ j > i - 1 \/ ~IsStore(j) => s.op[j] = op[j]
        /\ s.op[j].addr_ready = op[j].addr_ready /\ s.op[j].memprogress = op[j].memprogress
        /\ s.op[j].flag = op[j].flag /\ (op[j].done => s.op[j].done)
        /\ s.op[j].mem_ready => op[j].mem_ready \/ op[j].addr_ready
        /\ s.op[j].done => op[j].done \/ s.op[j].mem_ready
        /\ op[j].mem_ready => s.op[j].mem_ready
  BY DEF MarkOK
<1>4. s.op[i] = op[i]
  BY <1>2, <1>3
<1>5. CASE ~Marking
  <2>1. t = s
    BY <1>5 DEF MarkMemopReady
  <2>2. MarkOK(s, i)
    BY <1>1, <1>2, <1>3 DEF MarkOK
  <2> QED BY <2>1, <2>2
<1>6. CASE Marking
  <2>1. t = [op |-> [s.op EXCEPT ![i] = y], count |-> s.count + 1]
    <3>1. t = [op |-> [s.op EXCEPT ![i].mem_ready = TRUE, ![i].done = ~IsRMW(i)], count |-> s.count + 1]
      BY <1>6 DEF MarkMemopReady
    <3>2. s.op \in [Tags -> Instances]
      BY <1>1 DEF Marks
    <3> HIDE DEF t
    <3>3. [s.op EXCEPT ![i].mem_ready = TRUE, ![i].done = ~IsRMW(i)] = [s.op EXCEPT ![i] = y]
      BY <1>2, <3>2
    <3> QED BY <3>1, <3>3
  <2>2. s.op \in [Tags -> Instances] /\ s.count \in Int /\ s.op[i] \in Instances /\ IsRMW(i) \in BOOLEAN
    BY <1>1, <1>2 DEF Marks, IsRMW
  <2>3. /\ y \in Instances /\ y.mem_ready /\ y.addr_ready = op[i].addr_ready
        /\ y.memprogress = op[i].memprogress /\ y.flag = op[i].flag
    BY <1>4, <2>2 DEF Instances
  <2> HIDE DEF t, y
  <2>4. t.op \in [Tags -> Instances] /\ t.count = s.count + 1 /\ t.op[i] = y
        /\ \A j \in Tags \ {i} : t.op[j] = s.op[j]
    BY <1>2, <2>1, <2>2, <2>3
  <2>5. t \in Marks
    BY <2>1, <2>2, <2>4 DEF Marks
  \* A store that is not ready has not been issued, and is not done.
  <2>6. /\ op[i].memprogress = 0 /\ i \in StoreQueue /\ ~op[i].done /\ op[i].addr_ready /\ op[i].flag = "OK"
        /\ IsStore(i)
    <3>1. op[i].memprogress = 0 /\ i \in StoreQueue /\ op[i].flag = "OK"
      BY <1>1, <1>2, <1>6 DEF StoresOK, InCache
    <3>2. ~op[i].done
      BY <1>1, <1>6, <3>1 DEF UnreadyOK
    <3> QED BY <1>6, <3>1, <3>2
  <2>7. \A j \in Tags :
          /\ j > i \/ ~IsStore(j) => t.op[j] = op[j]
          /\ t.op[j].addr_ready = op[j].addr_ready /\ t.op[j].memprogress = op[j].memprogress
          /\ t.op[j].flag = op[j].flag /\ (op[j].done => t.op[j].done)
          /\ t.op[j].mem_ready => op[j].mem_ready \/ op[j].addr_ready
          /\ t.op[j].done => op[j].done \/ t.op[j].mem_ready
          /\ op[j].mem_ready => t.op[j].mem_ready
    <3> SUFFICES ASSUME NEW j \in Tags
                 PROVE  /\ j > i \/ ~IsStore(j) => t.op[j] = op[j]
                        /\ t.op[j].addr_ready = op[j].addr_ready /\ t.op[j].memprogress = op[j].memprogress
                        /\ t.op[j].flag = op[j].flag /\ (op[j].done => t.op[j].done)
                        /\ t.op[j].mem_ready => op[j].mem_ready \/ op[j].addr_ready
                        /\ t.op[j].done => op[j].done \/ t.op[j].mem_ready
                        /\ op[j].mem_ready => t.op[j].mem_ready
      OBVIOUS
    <3>1. CASE j = i
      <4>1. i > i \/ ~IsStore(i) => t.op[i] = op[i]
        BY <1>2, <2>6
      <4>2. /\ t.op[i].addr_ready = op[i].addr_ready /\ t.op[i].memprogress = op[i].memprogress
            /\ t.op[i].flag = op[i].flag /\ t.op[i].mem_ready /\ op[i].addr_ready /\ ~op[i].done
        BY <2>3, <2>4, <2>6
      <4> QED BY <3>1, <4>1, <4>2
    <3>2. CASE j # i
      BY <1>2, <1>3, <2>4, <3>2
    <3> QED BY <3>1, <3>2
  <2>8. Counted(t.op, t.count)
    <3>1. ~s.op[i].mem_ready /\ s.count < MAX_STORE_BUF
      BY <1>4, <1>6
    <3>2. t.op[i].mem_ready /\ t.op[i].memprogress = 0
      BY <2>3, <2>4, <2>6
    <3>3. Counted(t.op, s.count + 1)
      BY <1>1, <2>4, <2>6, <3>1, <3>2, UnissuedMore
    <3> QED BY <2>4, <3>3
  <2>9. \A j \in Tags : s.op[j].done => t.op[j].done
    <3>1. ~s.op[i].done
      BY <1>4, <2>6
    <3> QED BY <2>4, <3>1
  <2>10. StoresOK(t.op)
    <3> SUFFICES ASSUME NEW j \in Listed, IsStore(j)
                 PROVE  /\ t.op[j].flag = "OK" /\ t.op[j].memprogress \in {0, InCache, 1}
                        /\ t.op[j].memprogress # 0 => t.op[j].mem_ready
                        /\ j \in StoreQueue <=> t.op[j].memprogress # 1
                        /\ t.op[j].mem_ready =>
                             \A e \in 1 .. j - 1 : t.op[e].done /\ (e >= head => t.op[e].flag = "OK")
                        /\ \A e \in 1 .. j - 1 : IsStore(e) /\ Overlap(e, j) =>
                             /\ t.op[j].memprogress # 0 => t.op[e].memprogress # 0
                             /\ t.op[j].memprogress = 1 => t.op[e].memprogress = 1
      BY DEF StoresOK
    <3>1. j \in Tags /\ \A e \in 1 .. j - 1 : e \in Listed /\ e \in Tags
      BY <1>2 DEF Listed
    <3>2. /\ op[j].flag = "OK" /\ op[j].memprogress \in {0, InCache, 1}
          /\ op[j].memprogress # 0 => op[j].mem_ready
          /\ j \in StoreQueue <=> op[j].memprogress # 1
          /\ \A e \in 1 .. j - 1 : IsStore(e) /\ Overlap(e, j) =>
               /\ op[j].memprogress # 0 => op[e].memprogress # 0
               /\ op[j].memprogress = 1 => op[e].memprogress = 1
      BY <1>1 DEF StoresOK
    <3>3. ASSUME t.op[j].mem_ready, NEW e \in 1 .. j - 1
          PROVE  t.op[e].done /\ (e >= head => t.op[e].flag = "OK")
      <4>1. e \in Tags /\ e \in Nat /\ e >= 1 /\ e <= j - 1 /\ j \in Nat
        BY <1>2, <3>1
      <4>2. CASE j = i
        <5>1. CASE e < head
          <6>1. e \in 1 .. head - 1
            BY <1>2, <4>1, <5>1
          <6>2. op[e].done
            BY <1>1, <6>1 DEF ListOK
          <6> QED BY <1>2, <2>7, <4>1, <5>1, <6>2
        <5>2. CASE e >= head
          <6>1. e \in head .. i - 1
            BY <1>2, <4>1, <4>2, <5>2
          <6>2. s.op[e].done /\ op[e].flag = "OK"
            BY <1>6, <6>1
          <6> QED BY <2>7, <2>9, <4>1, <6>2
        <5> QED BY <1>2, <4>1, <5>1, <5>2
      <4>3. CASE j # i
        <5>1. s.op[j].mem_ready
          BY <2>4, <3>1, <3>3, <4>3
        <5>2. s.op[e].done /\ (e >= head => s.op[e].flag = "OK")
          BY <1>1, <3>3, <5>1 DEF StoresOK
        <5>3. t.op[e].flag = s.op[e].flag
          BY <1>3, <2>7, <4>1
        <5> QED BY <2>9, <4>1, <5>2, <5>3
      <4> QED BY <4>2, <4>3
    <3>4. /\ t.op[j].flag = "OK" /\ t.op[j].memprogress \in {0, InCache, 1}
          /\ t.op[j].memprogress # 0 => t.op[j].mem_ready
          /\ j \in StoreQueue <=> t.op[j].memprogress # 1
      BY <2>7, <3>1, <3>2
    <3>5. \A e \in 1 .. j - 1 : IsStore(e) /\ Overlap(e, j) =>
               /\ t.op[j].memprogress # 0 => t.op[e].memprogress # 0
               /\ t.op[j].memprogress = 1 => t.op[e].memprogress = 1
      BY <2>7, <3>1, <3>2
    <3> QED BY <3>3, <3>4, <3>5
  <2> QED BY <2>5, <2>7, <2>8, <2>10 DEF MarkOK, t
<1> QED BY <1>5, <1>6

\* What the oldest instructions become
LEMMA MarkedInOrderOK ==
  ASSUME IInv
  PROVE  MarkOK(MarkedInOrder, Len(prog))
<1> DEFINE n == Len(prog)
           Q == {i \in head .. next - 1 : i < head + GRADUATE_RATE}
           start == [op |-> op, count |-> ReadyUnissuedStores]
           S == [k \in 0 .. n |-> {s \in Marks : MarkOK(s, k)}]
           T == [k \in 1 .. n |-> [s \in S[k - 1] |-> IF k \in Q THEN MarkMemopReady(s, k) ELSE s]]
           F(f) == f = [i \in 0 .. n |->
                          IF i \in Q THEN CHOOSE t \in {MarkMemopReady(s, i) : s \in {f[i - 1]}} : TRUE
                          ELSE IF i = 0 THEN start ELSE f[i - 1]]
<1>1. n \in Nat /\ Q \subseteq 1 .. n /\ Q \subseteq head .. next - 1 /\ Tags = 1 .. n
  <2>1. QueueTypes
    BY DEF IInv
  <2>2. n \in Nat /\ head \in Nat /\ next \in Nat /\ Listed \subseteq Tags /\ Tags = 1 .. n /\ head >= 1
    BY <2>1, Places DEF QueueTypes
  <2>3. head .. next - 1 \subseteq 1 .. n
    BY <2>2 DEF Listed
  <2> QED BY <2>2, <2>3
<1>2. start \in S[0]
  <2>1. OpType(op) /\ Counted(op, ReadyUnissuedStores) /\ StoresOK(op)
    BY DEF IInv, UnitOK
  <2>2. start \in Marks /\ start.op = op /\ start.count = ReadyUnissuedStores
    BY <2>1 DEF Marks, OpType, Counted
  <2> HIDE DEF start
  <2>3. MarkOK(start, 0)
    BY <2>1, <2>2 DEF MarkOK
  <2> QED BY <1>1, <2>2, <2>3
<1>3. ASSUME NEW k \in 1 .. n, NEW s \in S[k - 1]
      PROVE  (IF k \in Q THEN MarkMemopReady(s, k) ELSE s) \in S[k]
  <2>1. MarkOK(s, k - 1) /\ S[k] = {q \in Marks : MarkOK(q, k)} /\ s \in Marks
    BY <1>1
  <2>2. CASE k \in Q
    <3>1. MarkOK(MarkMemopReady(s, k), k)
      BY <1>1, <2>1, <2>2, MarkMemopReadyOK
    <3>2. MarkMemopReady(s, k) \in Marks
      BY <3>1 DEF MarkOK
    <3> HIDE DEF S
    <3> QED BY <2>1, <2>2, <3>1, <3>2
  <2>3. CASE k \notin Q
    <3>1. \A j \in Tags : j > k => j > k - 1
      BY <1>1
    <3>2. MarkOK(s, k)
      BY <2>1, <3>1 DEF MarkOK
    <3> HIDE DEF S
    <3> QED BY <2>1, <2>3, <3>2
  <2> QED BY <2>2, <2>3
<1> HIDE DEF S, Q, start
<1>4. \E f : F(f)
  <2>1. ASSUME NEW k \in 1 .. n PROVE T[k] \in [S[k - 1] -> S[k]]
    <3>1. T[k] = [s \in S[k - 1] |-> IF k \in Q THEN MarkMemopReady(s, k) ELSE s]
      OBVIOUS
    <3> HIDE DEF T
    <3> QED BY <1>3, <3>1
  <2>2. PICK f : StepsFrom(f, start, T, n) /\ \A k \in 0 .. n : f[k] \in S[k]
    <3> HIDE DEF T, n
    <3> QED BY <1>1, <1>2, <2>1, StepsExist
  <2>3. f = [k \in 0 .. n |-> IF k = 0 THEN start ELSE T[k][f[k - 1]]]
    BY <2>2 DEF StepsFrom
  <2>4. ASSUME NEW k \in 0 .. n
        PROVE  f[k] = IF k \in Q THEN CHOOSE t \in {MarkMemopReady(s, k) : s \in {f[k - 1]}} : TRUE
                      ELSE IF k = 0 THEN start ELSE f[k - 1]
    <3>1. CASE k = 0
      BY <1>1, <2>3, <3>1
    <3>2. CASE k # 0
      <4>1. k \in 1 .. n /\ k - 1 \in 0 .. n
        BY <1>1, <3>2
      <4>2. T[k] = [s \in S[k - 1] |-> IF k \in Q THEN MarkMemopReady(s, k) ELSE s]
        BY <4>1
      <4>3. f[k] = T[k][f[k - 1]] /\ f[k - 1] \in S[k - 1]
        BY <2>2, <2>3, <3>2, <4>1
      <4> HIDE DEF T
      <4>4. f[k] = IF k \in Q THEN MarkMemopReady(f[k - 1], k) ELSE f[k - 1]
        BY <4>2, <4>3
      <4> QED BY <3>2, <4>4
    <3> QED BY <3>1, <3>2
  <2> HIDE DEF T, n
  <2>5. F(f)
    BY <2>3, <2>4
  <2> QED BY <2>5
<1>5. PICK f : F(f) /\ MarkedInOrder = f[n]
  BY <1>4 DEF MarkedInOrder, InOrder, start, Q
<1>6. \A k \in 0 .. n : f[k] \in S[k]
  <2> DEFINE A == {k \in 0 .. n : f[k] \in S[k]}
  <2>1. 0 \in A
    <3>1. 0 \in 0 .. n /\ 0 \notin Q
      BY <1>1
    <3> HIDE DEF n
    <3>2. f[0] = start
      BY <1>5, <3>1, Zenon
    <3> QED BY <1>2, <3>1, <3>2
  <2>2. ASSUME NEW k \in 1 .. n, k - 1 \in A PROVE k \in A
    <3>1. k \in 0 .. n /\ k # 0 /\ f[k - 1] \in S[k - 1]
      BY <1>1, <2>2
    <3> HIDE DEF A, T, n
    <3>2. f[k] = IF k \in Q THEN CHOOSE t \in {MarkMemopReady(s, k) : s \in {f[k - 1]}} : TRUE
                 ELSE f[k - 1]
      BY <1>5, <3>1
    <3>3. f[k] = IF k \in Q THEN MarkMemopReady(f[k - 1], k) ELSE f[k - 1]
      BY <3>2
    <3>4. f[k] \in S[k]
      BY <1>3, <3>1, <3>3
    <3> QED BY <3>1, <3>4 DEF A
  <2> HIDE DEF A, T, F
  <2>3. \A k \in 0 .. n : k \in A
    BY <1>1, <2>1, <2>2, UpTo
  <2> QED BY <2>3 DEF A
<1>7. f[n] \in S[n] /\ n \in 0 .. n
  BY <1>1, <1>6
<1> QED BY <1>5, <1>7 DEF S

LEMMA MarkMemopsReadyKeeps ==
  ASSUME IInv, MarkMemopsReady
  PROVE  IInv'
<1>1. PICK s : op' = s.op /\ ReadyUnissuedStores' = s.count /\ MarkOK(s, Len(prog))
  <2>1. PICK s : s \in {MarkedInOrder} /\ op' = s.op /\ ReadyUnissuedStores' = s.count
    BY Zenon DEF MarkMemopsReady
  <2>2. MarkOK(MarkedInOrder, Len(prog))
    BY MarkedInOrderOK
  <2> QED BY <2>1, <2>2
<1>2. /\ UNCHANGED <<prog, head, next, LoadQueue, StoreQueue, ambig_st_tags, membar_tags>>
      /\ UNCHANGED <<in_exception, dcache, memory>>
  BY Zenon DEF MarkMemopsReady, queues
<1> DEFINE o2 == s.op
           n == s.count
<1>3. /\ QueueTypes /\ MemoryOK /\ ListOK(op) /\ UnreadyOK(op) /\ OpType(op) /\ LoadsOK(op)
      /\ CacheOK(op, dcache) /\ CacheLoadsOK(op, dcache)
  BY DEF IInv, UnitOK
<1>4. /\ OpType(o2) /\ StoresOK(o2) /\ Counted(o2, n)
      /\ \A j \in Tags :
           /\ ~IsStore(j) => o2[j] = op[j]
           /\ o2[j].addr_ready = op[j].addr_ready /\ o2[j].memprogress = op[j].memprogress
           /\ o2[j].flag = op[j].flag /\ (op[j].done => o2[j].done)
           /\ o2[j].mem_ready => op[j].mem_ready \/ op[j].addr_ready
           /\ o2[j].done => op[j].done \/ o2[j].mem_ready
           /\ op[j].mem_ready => o2[j].mem_ready
  BY <1>1 DEF MarkOK, Marks, OpType
<1>5. op' = o2 /\ ReadyUnissuedStores' = n
  BY <1>1
<1> HIDE DEF o2, n
<1>6. /\ Listed \subseteq Tags /\ LoadQueue \subseteq Tags /\ StoreQueue \subseteq Tags
      /\ (\A j \in LoadQueue : ~IsStore(j)) /\ head \in Nat /\ next \in Nat /\ head >= 1 /\ next >= 1
      /\ 1 .. head - 1 \subseteq Tags /\ LoadQueue \subseteq Listed
  <2>1. /\ Listed \subseteq Tags /\ LoadQueue \subseteq Listed /\ StoreQueue \subseteq Listed
        /\ (\A j \in LoadQueue : ~IsStore(j)) /\ head \in Nat /\ next \in Nat
    BY <1>3, Places
  <2>2. head >= 1 /\ next >= 1 /\ 1 .. head - 1 \subseteq Listed
    BY <1>3, <2>1 DEF QueueTypes, Listed
  <2> QED BY <2>1, <2>2
<1>7. \A j \in LoadQueue : o2[j] = op[j] /\ ~op[j].done /\ op[j].flag # "SERIALIZE"
  BY <1>3, <1>4, <1>6 DEF LoadsOK, ListOK
<1>8. LoadsOK(o2)
  BY <1>3, <1>7 DEF LoadsOK
<1>9. CacheOK(o2, dcache)
  BY <1>3, <1>4, <1>6 DEF CacheOK
<1>10. CacheLoadsOK(o2, dcache)
  <2>1. ASSUME NEW l, Saw(op, l, op[l].vsbfwd), o2[l] = op[l] PROVE Saw(o2, l, o2[l].vsbfwd)
    BY <1>4, <1>6, <2>1 DEF Saw, Older
  <2>2. \A k \in DOMAIN dcache : IsLoad(dcache[k]) => dcache[k] \in LoadQueue
    BY <1>3, Places DEF CacheOK
  <2> QED BY <1>3, <1>7, <2>1, <2>2 DEF CacheLoadsOK
<1>11. UnitOK(o2, dcache, n)
  BY <1>4, <1>8, <1>9, <1>10 DEF UnitOK
<1>12. ListOK(o2)
  <2>1. in_exception # None => in_exception = head /\ head < next /\ o2[head].flag = "SERIALIZE"
    <3> SUFFICES ASSUME in_exception # None
                 PROVE  in_exception = head /\ head < next /\ o2[head].flag = "SERIALIZE"
      OBVIOUS
    <3>1. in_exception = head /\ head < next /\ op[head].flag = "SERIALIZE"
      BY <1>3 DEF ListOK
    <3>2. head \in Tags
      BY <1>6, <3>1 DEF Listed
    <3> QED BY <1>4, <3>1, <3>2
  <2> QED BY <1>3, <1>4, <1>6, <2>1 DEF ListOK
<1>13. LoadsMove(o2, o2)
  BY <1>4, <1>7, <1>8 DEF LoadsMove, LoadsOK
<1>14. UnreadyOK(op)'
  <2>1. \A j \in ambig_st_tags : j \in Tags /\ j \in StoreQueue /\ ~op[j].addr_ready /\ ~op[j].mem_ready
    BY <1>3, <1>6 DEF UnreadyOK, QueueTypes
  <2>2. \A j \in StoreQueue : op[j].done => op[j].mem_ready
    BY <1>3 DEF UnreadyOK
  <2> QED BY <1>2, <1>4, <1>5, <1>6, <2>1, <2>2 DEF UnreadyOK
<1>15. LoadQueue' = StillQueued(o2)
  BY <1>2, <1>7 DEF StillQueued
<1>16. \A j \in Listed : IsStore(j) => (o2[j].memprogress = 1 <=> op[j].memprogress = 1)
  BY <1>4, <1>6
<1>17. \A k \in DOMAIN dcache : dcache[k] \in LoadQueue => ~o2[dcache[k]].done
  BY <1>7
<1> QED BY <1>2, <1>3, <1>5, <1>9, <1>10, <1>11, <1>12, <1>13, <1>14, <1>15, <1>16, <1>17, LoadsSettle

-----------------------------------------------------------------------------
\* The other steps of the active list
LEMMA SmallSteps ==
  ASSUME IInv, Graduate \/ PreException \/ UNCHANGED vars
  PROVE  IInv'
<1> DEFINE n == ReadyUnissuedStores
<1>1. /\ QueueTypes /\ ListOK(op) /\ UnreadyOK(op) /\ OpType(op) /\ LoadsOK(op) /\ StoresOK(op)
      /\ CacheOK(op, dcache) /\ CacheLoadsOK(op, dcache) /\ Counted(op, n) /\ MemoryOK
  BY DEF IInv, UnitOK
<1>2. /\ prog' = prog /\ next' = next /\ op' = op /\ LoadQueue' = LoadQueue /\ StoreQueue' = StoreQueue
      /\ ambig_st_tags' = ambig_st_tags /\ membar_tags' = membar_tags /\ ReadyUnissuedStores' = n
      /\ dcache' = dcache /\ memory' = memory
  <2>1. CASE Graduate
    BY <2>1 DEF Graduate, queues
  <2>2. CASE PreException
    BY <2>2 DEF PreException, queues
  <2>3. CASE UNCHANGED vars
    BY <2>3 DEF vars, queues
  <2> QED BY <2>1, <2>2, <2>3
<1>3. /\ Listed \subseteq Tags /\ LoadQueue \subseteq Listed /\ head \in Nat /\ next \in Nat /\ head >= 1
      /\ \A j \in LoadQueue : j >= head /\ j \in Nat
  <2>1. head >= 1
    BY <1>1, Places DEF QueueTypes
  <2>2. \A j \in Listed : j \in Nat
    BY DEF Listed
  <2> QED BY <1>1, <2>1, <2>2, Places
<1>4. /\ head' \in Nat /\ head' >= 1 /\ head' <= next /\ (head' = head \/ head' = head + 1)
      /\ (\A j \in LoadQueue : j >= head') /\ (\A j \in 1 .. head' - 1 : op[j].done)
      /\ in_exception' # None => in_exception' = head' /\ head' < next /\ op[head'].flag = "SERIALIZE"
  <2>1. CASE Graduate
    <3>1. head' = head + 1 /\ in_exception' = None /\ head < next /\ op[head].done /\ head \notin LoadQueue
      BY <2>1 DEF Graduate, MayGraduate, InMemunit
    <3>2. \A j \in 1 .. head - 1 : op[j].done
      BY <1>1 DEF ListOK
    <3> QED BY <1>3, <3>1, <3>2
  <2>2. CASE PreException
    <3>1. head' = head /\ in_exception' = head /\ head < next /\ op[head].flag = "SERIALIZE"
      BY <2>2 DEF PreException
    <3>2. \A j \in 1 .. head - 1 : op[j].done
      BY <1>1 DEF ListOK
    <3> QED BY <1>3, <3>1, <3>2
  <2>3. CASE UNCHANGED vars
    <3>1. head' = head /\ in_exception' = in_exception
      BY <2>3 DEF vars
    <3>2. head <= next
      BY <1>1, <1>3 DEF QueueTypes
    <3> QED BY <1>1, <1>3, <3>1, <3>2 DEF ListOK
  <2> QED BY <2>1, <2>2, <2>3
<1>5. Tags' = Tags /\ Listed' = Listed /\ Instances' = Instances
  BY <1>2, SameProgram DEF Listed
<1>6. QueueTypes'
  <2>1. /\ prog' \in Programs /\ head' \in 1 .. next' /\ next' \in 1 .. Len(prog') + 1
        /\ ambig_st_tags' \subseteq StoreQueue'
    BY <1>1, <1>2, <1>3, <1>4 DEF QueueTypes
  <2>2. \A j \in LoadQueue' : j \in head' .. next' - 1 /\ IsLoad(j)'
    BY <1>1, <1>2, <1>3, <1>4, SameProgram DEF QueueTypes
  <2>3. \A j \in StoreQueue' : j \in Listed' /\ IsStore(j)'
    BY <1>1, <1>2, <1>5, SameProgram DEF QueueTypes
  <2>4. \A j \in membar_tags' : j \in Listed' /\ Membar(j)'
    BY <1>1, <1>2, <1>5, SameProgram DEF QueueTypes
  <2>5. memory' \in [Bytes -> {None'} \cup Tags']
    BY <1>1, <1>2, <1>5 DEF QueueTypes, None
  <2> QED BY <2>1, <2>2, <2>3, <2>4, <2>5 DEF QueueTypes
<1>7. ListOK(op)'
  BY <1>1, <1>2, <1>4, <1>5 DEF ListOK, None
<1>8. OpType(op)' /\ LoadsOK(op)' /\ UnreadyOK(op)'
  BY <1>1, <1>2, <1>5 DEF OpType, LoadsOK, UnreadyOK
\* The instruction that graduates is done and has no exception.
<1>9. StoresOK(op)'
  <2> SUFFICES ASSUME NEW i \in Listed, IsStore(i)
               PROVE  /\ op[i].flag = "OK" /\ op[i].memprogress \in {0, InCache, 1}
                      /\ op[i].memprogress # 0 => op[i].mem_ready
                      /\ i \in StoreQueue <=> op[i].memprogress # 1
                      /\ op[i].mem_ready => \A j \in 1 .. i - 1 : op[j].done /\ (j >= head' => op[j].flag = "OK")
                      /\ \A j \in 1 .. i - 1 : IsStore(j) /\ Overlap(j, i) =>
                           /\ op[i].memprogress # 0 => op[j].memprogress # 0
                           /\ op[i].memprogress = 1 => op[j].memprogress = 1
    BY <1>2, <1>5, SameProgram DEF StoresOK, InCache
  <2>1. \A j \in 1 .. i - 1 : j >= head' => j >= head
    BY <1>3, <1>4
  <2> QED BY <1>1, <2>1 DEF StoresOK
<1>10. CacheOK(op, dcache)'
  BY <1>1, <1>2, <1>5, SameProgram DEF CacheOK, InCache
<1>11. CacheLoadsOK(op, dcache)'
  BY <1>1, <1>2, <1>5, SameProgram DEF CacheLoadsOK, Saw, Older, Mark
<1>12. Counted(op, ReadyUnissuedStores)'
  <2>1. Unissued(op)' = Unissued(op)
    BY <1>2 DEF Unissued
  <2> QED BY <1>1, <1>2, <2>1 DEF Counted
<1>13. MemoryOK'
  BY <1>1, <1>2, MemoryKept
<1> QED BY <1>6, <1>7, <1>8, <1>9, <1>10, <1>11, <1>12, <1>13 DEF IInv, UnitOK

\* A branch is resolved.
Resolved(b) == [op EXCEPT ![b].done = TRUE]
LEMMA BranchDone ==
  ASSUME IInv, NEW b \in Tags, prog[b].k = "br", NEW o2, o2 = Resolved(b)
  PROVE  /\ ListOK(o2) /\ UnitOK(o2, dcache, ReadyUnissuedStores) /\ LoadsMove(o2, o2)
         /\ StillQueued(o2) = LoadQueue
         /\ \A j \in Tags : /\ o2[j].addr_ready = op[j].addr_ready /\ o2[j].mem_ready = op[j].mem_ready
                            /\ o2[j].memprogress = op[j].memprogress /\ o2[j].flag = op[j].flag
                            /\ (IsStore(j) => o2[j] = op[j]) /\ (op[j].done => o2[j].done)
<1> DEFINE n == ReadyUnissuedStores
           y == [op[b] EXCEPT !.done = TRUE]
<1>1. /\ QueueTypes /\ MemoryOK /\ ListOK(op) /\ UnreadyOK(op) /\ OpType(op) /\ LoadsOK(op) /\ StoresOK(op)
      /\ CacheOK(op, dcache) /\ CacheLoadsOK(op, dcache) /\ Counted(op, n)
  BY DEF IInv, UnitOK
<1>2. y \in Instances /\ y.addr_ready = op[b].addr_ready /\ y.mem_ready = op[b].mem_ready
      /\ y.memprogress = op[b].memprogress /\ y.flag = op[b].flag /\ y.done
  <2>1. op[b] \in Instances
    BY <1>1 DEF OpType
  <2> QED BY <2>1 DEF Instances
<1>3. o2 = [op EXCEPT ![b] = y]
  BY DEF Resolved
<1> HIDE DEF y
<1>4. OpType(o2) /\ o2[b] = y /\ \A j \in Tags \ {b} : o2[j] = op[j]
  BY <1>1, <1>2, <1>3 DEF OpType
<1>5. ~IsStore(b) /\ ~IsLoad(b)
  BY DEF IsStore, IsLoad
<1>6. \A j \in Tags : /\ o2[j].addr_ready = op[j].addr_ready /\ o2[j].mem_ready = op[j].mem_ready
                      /\ o2[j].memprogress = op[j].memprogress /\ o2[j].flag = op[j].flag
                      /\ (IsStore(j) \/ IsLoad(j) => o2[j] = op[j]) /\ (op[j].done => o2[j].done)
  BY <1>2, <1>4, <1>5
<1>7. /\ Listed \subseteq Tags /\ LoadQueue \subseteq Listed /\ StoreQueue \subseteq Listed
      /\ (\A j \in LoadQueue : IsLoad(j)) /\ (\A j \in StoreQueue : IsStore(j))
      /\ head \in Nat /\ next \in Nat /\ Tags \subseteq Nat
  BY <1>1, Places
<1>8. (\A j \in LoadQueue : o2[j] = op[j]) /\ (\A j \in StoreQueue : o2[j] = op[j])
  BY <1>6, <1>7
<1>9. LoadsOK(o2) /\ CacheOK(o2, dcache)
  BY <1>1, <1>8 DEF LoadsOK, CacheOK
<1>10. CacheLoadsOK(o2, dcache)
  <2>1. ASSUME NEW l, Saw(op, l, op[l].vsbfwd), o2[l] = op[l] PROVE Saw(o2, l, o2[l].vsbfwd)
    BY <1>8, <2>1 DEF Saw, Older
  <2>2. \A k \in DOMAIN dcache : IsLoad(dcache[k]) => dcache[k] \in LoadQueue
    BY <1>1, Places DEF CacheOK
  <2> QED BY <1>1, <1>8, <2>1, <2>2 DEF CacheLoadsOK
<1>11. Counted(o2, n)
  <2>1. Unissued(o2) = Unissued(op)
    BY <1>8 DEF Unissued
  <2> QED BY <1>1, <2>1 DEF Counted
<1>12. \A j \in Listed : \A e \in 1 .. j - 1 : e \in Tags
  BY <1>7 DEF Listed
<1>13. StoresOK(o2)
  <2> SUFFICES ASSUME NEW i \in Listed, IsStore(i)
               PROVE  /\ o2[i].flag = "OK" /\ o2[i].memprogress \in {0, InCache, 1}
                      /\ o2[i].memprogress # 0 => o2[i].mem_ready
                      /\ i \in StoreQueue <=> o2[i].memprogress # 1
                      /\ o2[i].mem_ready => \A j \in 1 .. i - 1 : o2[j].done /\ (j >= head => o2[j].flag = "OK")
                      /\ \A j \in 1 .. i - 1 : IsStore(j) /\ Overlap(j, i) =>
                           /\ o2[i].memprogress # 0 => o2[j].memprogress # 0
                           /\ o2[i].memprogress = 1 => o2[j].memprogress = 1
    BY DEF StoresOK
  <2>1. i \in Tags /\ o2[i] = op[i]
    BY <1>6, <1>7
  <2> QED BY <1>1, <1>6, <1>12, <2>1 DEF StoresOK
<1>14. ListOK(o2)
  <2>1. \A j \in 1 .. head - 1 : j \in Tags
    BY <1>1, <1>7 DEF QueueTypes, Listed
  <2>2. in_exception # None => in_exception = head /\ head < next /\ o2[head].flag = "SERIALIZE"
    <3> SUFFICES ASSUME in_exception # None
                 PROVE  in_exception = head /\ head < next /\ o2[head].flag = "SERIALIZE"
      OBVIOUS
    <3>1. in_exception = head /\ head < next /\ op[head].flag = "SERIALIZE"
      BY <1>1 DEF ListOK
    <3>2. head \in Tags
      BY <1>1, <1>7, <3>1 DEF Listed, QueueTypes
    <3> QED BY <1>6, <3>1, <3>2
  <2> QED BY <1>1, <1>6, <1>7, <2>1, <2>2 DEF ListOK
<1>15. LoadsMove(o2, o2) /\ StillQueued(o2) = LoadQueue
  <2>1. \A j \in LoadQueue : ~op[j].done /\ op[j].flag # "SERIALIZE" /\ (op[j].memprogress = 0 => op[j].limbo = 0)
    BY <1>1, <1>7 DEF LoadsOK, ListOK
  <2> QED BY <1>4, <1>8, <2>1 DEF LoadsMove, StillQueued
<1> QED BY <1>4, <1>6, <1>9, <1>10, <1>11, <1>13, <1>14, <1>15 DEF UnitOK

LEMMA ResolveBranchKeeps ==
  ASSUME IInv, NEW i \in Tags, ResolveBranch(i)
  PROVE  IInv'
<1>1. PICK o2 : o2 = Resolved(i)
  OBVIOUS
<1>2. /\ prog[i].k = "br" /\ op' = o2
      /\ UNCHANGED <<prog, head, next, LoadQueue, StoreQueue, ambig_st_tags, membar_tags, ReadyUnissuedStores>>
      /\ UNCHANGED <<in_exception, dcache, memory>>
  BY <1>1, Zenon DEF ResolveBranch, Resolved, queues
<1>3. /\ ListOK(o2) /\ UnitOK(o2, dcache, ReadyUnissuedStores) /\ LoadsMove(o2, o2)
      /\ StillQueued(o2) = LoadQueue
      /\ \A j \in Tags : /\ o2[j].addr_ready = op[j].addr_ready /\ o2[j].mem_ready = op[j].mem_ready
                         /\ o2[j].memprogress = op[j].memprogress /\ o2[j].flag = op[j].flag
                         /\ (IsStore(j) => o2[j] = op[j]) /\ (op[j].done => o2[j].done)
  BY <1>1, <1>2, BranchDone
<1>4. QueueTypes /\ MemoryOK /\ UnreadyOK(op)
  BY DEF IInv
<1>5. /\ Listed \subseteq Tags /\ StoreQueue \subseteq Tags /\ (\A j \in StoreQueue : IsStore(j))
      /\ ambig_st_tags \subseteq StoreQueue
  BY <1>4, Places DEF QueueTypes
<1>6. UnreadyOK(op)'
  <2>1. \A j \in StoreQueue : o2[j] = op[j]
    BY <1>3, <1>5
  <2> QED BY <1>2, <1>4, <1>5, <2>1 DEF UnreadyOK
<1>7. \A k \in DOMAIN dcache : dcache[k] \in LoadQueue => ~o2[dcache[k]].done
  BY <1>3 DEF StillQueued
<1>8. CacheOK(o2, dcache) /\ CacheLoadsOK(o2, dcache)
  BY <1>3 DEF UnitOK
<1>9. \A j \in Listed : IsStore(j) => (o2[j].memprogress = 1 <=> op[j].memprogress = 1)
  BY <1>3, <1>5
<1> QED BY <1>2, <1>3, <1>4, <1>6, <1>7, <1>8, <1>9, LoadsSettle

-----------------------------------------------------------------------------
\* A new instance
LEMMA NewTyped ==
  /\ NewInstance \in Instances /\ ~NewInstance.addr_ready /\ ~NewInstance.mem_ready /\ ~NewInstance.done
  /\ NewInstance.memprogress = 0 /\ NewInstance.limbo = 0
<1>1. [b \in {} |-> None] \in Values
  <2> DEFINE f == [b \in {} |-> None]
  <2>1. f \in [{} -> {None} \cup Tags] /\ {} \in SUBSET Bytes
    OBVIOUS
  <2> HIDE DEF f
  <2>2. f \in Values
    BY <2>1 DEF Values
  <2> QED BY <2>2 DEF f
<1> DEFINE v == [b \in {} |-> None]
<1>2. NewInstance = [addr_ready |-> FALSE, truedep |-> TRUE, mem_ready |-> FALSE,
        memprogress |-> 0, vsbfwd |-> 0, limbo |-> 0, exception_code |-> "OK",
        done |-> FALSE, flag |-> "OK", val |-> v, seen |-> {}]
  BY DEF NewInstance
<1> HIDE DEF v
<1> QED BY <1>1, <1>2 DEF Instances, v

\* An instruction enters the active list, and its queue.
LEMMA DecodeKeeps ==
  ASSUME IInv, Decode
  PROVE  IInv'
<1> DEFINE n == ReadyUnissuedStores
<1>1. /\ QueueTypes /\ ListOK(op) /\ UnreadyOK(op) /\ OpType(op) /\ LoadsOK(op) /\ StoresOK(op)
      /\ CacheOK(op, dcache) /\ CacheLoadsOK(op, dcache) /\ Counted(op, n) /\ MemoryOK
  BY DEF IInv, UnitOK
<1>2. PICK i, y, o2 :
        /\ i = next /\ o2 = [op EXCEPT ![i] = y]
        /\ y = [NewInstance EXCEPT !.done = Membar(i) \/ prog[i].k = "trap",
                                   !.flag = IF prog[i].k = "trap" THEN "SERIALIZE" ELSE "OK"]
  OBVIOUS
<1>3. /\ i \in Tags /\ in_exception = None /\ next' = i + 1 /\ op' = o2
      /\ LoadQueue' = (IF IsLoad(i) THEN LoadQueue \cup {i} ELSE LoadQueue)
      /\ StoreQueue' = (IF IsStore(i) THEN StoreQueue \cup {i} ELSE StoreQueue)
      /\ membar_tags' = (IF Membar(i) THEN membar_tags \cup {i} ELSE membar_tags)
      /\ (ambig_st_tags' = ambig_st_tags \/ (IsStore(i) /\ ambig_st_tags' = ambig_st_tags \cup {i}))
      /\ prog' = prog /\ head' = head /\ ReadyUnissuedStores' = n /\ in_exception' = in_exception
      /\ dcache' = dcache /\ memory' = memory
  <2>1. /\ next \in Tags /\ in_exception = None /\ next' = next + 1
        /\ op' = [op EXCEPT ![next] = [NewInstance EXCEPT !.done = Membar(next) \/ prog[next].k = "trap",
                                      !.flag = IF prog[next].k = "trap" THEN "SERIALIZE" ELSE "OK"]]
        /\ LoadQueue' = (IF IsLoad(next) THEN LoadQueue \cup {next} ELSE LoadQueue)
        /\ StoreQueue' = (IF IsStore(next) THEN StoreQueue \cup {next} ELSE StoreQueue)
        /\ membar_tags' = (IF Membar(next) THEN membar_tags \cup {next} ELSE membar_tags)
        /\ prog' = prog /\ head' = head /\ ReadyUnissuedStores' = n /\ in_exception' = in_exception
        /\ dcache' = dcache /\ memory' = memory
    BY Zenon DEF Decode
  <2>2. ambig_st_tags' = ambig_st_tags \/ (IsStore(next) /\ ambig_st_tags' = ambig_st_tags \cup {next})
    BY DEF Decode
  <2>3. op' = o2
    BY <1>2, <2>1, Zenon
  <2> QED BY <1>2, <2>1, <2>2, <2>3
<1>4. /\ y \in Instances /\ ~y.addr_ready /\ ~y.mem_ready /\ y.memprogress = 0 /\ y.limbo = 0
      /\ (IsStore(i) \/ IsLoad(i) => ~y.done /\ y.flag = "OK") /\ (y.flag = "SERIALIZE" => y.done)
  <2>1. NewInstance \in Instances /\ ~NewInstance.addr_ready /\ ~NewInstance.mem_ready
        /\ NewInstance.memprogress = 0 /\ NewInstance.limbo = 0
    BY NewTyped
  <2>2. IsStore(i) \/ IsLoad(i) => ~Membar(i) /\ prog[i].k # "trap"
    BY DEF IsStore, IsLoad, Membar
  <2>3. Membar(i) \in BOOLEAN
    BY DEF Membar
  <2> QED BY <1>2, <2>1, <2>2, <2>3 DEF Instances
<1>5. OpType(o2) /\ o2[i] = y /\ \A j \in Tags \ {i} : o2[j] = op[j]
  BY <1>1, <1>2, <1>3, <1>4 DEF OpType
<1>6. /\ Listed \subseteq Tags /\ LoadQueue \subseteq Listed /\ StoreQueue \subseteq Listed
      /\ head \in Nat /\ next \in Nat /\ Len(prog) \in Nat /\ Tags = 1 .. Len(prog) /\ head >= 1 /\ head <= next
      /\ (\A j \in LoadQueue : IsLoad(j) /\ j >= head) /\ (\A j \in StoreQueue : IsStore(j))
  <2>1. head \in Nat /\ next \in Nat
    BY <1>1, Places
  <2>2. head >= 1 /\ head <= next
    BY <1>1, <2>1 DEF QueueTypes
  <2> QED BY <1>1, <2>1, <2>2, Places
<1>7. \A j \in Listed : j \in Tags \ {i} /\ o2[j] = op[j] /\ j < i /\ j \in Nat
  <2>1. \A j \in Listed : j < i /\ j \in Nat
    BY <1>2, <1>6 DEF Listed
  <2> QED BY <1>3, <1>5, <1>6, <2>1
<1>8. /\ Tags' = Tags /\ Instances' = Instances /\ Listed' = Listed \cup {i} /\ i \in Nat /\ i >= head
      /\ i \notin LoadQueue /\ i \notin StoreQueue
  <2>1. Listed' = Listed \cup {i}
    BY <1>2, <1>3, <1>6 DEF Listed
  <2> QED BY <1>2, <1>3, <1>6, <1>7, <2>1, SameProgram
<1>9. \A j : IsLoad(j)' = IsLoad(j) /\ IsStore(j)' = IsStore(j) /\ Membar(j)' = Membar(j)
             /\ \A e : Overlap(j, e)' = Overlap(j, e)
  BY <1>3, SameProgram
<1>10. ~(IsStore(i) /\ IsLoad(i))
  BY DEF IsStore, IsLoad
<1>11. QueueTypes'
  <2>1. /\ prog' \in Programs /\ head' \in 1 .. next' /\ next' \in 1 .. Len(prog') + 1
        /\ ambig_st_tags' \subseteq StoreQueue'
    <3>1. ambig_st_tags \subseteq StoreQueue /\ prog \in Programs
      BY <1>1 DEF QueueTypes
    <3>2. ambig_st_tags' \subseteq StoreQueue'
      BY <1>3, <3>1
    <3> QED BY <1>2, <1>3, <1>6, <3>1, <3>2
  <2>2. \A j \in LoadQueue' : j \in head' .. next' - 1 /\ IsLoad(j)'
    <3>1. \A j \in LoadQueue' : j \in LoadQueue \/ (j = i /\ IsLoad(i))
      BY <1>3
    <3>2. \A j \in LoadQueue : j \in head .. i /\ IsLoad(j)
      BY <1>6, <1>7, <1>8
    <3> QED BY <1>3, <1>6, <1>8, <1>9, <3>1, <3>2
  <2>3. \A j \in StoreQueue' : j \in Listed' /\ IsStore(j)'
    BY <1>3, <1>6, <1>8, <1>9
  <2>4. \A j \in membar_tags' : j \in Listed' /\ Membar(j)'
    <3>1. \A j \in membar_tags : j \in Listed /\ Membar(j)
      BY <1>1 DEF QueueTypes
    <3> QED BY <1>3, <1>8, <1>9, <3>1
  <2>5. memory' \in [Bytes -> {None'} \cup Tags']
    BY <1>1, <1>3, <1>8 DEF QueueTypes, None
  <2> QED BY <2>1, <2>2, <2>3, <2>4, <2>5 DEF QueueTypes
<1>12. ListOK(op)'
  <2>1. \A j \in 1 .. head - 1 : o2[j].done
    <3>1. \A j \in 1 .. head - 1 : j \in Listed /\ op[j].done
      BY <1>1, <1>6 DEF Listed, ListOK
    <3> QED BY <1>7, <3>1
  <2>2. \A j \in Listed : o2[j].flag = "SERIALIZE" => o2[j].done
    BY <1>1, <1>7 DEF ListOK
  <2> QED BY <1>3, <1>4, <1>5, <1>8, <2>1, <2>2 DEF ListOK, None
<1>13. StoresOK(op)'
  <2> SUFFICES ASSUME NEW j \in Listed \cup {i}, IsStore(j)
               PROVE  /\ o2[j].flag = "OK" /\ o2[j].memprogress \in {0, InCache, 1}
                      /\ o2[j].memprogress # 0 => o2[j].mem_ready
                      /\ j \in StoreQueue' <=> o2[j].memprogress # 1
                      /\ o2[j].mem_ready => \A e \in 1 .. j - 1 : o2[e].done /\ (e >= head => o2[e].flag = "OK")
                      /\ \A e \in 1 .. j - 1 : IsStore(e) /\ Overlap(e, j) =>
                           /\ o2[j].memprogress # 0 => o2[e].memprogress # 0
                           /\ o2[j].memprogress = 1 => o2[e].memprogress = 1
    BY <1>3, <1>8, <1>9 DEF StoresOK, InCache
  <2>1. CASE j = i
    BY <1>3, <1>4, <1>5, <1>8, <2>1
  <2>2. CASE j # i
    <3>1. j \in Listed /\ o2[j] = op[j]
      BY <1>7, <2>2
    <3>2. \A e \in 1 .. j - 1 : e \in Listed /\ o2[e] = op[e]
      <4>1. \A e \in 1 .. j - 1 : e \in Listed
        BY <1>6, <3>1 DEF Listed
      <4> QED BY <1>7, <4>1
    <3>3. j \in StoreQueue' <=> j \in StoreQueue
      BY <1>3, <2>2
    <3> QED BY <1>1, <3>1, <3>2, <3>3 DEF StoresOK
  <2> QED BY <2>1, <2>2
<1>14. OpType(op)'
  BY <1>3, <1>5, <1>8 DEF OpType
<1>15. LoadsOK(op)'
  <2>1. \A j \in LoadQueue : ~o2[j].done /\ (o2[j].memprogress = 0 => o2[j].limbo = 0)
    BY <1>1, <1>6, <1>7 DEF LoadsOK
  <2> QED BY <1>3, <1>4, <1>5, <2>1 DEF LoadsOK
<1>16. UnreadyOK(op)'
  <2>1. \A j \in ambig_st_tags : ~o2[j].addr_ready /\ ~o2[j].mem_ready
    BY <1>1, <1>6, <1>7 DEF UnreadyOK, QueueTypes
  <2>2. \A j \in StoreQueue : o2[j].done => o2[j].mem_ready
    BY <1>1, <1>6, <1>7 DEF UnreadyOK
  <2> QED BY <1>3, <1>4, <1>5, <2>1, <2>2 DEF UnreadyOK
<1>17. \A k \in DOMAIN dcache : /\ dcache[k] \in LoadQueue \cup StoreQueue /\ dcache[k] \in Listed
                              /\ o2[dcache[k]] = op[dcache[k]] /\ dcache[k] < i
  BY <1>1, <1>6, <1>7 DEF CacheOK
<1>18. CacheOK(op, dcache)'
  <2>1. \A k \in DOMAIN dcache : dcache[k] \in LoadQueue' \cup StoreQueue' /\ o2[dcache[k]].memprogress = InCache
    BY <1>1, <1>3, <1>17 DEF CacheOK
  <2>2. dcache \in Seq(Tags') /\ \A k, e \in DOMAIN dcache : k < e => dcache[k] # dcache[e]
               /\ (IsStore(dcache[k])' /\ IsStore(dcache[e])' /\ Overlap(dcache[k], dcache[e])' => dcache[k] < dcache[e])
    BY <1>1, <1>3, <1>8, <1>9 DEF CacheOK
  <2>3. \A j \in StoreQueue' : o2[j].memprogress = InCache => \E k \in DOMAIN dcache : dcache[k] = j
    <3>1. \A j \in StoreQueue : o2[j].memprogress = InCache => \E k \in DOMAIN dcache : dcache[k] = j
      BY <1>1, <1>6, <1>7 DEF CacheOK
    <3> QED BY <1>3, <1>4, <1>5, <3>1 DEF InCache
  <2> QED BY <1>3, <2>1, <2>2, <2>3 DEF CacheOK, InCache
<1>19. CacheLoadsOK(op, dcache)'
  <2>1. ASSUME NEW k \in DOMAIN dcache, IsLoad(dcache[k])
        PROVE  /\ o2[dcache[k]].limbo = 0
               /\ o2[dcache[k]].exception_code = "OK" =>
                    \A j \in StoreQueue' : j < dcache[k] /\ o2[j].addr_ready /\ Overlap(dcache[k], j) =>
                      j \in o2[dcache[k]].seen
                      \/ (o2[dcache[k]].vsbfwd # 0 /\ o2[dcache[k]].vsbfwd <= Mark(j))
    <3>1. op[dcache[k]].limbo = 0 /\ (op[dcache[k]].exception_code = "OK" =>
                                        Saw(op, dcache[k], op[dcache[k]].vsbfwd))
      BY <1>1, <2>1 DEF CacheLoadsOK
    <3>2. \A j \in StoreQueue' : j = i \/ (j \in StoreQueue /\ o2[j] = op[j])
      BY <1>3, <1>6, <1>7
    <3>3. ~(i < dcache[k])
      BY <1>7, <1>8, <1>17
    <3> QED BY <1>17, <3>1, <3>2, <3>3 DEF Saw, Older
  <2>2. \A k \in DOMAIN dcache : IsLoad(dcache[k])' = IsLoad(dcache[k])
                                 /\ \A j : Overlap(dcache[k], j)' = Overlap(dcache[k], j)
    BY <1>3, <1>9
  <2> QED BY <1>3, <2>1, <2>2 DEF CacheLoadsOK, Saw, Older, Mark
<1>20. Counted(op, ReadyUnissuedStores)'
  <2>1. Unissued(op)' = Unissued(op)
    <3>1. Unissued(op)' = {j \in StoreQueue' : o2[j].mem_ready /\ o2[j].memprogress = 0}
      BY <1>3 DEF Unissued
    <3>2. \A j \in StoreQueue : o2[j] = op[j] /\ j # i
      BY <1>6, <1>7
    <3> QED BY <1>3, <1>4, <1>5, <3>1, <3>2 DEF Unissued
  <2> QED BY <1>1, <1>3, <2>1 DEF Counted
<1>21. MemoryOK'
  <2> SUFFICES ASSUME NEW b \in Bytes PROVE memory'[b] = MaxOf(Written(b, op, next)')
    BY DEF MemoryOK, MaxOf, None
  <2>1. Written(b, op, next)' = {j \in Listed \cup {i} : o2[j].memprogress = 1 /\ IsStore(j) /\ b \in prog[j].bytes}
    BY <1>3, <1>8 DEF Written, IsStore, Listed
  <2>2. Written(b, op, next) = {j \in Listed : op[j].memprogress = 1 /\ IsStore(j) /\ b \in prog[j].bytes}
    BY DEF Written, Listed
  <2>3. Written(b, op, next)' = Written(b, op, next)
    BY <1>4, <1>5, <1>7, <2>1, <2>2
  <2>4. memory[b] = MaxOf(Written(b, op, next))
    BY <1>1 DEF MemoryOK
  <2> QED BY <1>3, <2>3, <2>4
<1> QED BY <1>11, <1>12, <1>13, <1>14, <1>15, <1>16, <1>18, <1>19, <1>20, <1>21 DEF IInv, UnitOK

-----------------------------------------------------------------------------
\* A flush from instruction i on, of instances in which no store from i on is ready: the
\* requests that are left belong to what is left, and the counter is not disturbed.
LEMMA FlushKeeps ==
  ASSUME QueueTypes, MemoryOK, NEW o, ListOK(o), UnitOK(o, dcache, ReadyUnissuedStores), UnreadyOK(o),
         \A j \in Listed : IsStore(j) => o[j].memprogress = op[j].memprogress,
         NEW i \in head .. next, Flush(o, i), \A j \in i .. next - 1 : IsStore(j) => ~o[j].mem_ready,
         NEW h \in 1 .. i, head' = h, \A j \in 1 .. h - 1 : o[j].done, h >= head,
         \A j \in LoadQueue : j < i => j >= h, in_exception' = None
  PROVE  IInv'
<1> DEFINE n == ReadyUnissuedStores
<1>1. /\ OpType(o) /\ StoresOK(o) /\ LoadsOK(o) /\ CacheOK(o, dcache) /\ CacheLoadsOK(o, dcache)
      /\ Counted(o, n)
  BY DEF UnitOK
<1>2. PICK o2, d : o2 = [j \in Tags |-> IF j < i THEN o[j] ELSE NewInstance] /\ d = RequestsBefore(dcache, i)
  OBVIOUS
<1>3. /\ next' = i /\ op' = o2 /\ dcache' = d /\ prog' = prog /\ ReadyUnissuedStores' = n /\ memory' = memory
      /\ LoadQueue' = Older(LoadQueue, i) /\ StoreQueue' = Older(StoreQueue, i)
      /\ ambig_st_tags' = Older(ambig_st_tags, i) /\ membar_tags' = Older(membar_tags, i)
  <2>1. /\ next' = i /\ op' = [j \in Tags |-> IF j < i THEN o[j] ELSE NewInstance]
        /\ dcache' = RequestsBefore(dcache, i) /\ prog' = prog /\ ReadyUnissuedStores' = n /\ memory' = memory
        /\ LoadQueue' = Older(LoadQueue, i) /\ StoreQueue' = Older(StoreQueue, i)
        /\ ambig_st_tags' = Older(ambig_st_tags, i) /\ membar_tags' = Older(membar_tags, i)
    BY Zenon DEF Flush
  <2>2. op' = o2 /\ dcache' = d
    BY <1>2, <2>1, Zenon
  <2> QED BY <2>1, <2>2
<1>4. /\ Listed \subseteq Tags /\ LoadQueue \subseteq Listed /\ StoreQueue \subseteq Listed
      /\ head \in Nat /\ next \in Nat /\ Len(prog) \in Nat /\ Tags = 1 .. Len(prog) /\ head >= 1
      /\ next <= Len(prog) + 1 /\ i \in Nat /\ i <= next /\ h \in Nat /\ h >= 1 /\ h <= i
      /\ (\A j \in LoadQueue : IsLoad(j)) /\ (\A j \in StoreQueue : IsStore(j))
  <2>1. head \in Nat /\ next \in Nat
    BY Places
  <2>2. head >= 1 /\ next <= Len(prog) + 1
    BY <2>1 DEF QueueTypes
  <2>3. i \in Nat /\ i <= next /\ h \in Nat /\ h >= 1 /\ h <= i
    BY <2>1
  <2> QED BY <2>1, <2>2, <2>3, Places
<1>5. /\ Tags' = Tags /\ Instances' = Instances /\ Listed' = {j \in Listed : j < i}
      /\ \A j : IsLoad(j)' = IsLoad(j) /\ IsStore(j)' = IsStore(j) /\ Membar(j)' = Membar(j)
                /\ \A e : Overlap(j, e)' = Overlap(j, e)
  <2>1. Listed' = {j \in Listed : j < i}
    BY <1>3, <1>4 DEF Listed
  <2> QED BY <1>3, <2>1, SameProgram
<1>6. OpType(o2) /\ \A j \in Tags : o2[j] = IF j < i THEN o[j] ELSE NewInstance
  <2>1. \A j \in Tags : o[j] \in Instances /\ NewInstance \in Instances
    BY <1>1, NewTyped DEF OpType
  <2> QED BY <1>2, <2>1 DEF OpType
<1>7. \A j \in Listed : j \in Tags /\ j \in Nat /\ (j < i => o2[j] = o[j])
  BY <1>4, <1>6
\* No store that is flushed had left for the cache.
<1>8. \A j \in Listed : IsStore(j) /\ j >= i => o[j].memprogress = 0 /\ ~o[j].mem_ready
  <2>1. \A j \in Listed : j >= i => j \in i .. next - 1
    BY <1>4 DEF Listed
  <2> QED BY <1>1, <2>1 DEF StoresOK
<1>9. QueueTypes'
  <2>1. /\ prog' \in Programs /\ head' \in 1 .. next' /\ next' \in 1 .. Len(prog') + 1
        /\ ambig_st_tags' \subseteq StoreQueue'
    <3>1. ambig_st_tags \subseteq StoreQueue /\ prog \in Programs
      BY DEF QueueTypes
    <3>2. ambig_st_tags' \subseteq StoreQueue'
      BY <1>3, <3>1 DEF Older
    <3> QED BY <1>3, <1>4, <3>1, <3>2
  <2>2. \A j \in LoadQueue' : j \in head' .. next' - 1 /\ IsLoad(j)'
    <3>1. \A j \in LoadQueue' : j \in LoadQueue /\ j < i /\ j >= h /\ j \in Nat /\ IsLoad(j)
      BY <1>3, <1>4, <1>7 DEF Older
    <3> QED BY <1>3, <1>4, <1>5, <3>1
  <2>3. \A j \in StoreQueue' : j \in Listed' /\ IsStore(j)'
    BY <1>3, <1>4, <1>5 DEF Older
  <2>4. \A j \in membar_tags' : j \in Listed' /\ Membar(j)'
    <3>1. \A j \in membar_tags : j \in Listed /\ Membar(j)
      BY DEF QueueTypes
    <3> QED BY <1>3, <1>5, <3>1 DEF Older
  <2>5. memory' \in [Bytes -> {None'} \cup Tags']
    BY <1>3, <1>5 DEF QueueTypes, None
  <2> QED BY <2>1, <2>2, <2>3, <2>4, <2>5 DEF QueueTypes
<1>10. ListOK(op)'
  <2>1. \A j \in 1 .. h - 1 : o2[j].done
    <3>1. \A j \in 1 .. h - 1 : j \in Listed /\ j < i
      BY <1>4 DEF Listed
    <3> QED BY <1>7, <3>1
  <2>2. \A j \in Listed' : o2[j].flag = "SERIALIZE" => o2[j].done
    BY <1>5, <1>7 DEF ListOK
  <2> QED BY <1>3, <2>1, <2>2 DEF ListOK, None
<1>11. StoresOK(op)'
  <2> SUFFICES ASSUME NEW j \in Listed, j < i, IsStore(j)
               PROVE  /\ o2[j].flag = "OK" /\ o2[j].memprogress \in {0, InCache, 1}
                      /\ o2[j].memprogress # 0 => o2[j].mem_ready
                      /\ j \in Older(StoreQueue, i) <=> o2[j].memprogress # 1
                      /\ o2[j].mem_ready => \A e \in 1 .. j - 1 : o2[e].done /\ (e >= h => o2[e].flag = "OK")
                      /\ \A e \in 1 .. j - 1 : IsStore(e) /\ Overlap(e, j) =>
                           /\ o2[j].memprogress # 0 => o2[e].memprogress # 0
                           /\ o2[j].memprogress = 1 => o2[e].memprogress = 1
    BY <1>3, <1>5 DEF StoresOK, InCache
  <2>1. o2[j] = o[j] /\ \A e \in 1 .. j - 1 : e \in Listed /\ o2[e] = o[e] /\ (e >= h => e >= head)
    <3>1. \A e \in 1 .. j - 1 : e \in Listed /\ e < i /\ (e >= h => e >= head)
      BY <1>4, <1>7 DEF Listed
    <3> QED BY <1>7, <3>1
  <2>2. j \in Older(StoreQueue, i) <=> j \in StoreQueue
    BY DEF Older
  <2> QED BY <1>1, <2>1, <2>2 DEF StoresOK
<1>12. OpType(op)'
  BY <1>3, <1>5, <1>6 DEF OpType
<1>13. LoadsOK(op)'
  <2>1. \A j \in Older(LoadQueue, i) : ~o2[j].done /\ (o2[j].memprogress = 0 => o2[j].limbo = 0)
    BY <1>1, <1>4, <1>7 DEF LoadsOK, Older
  <2> QED BY <1>3, <2>1 DEF LoadsOK
<1>14. UnreadyOK(op)'
  <2>1. \A j \in Older(ambig_st_tags, i) : ~o2[j].addr_ready /\ ~o2[j].mem_ready
    BY <1>4, <1>7 DEF UnreadyOK, QueueTypes, Older
  <2>2. \A j \in Older(StoreQueue, i) : o2[j].done => o2[j].mem_ready
    BY <1>4, <1>7 DEF UnreadyOK, Older
  <2> QED BY <1>3, <2>1, <2>2 DEF UnreadyOK
\* The requests that are left keep their order.
<1>15. d \in Seq(Tags) /\ Keeps(d, dcache, Len(dcache), i) /\ DOMAIN dcache = 1 .. Len(dcache)
  <2>1. dcache \in Seq(Tags)
    BY <1>1 DEF CacheOK
  <2> QED BY <1>2, <2>1, RequestsBeforeKeeps
<1>16. ASSUME NEW k \in DOMAIN d
       PROVE  /\ d[k] \in LoadQueue \cup StoreQueue /\ d[k] < i /\ d[k] \in Listed /\ o2[d[k]] = o[d[k]]
              /\ o[d[k]].memprogress = InCache
              /\ IsLoad(d[k]) => o[d[k]].limbo = 0 /\ (o[d[k]].exception_code = "OK" =>
                                                         Saw(o, d[k], o[d[k]].vsbfwd))
  <2>1. PICK e \in DOMAIN dcache : d[k] = dcache[e] /\ dcache[e] < i
    BY <1>15 DEF Keeps
  <2>2. d[k] \in LoadQueue \cup StoreQueue /\ d[k] < i /\ o[d[k]].memprogress = InCache
    BY <1>1, <2>1 DEF CacheOK
  <2>3. d[k] \in Listed /\ o2[d[k]] = o[d[k]]
    BY <1>4, <1>7, <2>2
  <2> QED BY <1>1, <2>1, <2>2, <2>3 DEF CacheLoadsOK
<1>17. CacheOK(op, dcache)'
  <2>1. \A k \in DOMAIN d : d[k] \in LoadQueue' \cup StoreQueue' /\ o2[d[k]].memprogress = InCache
    BY <1>3, <1>16 DEF Older
  <2>2. ASSUME NEW k \in DOMAIN d, NEW m \in DOMAIN d, k < m
        PROVE  d[k] # d[m] /\ (IsStore(d[k]) /\ IsStore(d[m]) /\ Overlap(d[k], d[m]) => d[k] < d[m])
    <3>1. PICK e, g \in 1 .. Len(dcache) : e < g /\ d[k] = dcache[e] /\ d[m] = dcache[g]
      BY <1>15, <2>2, Zenon DEF Keeps
    <3>2. e \in DOMAIN dcache /\ g \in DOMAIN dcache
      BY <1>15
    <3> QED BY <1>1, <3>1, <3>2 DEF CacheOK
  <2>3. \A j \in StoreQueue' : o2[j].memprogress = InCache => \E k \in DOMAIN d : d[k] = j
    <3> SUFFICES ASSUME NEW j \in StoreQueue, j < i, o2[j].memprogress = InCache
                 PROVE  \E k \in DOMAIN d : d[k] = j
      BY <1>3 DEF Older
    <3>1. o[j].memprogress = InCache
      BY <1>4, <1>7
    <3>2. PICK e \in DOMAIN dcache : dcache[e] = j
      BY <1>1, <3>1 DEF CacheOK
    <3> QED BY <1>15, <3>2 DEF Keeps
  <2>4. \A k, m \in DOMAIN d : k < m => d[k] # d[m]
           /\ (IsStore(d[k])' /\ IsStore(d[m])' /\ Overlap(d[k], d[m])' => d[k] < d[m])
    BY <1>5, <2>2
  <2>5. d \in Seq(Tags')
    BY <1>5, <1>15
  <2> QED BY <1>3, <2>1, <2>3, <2>4, <2>5 DEF CacheOK, InCache
<1>18. CacheLoadsOK(op, dcache)'
  <2>1. ASSUME NEW k \in DOMAIN d, IsLoad(d[k])
        PROVE  /\ o2[d[k]].limbo = 0
               /\ o2[d[k]].exception_code = "OK" =>
                    \A j \in StoreQueue' : j < d[k] /\ o2[j].addr_ready /\ Overlap(d[k], j) =>
                      j \in o2[d[k]].seen \/ (o2[d[k]].vsbfwd # 0 /\ o2[d[k]].vsbfwd <= Mark(j))
    <3>1. \A j \in StoreQueue' : j \in StoreQueue /\ o2[j] = o[j]
      BY <1>3, <1>4, <1>7 DEF Older
    <3> QED BY <1>16, <2>1, <3>1 DEF Saw, Older
  <2>2. \A k \in DOMAIN d : IsLoad(d[k])' = IsLoad(d[k]) /\ \A j : Overlap(d[k], j)' = Overlap(d[k], j)
    BY <1>5
  <2> QED BY <1>3, <2>1, <2>2 DEF CacheLoadsOK, Saw, Older, Mark
<1>19. Counted(op, ReadyUnissuedStores)'
  <2>1. Unissued(op)' = Unissued(o)
    <3>1. Unissued(op)' = {j \in StoreQueue' : o2[j].mem_ready /\ o2[j].memprogress = 0}
      BY <1>3 DEF Unissued
    <3>2. \A j \in StoreQueue : (j \in StoreQueue' <=> j < i) /\ (j < i => o2[j] = o[j]) /\ (~(j < i) => ~o[j].mem_ready)
      BY <1>3, <1>4, <1>7, <1>8 DEF Older
    <3>3. StoreQueue' \subseteq StoreQueue
      BY <1>3 DEF Older
    <3> QED BY <3>1, <3>2, <3>3 DEF Unissued
  <2> QED BY <1>1, <1>3, <2>1 DEF Counted
<1>20. MemoryOK'
  <2> SUFFICES ASSUME NEW b \in Bytes PROVE memory'[b] = MaxOf(Written(b, op, next)')
    BY DEF MemoryOK, MaxOf, None
  <2>1. Written(b, op, next)' = {j \in Listed : j < i /\ o2[j].memprogress = 1 /\ IsStore(j) /\ b \in prog[j].bytes}
    BY <1>3, <1>4, <1>5 DEF Written, IsStore, Listed
  <2>2. Written(b, op, next) = {j \in Listed : op[j].memprogress = 1 /\ IsStore(j) /\ b \in prog[j].bytes}
    BY DEF Written, Listed
  <2>3. Written(b, op, next)' = Written(b, op, next)
    BY <1>7, <1>8, <2>1, <2>2
  <2>4. memory[b] = MaxOf(Written(b, op, next))
    BY DEF MemoryOK
  <2> QED BY <1>3, <2>3, <2>4
<1> QED BY <1>9, <1>10, <1>11, <1>12, <1>13, <1>14, <1>17, <1>18, <1>19, <1>20 DEF IInv, UnitOK

\* What keeps the stores from the flush on from being ready: something older that is not
\* done, or that has an exception.
LEMMA NotReady ==
  ASSUME QueueTypes, NEW o, StoresOK(o), NEW a \in head .. next - 1, ~o[a].done \/ o[a].flag # "OK"
  PROVE  \A j \in a + 1 .. next - 1 : IsStore(j) => ~o[j].mem_ready
<1>1. head \in Nat /\ next \in Nat /\ head >= 1 /\ a \in Nat /\ a >= head
  BY Places DEF QueueTypes
<1>2. ASSUME NEW j \in a + 1 .. next - 1, IsStore(j), o[j].mem_ready PROVE FALSE
  <2>1. j \in Listed /\ a \in 1 .. j - 1
    BY <1>1 DEF Listed
  <2> QED BY <1>1, <1>2, <2>1 DEF StoresOK
<1> QED BY <1>2

\* The load that replays is flushed, and all that follow.
LEMMA SoftExceptionKeeps ==
  ASSUME IInv, SoftException
  PROVE  IInv'
<1>1. /\ QueueTypes /\ MemoryOK /\ ListOK(op) /\ UnitOK(op, dcache, ReadyUnissuedStores) /\ UnreadyOK(op)
      /\ StoresOK(op)
  BY DEF IInv, UnitOK
<1>2. /\ in_exception = None /\ head < next /\ op[head].flag = "SOFT_LIMBO" /\ Flush(op, head)
      /\ head' = head /\ in_exception' = in_exception
  BY DEF SoftException
<1>3. head \in Nat /\ next \in Nat /\ head >= 1 /\ head \in Listed /\ head \in head .. next - 1
  BY <1>1, <1>2, Places DEF QueueTypes, Listed
<1>4. \A j \in head .. next - 1 : IsStore(j) => ~op[j].mem_ready
  <2>1. \A j \in head + 1 .. next - 1 : IsStore(j) => ~op[j].mem_ready
    BY <1>1, <1>2, <1>3, NotReady
  <2>2. ~IsStore(head)
    BY <1>1, <1>2, <1>3 DEF StoresOK
  <2>3. \A j \in head .. next - 1 : j = head \/ j \in head + 1 .. next - 1
    BY <1>3
  <2> QED BY <2>1, <2>2, <2>3
<1>5. head \in head .. next /\ head \in 1 .. head /\ head >= head
  BY <1>2, <1>3
<1>6. \A j \in 1 .. head - 1 : op[j].done
  BY <1>1 DEF ListOK
<1>7. \A j \in LoadQueue : j < head => j >= head
  BY <1>1, Places
<1>8. \A j \in Listed : IsStore(j) => op[j].memprogress = op[j].memprogress
  OBVIOUS
<1> QED BY <1>1, <1>2, <1>4, <1>5, <1>6, <1>7, <1>8, FlushKeeps

\* The handler carries the trap out; what follows it is flushed.
LEMMA ExceptionHandlerKeeps ==
  ASSUME IInv, ExceptionHandler
  PROVE  IInv'
<1>1. /\ QueueTypes /\ MemoryOK /\ ListOK(op) /\ UnitOK(op, dcache, ReadyUnissuedStores) /\ UnreadyOK(op)
      /\ StoresOK(op) /\ LoadsOK(op)
  BY DEF IInv, UnitOK
<1>2. /\ in_exception # None /\ Flush(op, in_exception + 1) /\ head' = in_exception + 1 /\ in_exception' = None
  BY DEF ExceptionHandler
<1>3. in_exception = head /\ head < next /\ op[head].flag = "SERIALIZE"
  BY <1>1, <1>2 DEF ListOK
<1>4. /\ head \in Nat /\ next \in Nat /\ head >= 1 /\ head \in Listed /\ head \in head .. next - 1
      /\ op[head].done
  <2>1. head \in Nat /\ next \in Nat /\ head >= 1 /\ head \in Listed /\ head \in head .. next - 1
    BY <1>1, <1>3, Places DEF QueueTypes, Listed
  <2> QED BY <1>1, <1>3, <2>1 DEF ListOK
<1>5. \A j \in head + 1 .. next - 1 : IsStore(j) => ~op[j].mem_ready
  BY <1>1, <1>3, <1>4, NotReady
<1>6. PICK i : i = head + 1 /\ i \in head .. next /\ i \in 1 .. i /\ i >= head
  BY <1>3, <1>4
<1>7. \A j \in 1 .. i - 1 : op[j].done
  <2>1. \A j \in 1 .. head - 1 : op[j].done
    BY <1>1 DEF ListOK
  <2> QED BY <1>4, <1>6, <2>1
<1>8. \A j \in LoadQueue : j < i => j >= i
  <2>1. \A j \in LoadQueue : j >= head /\ j # head /\ j \in Listed
    BY <1>1, <1>4, Places DEF LoadsOK
  <2> QED BY <1>4, <1>6, <2>1 DEF Listed
<1>9. Flush(op, i) /\ head' = i
  BY <1>2, <1>3, <1>6
<1>10. \A j \in i .. next - 1 : IsStore(j) => ~op[j].mem_ready
  BY <1>5, <1>6
<1> QED BY <1>1, <1>2, <1>6, <1>7, <1>8, <1>9, <1>10, FlushKeeps

\* The branch that was mispredicted is done; what was fetched after it is flushed.
LEMMA MispredictKeeps ==
  ASSUME IInv, NEW b \in Tags, Mispredict(b)
  PROVE  IInv'
<1>1. QueueTypes /\ MemoryOK /\ ListOK(op) /\ UnreadyOK(op) /\ StoresOK(op) /\ LoadsOK(op)
  BY DEF IInv, UnitOK
<1>2. PICK o : o = Resolved(b)
  OBVIOUS
<1>3. /\ in_exception = None /\ b \in head .. next - 1 /\ prog[b].k = "br" /\ ~op[b].done
      /\ head' = head /\ in_exception' = in_exception
  BY Zenon DEF Mispredict
<1>4. Flush(o, b + 1)
  BY <1>2, Zenon DEF Mispredict, Resolved
<1>5. /\ ListOK(o) /\ UnitOK(o, dcache, ReadyUnissuedStores)
      /\ \A j \in Tags : /\ o[j].addr_ready = op[j].addr_ready /\ o[j].mem_ready = op[j].mem_ready
                         /\ o[j].memprogress = op[j].memprogress /\ o[j].flag = op[j].flag
                         /\ (IsStore(j) => o[j] = op[j]) /\ (op[j].done => o[j].done)
  BY <1>2, <1>3, BranchDone
<1>6. /\ Listed \subseteq Tags /\ head \in Nat /\ next \in Nat /\ head >= 1
      /\ StoreQueue \subseteq Tags /\ (\A j \in StoreQueue : IsStore(j)) /\ ambig_st_tags \subseteq StoreQueue
  BY <1>1, Places DEF QueueTypes
<1>7. UnreadyOK(o)
  BY <1>1, <1>5, <1>6 DEF UnreadyOK
<1>8. PICK i : i = b + 1 /\ i \in head .. next /\ head \in 1 .. i /\ head >= head
  BY <1>3, <1>6
<1>9. \A j \in i .. next - 1 : IsStore(j) => ~o[j].mem_ready
  <2>1. \A j \in b + 1 .. next - 1 : IsStore(j) => ~op[j].mem_ready
    BY <1>1, <1>3, NotReady
  <2>2. \A j \in i .. next - 1 : j \in Listed
    BY <1>6, <1>8 DEF Listed
  <2> QED BY <1>5, <1>6, <1>8, <2>1, <2>2
<1>10. \A j \in 1 .. head - 1 : o[j].done
  BY <1>5 DEF ListOK
<1>11. \A j \in LoadQueue : j < i => j >= head
  BY <1>1, Places
<1>12. \A j \in Listed : IsStore(j) => o[j].memprogress = op[j].memprogress
  BY <1>5, <1>6
<1>13. Flush(o, i) /\ in_exception' = None
  BY <1>3, <1>4, <1>8
<1> QED BY <1>1, <1>3, <1>5, <1>7, <1>8, <1>9, <1>10, <1>11, <1>12, <1>13, FlushKeeps

-----------------------------------------------------------------------------
\* At the start nothing is listed.
LEMMA InitHolds == Init => IInv
<1> SUFFICES ASSUME Init PROVE IInv
  OBVIOUS
<1>1. /\ prog \in Programs /\ head = 1 /\ next = 1 /\ op = [i \in Tags |-> NewInstance]
      /\ LoadQueue = {} /\ StoreQueue = {} /\ ambig_st_tags = {} /\ membar_tags = {}
      /\ ReadyUnissuedStores = 0 /\ in_exception = None /\ dcache = <<>> /\ memory = [b \in Bytes |-> None]
  BY DEF Init
<1>2. Len(prog) \in Nat /\ Listed = {}
  <2>1. prog \in Seq([k : {"ld", "st", "rmw", "mb", "br", "trap"}, bytes : SUBSET Bytes,
                      order : SUBSET {"SS", "LS", "SL", "LL", "MEMISSUE"}])
    BY <1>1, MemoryUnitAssumption
  <2> QED BY <1>1, <2>1 DEF Listed
<1>3. QueueTypes
  BY <1>1, <1>2 DEF QueueTypes
<1>4. ListOK(op) /\ StoresOK(op) /\ LoadsOK(op) /\ UnreadyOK(op)
  BY <1>1, <1>2 DEF ListOK, StoresOK, LoadsOK, UnreadyOK
<1>5. OpType(op)
  BY <1>1, NewTyped DEF OpType
<1>6. CacheOK(op, dcache) /\ CacheLoadsOK(op, dcache)
  BY <1>1 DEF CacheOK, CacheLoadsOK
<1>7. Counted(op, ReadyUnissuedStores)
  <2>1. Unissued(op) = {}
    BY <1>1 DEF Unissued
  <2>2. Cardinality(Unissued(op)) = 0
    BY <2>1, FS_EmptySet
  <2>3. ReadyUnissuedStores = 0 /\ 0 \in 0 .. MAX_STORE_BUF
    BY <1>1, MemoryUnitAssumption
  <2> QED BY <2>2, <2>3 DEF Counted
<1>8. MemoryOK
  <2> SUFFICES ASSUME NEW b \in Bytes PROVE memory[b] = MaxOf(Written(b, op, next))
    BY DEF MemoryOK
  <2>1. Written(b, op, next) = {}
    BY <1>1 DEF Written
  <2> QED BY <1>1, <2>1 DEF MaxOf
<1> QED BY <1>3, <1>4, <1>5, <1>6, <1>7, <1>8 DEF IInv, UnitOK

LEMMA StepHolds == IInv /\ [Next]_vars => IInv'
<1> SUFFICES ASSUME IInv, [Next]_vars PROVE IInv'
  OBVIOUS
<1>1. CASE Decode
  BY <1>1, DecodeKeeps
<1>2. CASE MarkMemopsReady
  BY <1>2, MarkMemopsReadyKeeps
<1>3. CASE Graduate \/ PreException \/ UNCHANGED vars
  BY <1>3, SmallSteps
<1>4. CASE SoftException
  BY <1>4, SoftExceptionKeeps
<1>5. CASE ExceptionHandler
  BY <1>5, ExceptionHandlerKeeps
<1>6. ASSUME NEW room \in 0 .. L1Ports, IssueMem(room) PROVE IInv'
  BY <1>6, IssueMemKeeps, MemoryUnitAssumption
<1>7. ASSUME NEW k \in DOMAIN dcache, Perform(k) PROVE IInv'
  <2>1. CASE IsLoad(dcache[k])
    BY <1>7, <2>1, PerformLoad
  <2>2. CASE ~IsLoad(dcache[k])
    BY <1>7, <2>2, PerformStore
  <2> QED BY <2>1, <2>2
<1>8. ASSUME NEW i \in Tags, Disambiguate(i) PROVE IInv'
  BY <1>8, DisambiguateKeeps
<1>9. ASSUME NEW i \in Tags, OperandReady(i) PROVE IInv'
  BY <1>9, OperandReadyKeeps
<1>10. ASSUME NEW i \in Tags, ResolveBranch(i) PROVE IInv'
  BY <1>10, ResolveBranchKeeps
<1>11. ASSUME NEW i \in Tags, Mispredict(i) PROVE IInv'
  BY <1>11, MispredictKeeps
<1>12. CASE Next
  BY <1>1, <1>2, <1>3, <1>4, <1>5, <1>6, <1>7, <1>8, <1>9, <1>10, <1>11, <1>12 DEF Next
<1> QED BY <1>3, <1>12

\* The invariant holds in every reachable state, of every program.
THEOREM UnitInvariant == Spec => []IInv
<1>1. Init => IInv
  BY InitHolds
<1>2. IInv /\ [Next]_vars => IInv'
  BY StepHolds
<1> QED BY <1>1, <1>2, PTL DEF Spec

\* The queues hold what they say, and the counter the exceptions wait for is exactly the
\* number of the stores that are ready and not issued, through every flush and every
\* replay.
THEOREM QueuesHold == Spec => []QueuesAreExact
<1>1. IInv => QueuesAreExact
  <2> SUFFICES ASSUME IInv PROVE QueuesAreExact
    OBVIOUS
  <2>1. /\ QueueTypes /\ ListOK(op) /\ CacheOK(op, dcache) /\ Counted(op, ReadyUnissuedStores)
    BY DEF IInv, UnitOK
  <2>2. in_exception \in {None} \cup Tags
    <3>1. in_exception # None => in_exception \in Listed
      BY <2>1, Places DEF ListOK, Listed, QueueTypes
    <3> QED BY <2>1, <3>1, Places
  <2>3. TypeOK
    BY <2>1, <2>2 DEF TypeOK, QueueTypes, CacheOK, Counted, Listed
  <2>4. ReadyStoresAreCounted
    BY <2>1 DEF ReadyStoresAreCounted, Counted, Unissued
  <2> QED BY <2>3, <2>4 DEF QueuesAreExact
<1> QED BY <1>1, UnitInvariant, PTL

\* A store leaves for the cache only when nothing older could take it back, and each byte
\* of memory holds the youngest store of the program that was performed: in whatever order
\* stores issue past each other, and whatever is flushed.
THEOREM StoresInOrder == Spec => []StoresReachMemoryInOrder
<1>1. IInv => StoresReachMemoryInOrder
  <2> SUFFICES ASSUME IInv PROVE StoresReachMemoryInOrder
    OBVIOUS
  <2>1. QueueTypes /\ StoresOK(op) /\ MemoryOK
    BY DEF IInv, UnitOK
  <2>2. \A i \in StoreQueue : op[i].memprogress # 0 => \A j \in 1 .. i - 1 : op[j].done
    BY <2>1, Places DEF StoresOK
  <2>3. ASSUME NEW b \in Bytes
        PROVE  memory[b] = LastWriter(b, {i \in 1 .. next - 1 : op[i].memprogress = 1})
    <3>1. Written(b, op, next) =
            {i \in {j \in 1 .. next - 1 : op[j].memprogress = 1} : IsStore(i) /\ b \in prog[i].bytes}
      BY DEF Written
    <3>2. memory[b] = MaxOf(Written(b, op, next))
      BY <2>1 DEF MemoryOK
    <3> QED BY <3>1, <3>2 DEF LastWriter
  <2> QED BY <2>2, <2>3 DEF StoresReachMemoryInOrder
<1> QED BY <1>1, UnitInvariant, PTL

-----------------------------------------------------------------------------
\* Barriers. One of a kind awaits what it orders ahead of the rest, and one that has
\* retired has nothing left to await.
Awaits(kind, a) ==
  \/ kind \in {"LL", "LS", "MEMISSUE"} /\ Reads(a)
  \/ kind \in {"SL", "SS", "MEMISSUE"} /\ IsStore(a)
Retired(mbs) ==
  \A m \in Listed : Membar(m) /\ m \notin mbs =>
    \A a \in LoadQueue \cup StoreQueue : a < m => \A kind \in prog[m].order : ~Awaits(kind, a)

\* What a step does that issues nothing: what enters is the youngest, and no barrier
\* retires.
Quiet ==
  /\ prog' = prog
  /\ \A j \in Tags : op'[j].memprogress # 0 => op[j].memprogress # 0 /\ (j < next' => j < next)
  /\ \A j \in LoadQueue' \cup StoreQueue' : j \in LoadQueue \cup StoreQueue \/ j = next' - 1
  /\ \A m \in Listed' : Membar(m) /\ m \notin membar_tags' => m \in Listed /\ m \notin membar_tags

LEMMA FlushIsQuiet ==
  ASSUME QueueTypes, NEW o, \A j \in Tags : o[j].memprogress = op[j].memprogress,
         NEW i \in 1 .. next, Flush(o, i)
  PROVE  Quiet
<1>1. /\ next' = i /\ op' = [j \in Tags |-> IF j < i THEN o[j] ELSE NewInstance]
      /\ LoadQueue' = Older(LoadQueue, i) /\ StoreQueue' = Older(StoreQueue, i)
      /\ membar_tags' = Older(membar_tags, i) /\ prog' = prog
  BY Zenon DEF Flush
<1>2. next \in Nat /\ i \in Nat /\ i <= next
  BY Places
<1>3. ASSUME NEW j \in Tags, op'[j].memprogress # 0
      PROVE  op[j].memprogress # 0 /\ (j < next' => j < next)
  <2>1. j \in Nat /\ op'[j] = IF j < i THEN o[j] ELSE NewInstance
    BY <1>1, Places
  <2>2. NewInstance.memprogress = 0
    BY NewTyped
  <2>3. j < i /\ op'[j] = o[j]
    BY <1>3, <2>1, <2>2
  <2> QED BY <1>1, <1>2, <1>3, <2>1, <2>3
<1>4. \A j \in LoadQueue' \cup StoreQueue' : j \in LoadQueue \cup StoreQueue
  BY <1>1 DEF Older
<1>5. ASSUME NEW m \in Listed', m \notin membar_tags' PROVE m \in Listed /\ m \notin membar_tags
  <2>1. m \in 1 .. i - 1
    BY <1>1 DEF Listed
  <2> QED BY <1>1, <1>2, <1>5, <2>1 DEF Older, Listed
<1> QED BY <1>1, <1>3, <1>4, <1>5 DEF Quiet

LEMMA DecodeIsQuiet ==
  ASSUME IInv, Decode
  PROVE  Quiet
<1> DEFINE i == next
           y == [NewInstance EXCEPT !.done = Membar(next) \/ prog[next].k = "trap",
                                    !.flag = IF prog[next].k = "trap" THEN "SERIALIZE" ELSE "OK"]
<1>1. QueueTypes /\ OpType(op)
  BY DEF IInv, UnitOK
<1>2. /\ next \in Tags /\ next' = next + 1 /\ op' = [op EXCEPT ![next] = y]
      /\ LoadQueue' = (IF IsLoad(next) THEN LoadQueue \cup {next} ELSE LoadQueue)
      /\ StoreQueue' = (IF IsStore(next) THEN StoreQueue \cup {next} ELSE StoreQueue)
      /\ membar_tags' = (IF Membar(next) THEN membar_tags \cup {next} ELSE membar_tags)
      /\ prog' = prog
  BY Zenon DEF Decode
<1>3. y.memprogress = 0
  <2>1. NewInstance \in Instances /\ NewInstance.memprogress = 0
    BY NewTyped
  <2> HIDE DEF i
  <2> QED BY <2>1 DEF Instances
<1> HIDE DEF y
<1>4. next \in Nat /\ Tags \subseteq Nat
  BY <1>1, Places
<1>5. ASSUME NEW j \in Tags, op'[j].memprogress # 0
      PROVE  op[j].memprogress # 0 /\ (j < next' => j < next)
  <2>1. j # next
    BY <1>1, <1>2, <1>3, <1>5 DEF OpType
  <2>2. op'[j] = op[j]
    BY <1>1, <1>2, <2>1 DEF OpType
  <2>3. j \in Nat
    BY <1>4
  <2> QED BY <1>2, <1>4, <1>5, <2>1, <2>2, <2>3
<1>6. \A j \in LoadQueue' \cup StoreQueue' : j \in LoadQueue \cup StoreQueue \/ j = next' - 1
  BY <1>2, <1>4
<1>7. ASSUME NEW m \in Listed', Membar(m), m \notin membar_tags' PROVE m \in Listed /\ m \notin membar_tags
  <2>1. m \in 1 .. next
    BY <1>2, <1>4 DEF Listed
  <2>2. m # next /\ m \notin membar_tags
    BY <1>2, <1>7
  <2> QED BY <1>4, <2>1, <2>2 DEF Listed
<1> QED BY <1>2, <1>5, <1>6, <1>7 DEF Quiet

\* A request that was answered had been issued.
LEMMA PerformIsQuiet ==
  ASSUME IInv, NEW k \in DOMAIN dcache, Perform(k)
  PROVE  Quiet
<1>1. PICK i, y : i = dcache[k] /\ op' = [op EXCEPT ![i] = y]
  BY DEF Perform
<1>2. /\ QueueTypes /\ OpType(op) /\ op[i].memprogress = InCache
  BY <1>1 DEF IInv, UnitOK, CacheOK
<1>3. /\ prog' = prog /\ next' = next /\ LoadQueue' = StillQueued(op') /\ StoreQueue' = StoreQueue \ {i}
      /\ membar_tags' = membar_tags
  BY <1>1, Zenon DEF Perform
<1>4. \A j \in Tags : op'[j].memprogress # 0 => op[j].memprogress # 0
  <2>1. \A j \in Tags : j # i => op'[j] = op[j]
    BY <1>1, <1>2 DEF OpType
  <2>2. op[i].memprogress # 0
    BY <1>2 DEF InCache
  <2> QED BY <2>1, <2>2
<1> QED BY <1>3, <1>4 DEF Quiet, Listed, StillQueued

\* A load moves on with the address of a store only after its answer.
LEMMA DisambiguateIsQuiet ==
  ASSUME IInv, NEW i \in Tags, Disambiguate(i)
  PROVE  Quiet
<1> DEFINE younger == {j \in LoadQueue : j > i /\ IsStore(i)}
           known == [op[i] EXCEPT !.addr_ready = TRUE]
           lowambig == MinOf(ambig_st_tags')
           o2 == [j \in Tags |-> IF j = i THEN known
                                 ELSE IF j \in younger THEN Disambiguated(j, i, lowambig) ELSE op[j]]
<1>1. /\ QueueTypes /\ ListOK(op) /\ OpType(op) /\ LoadsOK(op)
  BY DEF IInv, UnitOK
<1>2. /\ op' = o2 /\ LoadQueue' = StillQueued(op') /\ ambig_st_tags' = ambig_st_tags \ {i}
      /\ UNCHANGED <<prog, next, StoreQueue, membar_tags>>
  BY DEF Disambiguate
<1>3. LoadQueue \subseteq Listed /\ Listed \subseteq Tags /\ i \in Nat /\ ambig_st_tags' \in SUBSET Nat
      /\ Len(prog) \in Nat
  BY <1>1, <1>2, Places DEF QueueTypes
<1>4. lowambig \in Nat
  <2> DEFINE Q == ambig_st_tags'
  <2>2. Q \in SUBSET Nat
    BY <1>3
  <2> HIDE DEF Q
  <2>3. MinOf(Q) \in Nat
    <3>1. IF Q = {} THEN MinOf(Q) = NoMembar ELSE MinOf(Q) \in Q /\ \A j \in Q : MinOf(Q) <= j
      BY <2>2, MinOfIs
    <3>2. NoMembar \in Nat
      BY <1>3 DEF NoMembar
    <3> QED BY <2>2, <3>1, <3>2
  <2>4. NoMembar' = NoMembar
    BY <1>2 DEF NoMembar
  <2> QED BY <2>3 DEF Q
<1> HIDE DEF lowambig
<1>5. known.memprogress = op[i].memprogress
  <2>1. op[i] \in Instances
    BY <1>1 DEF OpType
  <2> QED BY <2>1 DEF Instances
<1> HIDE DEF known
<1>6. ASSUME NEW j \in younger, Disambiguated(j, i, lowambig).memprogress # 0 PROVE op[j].memprogress # 0
  <2>1. /\ op[j] \in Instances /\ ~op[j].done /\ op[j].flag # "SERIALIZE"
        /\ (op[j].memprogress = 0 => op[j].limbo = 0)
    BY <1>1, <1>3 DEF LoadsOK, ListOK, OpType
  <2> DEFINE y == Disambiguated(j, i, lowambig)
  <2>2. op[j].limbo = 0 => y.memprogress = op[j].memprogress
    BY <1>3, <1>4, <2>1, DisambiguatedIs
  <2> QED BY <1>6, <2>1, <2>2
<1>7. ASSUME NEW j \in Tags, op'[j].memprogress # 0 PROVE op[j].memprogress # 0
  <2>1. op'[j] = IF j = i THEN known ELSE IF j \in younger THEN Disambiguated(j, i, lowambig) ELSE op[j]
    BY <1>2
  <2> HIDE DEF younger
  <2> QED BY <1>5, <1>6, <1>7, <2>1
<1> QED BY <1>2, <1>7 DEF Quiet, Listed, StillQueued

\* Every step but the cycle of the unit is quiet.
LEMMA StepsAreQuiet ==
  ASSUME IInv, [Next]_vars, \A room \in 0 .. L1Ports : ~IssueMem(room)
  PROVE  Quiet
<1>1. QueueTypes /\ OpType(op) /\ ListOK(op) /\ head \in Nat /\ next \in Nat /\ head >= 1
  BY Places DEF IInv, UnitOK, QueueTypes
<1>2. CASE Decode
  BY <1>2, DecodeIsQuiet
<1>3. CASE MarkMemopsReady
  <2>1. PICK s : s \in {MarkedInOrder} /\ op' = s.op
    BY <1>3, Zenon DEF MarkMemopsReady
  <2>2. MarkOK(s, Len(prog))
    BY <2>1, MarkedInOrderOK
  <2>3. \A j \in Tags : op'[j].memprogress = op[j].memprogress
    BY <2>1, <2>2 DEF MarkOK
  <2>4. UNCHANGED <<prog, next, LoadQueue, StoreQueue, membar_tags>>
    BY <1>3, Zenon DEF MarkMemopsReady, queues
  <2> QED BY <2>3, <2>4 DEF Quiet, Listed
<1>4. CASE Graduate \/ PreException \/ UNCHANGED vars
  <2>1. UNCHANGED <<prog, next, op, LoadQueue, StoreQueue, membar_tags>>
    BY <1>4, Zenon DEF Graduate, PreException, vars, queues
  <2> QED BY <2>1 DEF Quiet, Listed
<1>5. CASE SoftException
  <2>1. Flush(op, head) /\ head \in 1 .. next
    BY <1>1, <1>5 DEF SoftException
  <2> QED BY <1>1, <2>1, FlushIsQuiet
<1>6. CASE ExceptionHandler
  <2>1. Flush(op, in_exception + 1) /\ in_exception = head /\ head < next
    BY <1>1, <1>6 DEF ExceptionHandler, ListOK
  <2>2. head + 1 \in 1 .. next
    BY <1>1, <2>1
  <2> QED BY <1>1, <2>1, <2>2, FlushIsQuiet
<1>7. ASSUME NEW k \in DOMAIN dcache, Perform(k) PROVE Quiet
  BY <1>7, PerformIsQuiet
<1>8. ASSUME NEW i \in Tags, Disambiguate(i) PROVE Quiet
  BY <1>8, DisambiguateIsQuiet
<1>9. ASSUME NEW i \in Tags, OperandReady(i) PROVE Quiet
  <2>1. PICK y : y = [op[i] EXCEPT !.truedep = FALSE]
    OBVIOUS
  <2>2. op' = [op EXCEPT ![i] = y] /\ UNCHANGED <<prog, next, LoadQueue, StoreQueue, membar_tags>>
    BY <1>9, <2>1, Zenon DEF OperandReady, queues
  <2>3. y.memprogress = op[i].memprogress
    BY <1>1, <2>1 DEF OpType, Instances
  <2>4. \A j \in Tags : op'[j].memprogress = op[j].memprogress
    BY <1>1, <2>2, <2>3 DEF OpType
  <2> QED BY <2>2, <2>4 DEF Quiet, Listed
<1>10. ASSUME NEW i \in Tags, ResolveBranch(i) PROVE Quiet
  <2>1. PICK o2 : o2 = Resolved(i)
    OBVIOUS
  <2>2. prog[i].k = "br" /\ op' = o2 /\ UNCHANGED <<prog, next, LoadQueue, StoreQueue, membar_tags>>
    BY <1>10, <2>1, Zenon DEF ResolveBranch, Resolved, queues
  <2>3. \A j \in Tags : o2[j].memprogress = op[j].memprogress
    BY <2>1, <2>2, BranchDone
  <2> QED BY <2>2, <2>3 DEF Quiet, Listed
<1>11. ASSUME NEW b \in Tags, Mispredict(b) PROVE Quiet
  <2>1. PICK o2 : o2 = Resolved(b)
    OBVIOUS
  <2>2. prog[b].k = "br" /\ b \in head .. next - 1
    BY <1>11, Zenon DEF Mispredict
  <2>3. \A j \in Tags : o2[j].memprogress = op[j].memprogress
    BY <2>1, <2>2, BranchDone
  <2>4. Flush(o2, b + 1) /\ b + 1 \in 1 .. next
    <3>1. Flush(o2, b + 1)
      BY <1>11, <2>1, Zenon DEF Mispredict, Resolved
    <3> QED BY <1>1, <2>2, <3>1
  <2> QED BY <1>1, <2>3, <2>4, FlushIsQuiet
<1>12. CASE Next
  BY <1>2, <1>3, <1>4, <1>5, <1>6, <1>7, <1>8, <1>9, <1>10, <1>11, <1>12 DEF Next
<1> QED BY <1>4, <1>12

-----------------------------------------------------------------------------
\* What the cycle issues is released by the barriers that are left, and those that
\* retire have nothing to await.
LEMMA CycleIssues ==
  ASSUME IInv, Retired(membar_tags), NEW room \in 0 .. L1Ports, IssueMem(room)
  PROVE  /\ membar_tags' \subseteq membar_tags /\ Retired(membar_tags')
         /\ LoadQueue' \subseteq LoadQueue /\ UNCHANGED <<prog, next, StoreQueue>>
         /\ \A j \in Tags : op[j].memprogress = 0 /\ op'[j].memprogress # 0 =>
              j \in LoadQueue \cup StoreQueue /\ Released(membar_tags', j)
<1>1. PICK mbs \in SUBSET Nat, s \in Cycles :
           /\ CycleOK(mbs, s) /\ membar_tags' = mbs /\ mbs \subseteq membar_tags
           /\ \A m \in membar_tags \ mbs : MembarRetires(m)
           /\ dcache' = dcache \o s.sent /\ ReadyUnissuedStores' = s.count
           /\ op' = [i \in Tags |-> IF i \in s.fwds THEN CompleteLoad(s.op, i) ELSE s.op[i]]
           /\ LoadQueue' = StillQueued(op')
           /\ UNCHANGED <<prog, head, next, StoreQueue, ambig_st_tags, in_exception, memory>>
  BY IssueMemIs
<1>2. QueueTypes /\ next \in Nat /\ LoadQueue \subseteq Listed /\ StoreQueue \subseteq Listed
  BY Places DEF IInv
<1>3. ASSUME NEW m \in Listed, Membar(m), m \notin mbs, NEW a \in LoadQueue \cup StoreQueue, a < m,
             NEW kind \in prog[m].order
      PROVE  ~Awaits(kind, a)
  <2>1. CASE m \notin membar_tags
    BY <1>3, <2>1 DEF Retired
  <2>2. CASE m \in membar_tags
    <3>1. /\ prog[m].order \cap {"LL", "LS", "MEMISSUE"} # {} => minload > m
          /\ prog[m].order \cap {"SL", "SS", "MEMISSUE"} # {} => minstore > m
      BY <1>1, <1>3, <2>2 DEF MembarRetires
    <3>2. a \in Nat /\ m \in Nat
      BY <1>2 DEF Listed
    <3>3. ASSUME Reads(a) PROVE minload \in Nat /\ minload <= a
      <4> DEFINE Q == LoadQueue \cup {i \in StoreQueue : IsRMW(i)}
      <4>1. a \in Q
        BY <1>2, <3>3, Places DEF Reads, IsRMW, IsStore, IsLoad
      <4>2. Q \in SUBSET Nat
        <5>1. Listed \subseteq Nat
          BY <1>2 DEF Listed
        <5>2. \A j \in Q : j \in Listed
          BY <1>2, Zenon
        <5> HIDE DEF Q
        <5> QED BY <5>1, <5>2
      <4>3. minload = MinOf(Q)
        BY DEF minload
      <4> HIDE DEF Q
      <4> QED BY <4>1, <4>2, <4>3, MinOfIs
    <3>4. ASSUME IsStore(a) PROVE minstore \in Nat /\ minstore <= a
      <4>1. a \in StoreQueue /\ StoreQueue \in SUBSET Nat
        BY <1>2, <3>4, Places DEF Listed
      <4> QED BY <4>1, MinOfIs DEF minstore
    <3> QED BY <1>3, <3>1, <3>2, <3>3, <3>4 DEF Awaits
  <2> QED BY <2>1, <2>2
<1>4. Retired(mbs)
  BY <1>3 DEF Retired
<1>5. ASSUME NEW j \in Tags, op[j].memprogress = 0, op'[j].memprogress # 0
      PROVE  j \in LoadQueue \cup StoreQueue /\ Released(mbs, j)
  <2>1. op'[j] = IF j \in s.fwds THEN CompleteLoad(s.op, j) ELSE s.op[j]
    BY <1>1
  <2>2. s.op[j].memprogress # 0
    <3>1. CASE j \in s.fwds
      <4>1. s.op[j].memprogress < InCache /\ s.op[j].memprogress \in Int
        BY <1>1, <3>1 DEF CycleOK, ForwardsOK, UnitOK, OpType, Instances
      <4> QED BY <4>1 DEF InCache
    <3>2. CASE j \notin s.fwds
      BY <1>5, <2>1, <3>2
    <3> QED BY <3>1, <3>2
  <2> QED BY <1>1, <1>5, <2>2 DEF CycleOK
<1>6. LoadQueue' \subseteq LoadQueue
  BY <1>1 DEF StillQueued
<1> QED BY <1>1, <1>4, <1>5, <1>6

\* An access that the barriers mbs release passes nothing that the barrier m orders ahead
\* of it, unless an older barrier of that kind hides m, or its value comes from a store
\* behind the oldest one.
LEMMA ReleasedOrders ==
  ASSUME QueueTypes, NEW mbs, mbs \subseteq membar_tags, Retired(mbs),
         NEW a \in LoadQueue \cup StoreQueue, NEW b \in LoadQueue \cup StoreQueue, Released(mbs, b),
         NEW m \in a .. b, Membar(m), NEW kind \in prog[m].order, Orders(kind, a, b)
  PROVE  \/ \E d \in mbs : d < a /\ kind \in prog[d].order
         \/ kind = "SL" /\ IsLoad(b)
            /\ \E st \in Older(StoreQueue, b) :
                 MemMatch(b, st) /\ \E d \in mbs : d < st /\ kind \in prog[d].order
<1> SUFFICES ASSUME \A d \in mbs : kind \in prog[d].order => ~(d < a)
             PROVE  kind = "SL" /\ IsLoad(b)
                    /\ \E st \in Older(StoreQueue, b) :
                         MemMatch(b, st) /\ \E d \in mbs : d < st /\ kind \in prog[d].order
  OBVIOUS
<1> DEFINE M == MembarTag(mbs, kind)
<1>1. /\ Listed \subseteq Tags /\ Tags = 1 .. Len(prog) /\ Len(prog) \in Nat /\ next \in Nat
      /\ a \in Listed /\ b \in Listed /\ StoreQueue \subseteq Listed /\ LoadQueue \subseteq Listed
      /\ (\A i \in LoadQueue : IsLoad(i)) /\ (\A i \in StoreQueue : IsStore(i))
      /\ (\A i \in membar_tags : Membar(i) /\ i \in Listed)
  BY Places DEF QueueTypes
<1>2. \A i \in LoadQueue \cup StoreQueue : ~Membar(i) /\ (Reads(i) \/ IsStore(i))
  BY <1>1 DEF IsLoad, IsStore, Reads, Membar
<1>3. a \in Nat /\ b \in Nat /\ m \in Nat /\ a < m /\ m < b /\ m \in Listed
  <2>1. a \in Nat /\ b \in Nat /\ m \in Nat /\ a <= m /\ m <= b /\ b <= next - 1 /\ 1 <= a
    BY <1>1 DEF Listed
  <2>2. a # m /\ m # b
    BY <1>2
  <2> QED BY <1>1, <2>1, <2>2 DEF Listed
<1>4. m \in mbs
  <2>1. Awaits(kind, a)
    BY <1>2 DEF Awaits, Orders
  <2> QED BY <1>3, <2>1 DEF Retired
<1>5. M \in mbs /\ kind \in prog[M].order /\ M \in Nat /\ a < M /\ M < b
  <2>1. mbs \in SUBSET Nat
    BY <1>1 DEF Listed
  <2>2. /\ M \in Nat /\ (M = NoMembar \/ (M \in mbs /\ kind \in prog[M].order)) /\ M <= m
    BY <1>1, <1>4, <2>1, MembarTagIs
  <2> HIDE DEF M
  <2>3. M # NoMembar
    BY <1>1, <1>3, <2>2 DEF NoMembar, Listed
  <2>4. ~(M < a) /\ M # a
    BY <1>1, <1>2, <2>2, <2>3
  <2> QED BY <1>3, <2>2, <2>3, <2>4
<1>6. Reads(a) => minload \in Nat /\ minload <= a
  <2> SUFFICES ASSUME Reads(a) PROVE minload \in Nat /\ minload <= a
    OBVIOUS
  <2> DEFINE Q == LoadQueue \cup {i \in StoreQueue : IsRMW(i)}
  <2>1. a \in Q
    BY <1>1 DEF Reads, IsRMW, IsStore, IsLoad
  <2>2. Q \in SUBSET Nat
    <3>1. Listed \subseteq Nat
      BY <1>1 DEF Listed
    <3>2. \A j \in Q : j \in Listed
      BY <1>1, Zenon
    <3> HIDE DEF Q
    <3> QED BY <3>1, <3>2
  <2>3. minload = MinOf(Q)
    BY DEF minload
  <2> HIDE DEF Q
  <2> QED BY <2>1, <2>2, <2>3, MinOfIs
<1>7. IsStore(a) => minstore \in Nat /\ minstore <= a
  <2> SUFFICES ASSUME IsStore(a) PROVE minstore \in Nat /\ minstore <= a
    OBVIOUS
  <2>1. a \in StoreQueue /\ StoreQueue \in SUBSET Nat
    BY <1>1, Places DEF Listed
  <2> QED BY <2>1, MinOfIs DEF minstore
<1>8. /\ Reads(a) => BehindMembar(mbs, kind, b, minload)
      /\ IsStore(a) => BehindMembar(mbs, kind, b, minstore)
  <2>1. /\ Reads(a) => b > M /\ minload < M
        /\ IsStore(a) => b > M /\ minstore < M
    <3> HIDE DEF M
    <3> QED BY <1>3, <1>5, <1>6, <1>7
  <2> QED BY <2>1 DEF BehindMembar
<1>9. kind # "MEMISSUE"
  <2>1. b <= MembarTag(mbs, "MEMISSUE")
    BY DEF Released
  <2> QED BY <1>3, <1>5, <2>1
<1>10. kind # "SS" /\ kind # "LS"
  BY <1>8 DEF Orders, Released, StoreBlocked
<1>11. kind # "LL"
  <2> SUFFICES ASSUME kind = "LL" PROVE FALSE
    OBVIOUS
  <2>1. BehindMembar(mbs, "LL", b, minload)
    BY <1>8 DEF Orders
  <2> QED BY <1>1, <2>1 DEF Released, StoreBlocked, LoadBlocked, ForwardBlocked
<1>12. kind = "SL" /\ IsStore(a) /\ Reads(b) /\ BehindMembar(mbs, "SL", b, minstore)
  BY <1>8, <1>9, <1>10, <1>11 DEF Orders
<1>13. IsLoad(b)
  <2>1. ASSUME IsRMW(b) PROVE FALSE
    <3>1. IsStore(b)
      BY <2>1 DEF IsRMW, IsStore
    <3> QED BY <1>12, <2>1, <3>1 DEF Released, StoreBlocked
  <2> QED BY <1>12, <2>1 DEF Reads, IsLoad, IsRMW
<1>14. PICK st \in Older(StoreQueue, b) : MemMatch(b, st) /\ ~ForwardBlocked(mbs, b, st)
  BY <1>12, <1>13 DEF Released, LoadBlocked
<1>15. M < st
  <2>1. ~(b > M /\ st < M)
    BY <1>12, <1>14 DEF ForwardBlocked, BehindMembar
  <2>2. st \in Nat /\ st # M
    BY <1>1, <1>2, <1>5, <1>14 DEF Older, Listed
  <2> HIDE DEF M
  <2> QED BY <1>3, <1>5, <2>1, <2>2
<1> HIDE DEF M
<1> QED BY <1>5, <1>12, <1>13, <1>14, <1>15

LEMMA StepObeys ==
  ASSUME IInv, Retired(membar_tags), [Next]_vars
  PROVE  Retired(membar_tags)' /\ ObeysMembars
<1>1. QueueTypes /\ next \in Nat /\ Listed \subseteq Tags /\ LoadQueue \subseteq Listed /\ StoreQueue \subseteq Listed
  BY Places DEF IInv
<1>2. ASSUME NEW room \in 0 .. L1Ports, IssueMem(room) PROVE Retired(membar_tags)' /\ ObeysMembars
  <2>1. PICK mbs : mbs = membar_tags'
    OBVIOUS
  <2>2. /\ mbs \subseteq membar_tags /\ Retired(mbs)
        /\ LoadQueue' \subseteq LoadQueue /\ UNCHANGED <<prog, next, StoreQueue>>
        /\ \A j \in Tags : op[j].memprogress = 0 /\ op'[j].memprogress # 0 =>
             j \in LoadQueue \cup StoreQueue /\ Released(mbs, j)
    BY <1>2, <2>1, CycleIssues
  <2>3. Retired(membar_tags)'
    <3>1. \A m \in Listed : Membar(m) /\ m \notin mbs =>
            \A a \in LoadQueue \cup StoreQueue : a < m => \A kind \in prog[m].order : ~Awaits(kind, a)
      BY <2>2 DEF Retired
    <3> QED BY <2>1, <2>2, <3>1 DEF Retired, Listed, Membar, Awaits, Reads, IsStore
  <2>4. ASSUME NEW a \in LoadQueue \cup StoreQueue, NEW b \in a + 1 .. next - 1, NEW m \in a .. b, Membar(m),
               op[b].memprogress = 0, op'[b].memprogress # 0, NEW kind \in prog[m].order, Orders(kind, a, b)
        PROVE  PassesMembars(a, b, kind)
    <3>1. b \in Tags
      BY <1>1 DEF Listed
    <3>2. b \in LoadQueue \cup StoreQueue /\ Released(mbs, b)
      BY <2>2, <2>4, <3>1
    <3>3. \/ \E d \in mbs : d < a /\ kind \in prog[d].order
          \/ kind = "SL" /\ IsLoad(b)
             /\ \E st \in Older(StoreQueue, b) :
                  MemMatch(b, st) /\ \E d \in mbs : d < st /\ kind \in prog[d].order
      BY <1>1, <2>2, <2>4, <3>2, ReleasedOrders
    <3> QED BY <2>1, <3>3 DEF PassesMembars
  <2> QED BY <2>3, <2>4 DEF ObeysMembars
<1>3. ASSUME Quiet PROVE Retired(membar_tags)' /\ ObeysMembars
  <2>1. ASSUME NEW m \in Listed', Membar(m)', m \notin membar_tags', NEW a \in LoadQueue' \cup StoreQueue', a < m,
               NEW kind \in prog'[m].order
        PROVE  ~Awaits(kind, a)'
    <3>1. m \in Listed /\ m \notin membar_tags /\ Membar(m) /\ kind \in prog[m].order
      BY <1>3, <2>1 DEF Quiet, Membar
    <3>2. a \in LoadQueue \cup StoreQueue
      <4>1. CASE a = next' - 1
        <5>1. m \in 1 .. next' - 1
          BY <2>1 DEF Listed
        <5> QED BY <2>1, <4>1, <5>1
      <4> QED BY <1>3, <4>1 DEF Quiet
    <3>3. ~Awaits(kind, a)
      BY <2>1, <3>1, <3>2 DEF Retired
    <3> QED BY <1>3, <3>3 DEF Quiet, Awaits, Reads, IsStore
  <2>2. ASSUME NEW b \in Listed PROVE op'[b].memprogress # 0 => op[b].memprogress # 0
    BY <1>1, <1>3 DEF Quiet
  <2>3. \A a \in LoadQueue \cup StoreQueue : \A b \in a + 1 .. next - 1 : b \in Listed
    BY <1>1 DEF Listed
  <2> QED BY <2>1, <2>2, <2>3 DEF Retired, ObeysMembars
<1> QED BY <1>2, <1>3, StepsAreQuiet

\* In every reachable state, of every program, a barrier that has retired has nothing
\* left to await.
LEMMA BarriersRetire == Spec => [](IInv /\ Retired(membar_tags))
<1>1. Init => Retired(membar_tags)
  BY DEF Init, Retired
<1>2. IInv /\ Retired(membar_tags) /\ [Next]_vars => Retired(membar_tags)'
  BY StepObeys
<1> QED BY <1>1, <1>2, UnitInvariant, PTL DEF Spec

\* Nothing is issued, and no value is forwarded, past what a barrier orders ahead of it,
\* but where the unit looks at an older barrier of the same kind alone.
THEOREM MembarsObeyed == Spec => IssuesObeyMembars
<1>1. IInv /\ Retired(membar_tags) /\ [Next]_vars => ObeysMembars
  BY StepObeys
<1> QED BY <1>1, BarriersRetire, PTL DEF Spec, IssuesObeyMembars

\* In a program whose barriers are apart there is no such place.
LEMMA NothingPasses ==
  ASSUME BarriersApart, QueueTypes, membar_tags' \subseteq Listed, \A d \in membar_tags' : Membar(d),
         NEW a \in LoadQueue \cup StoreQueue, NEW b \in Listed, NEW m \in a .. b, Membar(m),
         NEW kind \in prog[m].order, Orders(kind, a, b)
  PROVE  ~PassesMembars(a, b, kind)
<1>1. /\ Tags = DOMAIN prog /\ Listed \subseteq Tags /\ Tags \subseteq Nat
      /\ LoadQueue \subseteq Listed /\ StoreQueue \subseteq Listed
  BY Places DEF Tags
<1>2. /\ a \in DOMAIN prog /\ b \in DOMAIN prog /\ a \in Nat /\ b \in Nat /\ m \in Nat
      /\ (\A i \in LoadQueue \cup StoreQueue : prog[i].k \in {"ld", "st", "rmw"})
  BY <1>1, Places DEF IsLoad, IsStore
<1>3. a < m /\ m \in DOMAIN prog
  <2>1. a # m /\ a <= m /\ m <= b
    BY <1>2 DEF Membar
  <2>2. a >= 1 /\ b <= next - 1 /\ next \in Nat
    BY <1>1, Places DEF Listed
  <2>3. m \in Listed
    BY <1>2, <2>1, <2>2 DEF Listed
  <2> QED BY <1>1, <1>2, <2>1, <2>3
<1>4. \A d, i, e \in DOMAIN prog : d < i /\ i < e /\ prog[d].k = "mb" =>
        /\ prog[e].k = "mb" /\ prog[i].k \in {"ld", "st", "rmw"} => prog[d].order \cap prog[e].order = {}
        /\ prog[e].k = "ld" /\ prog[i].k \in {"st", "rmw"} /\ "SL" \in prog[d].order =>
             prog[i].bytes # prog[e].bytes
  BY DEF BarriersApart, Apart, QueueTypes
<1>5. ASSUME NEW d \in membar_tags', d < a PROVE kind \notin prog[d].order
  <2>1. d \in DOMAIN prog /\ prog[d].k = "mb" /\ prog[m].k = "mb" /\ prog[a].k \in {"ld", "st", "rmw"}
    BY <1>1, <1>2 DEF Membar
  <2>2. prog[d].order \cap prog[m].order = {}
    BY <1>2, <1>3, <1>4, <1>5, <2>1
  <2> QED BY <2>2
<1>6. ASSUME kind = "SL", IsLoad(b), NEW st \in Older(StoreQueue, b), MemMatch(b, st),
             NEW d \in membar_tags', d < st
      PROVE  kind \notin prog[d].order
  <2>1. /\ d \in DOMAIN prog /\ st \in DOMAIN prog /\ st < b /\ prog[d].k = "mb" /\ prog[b].k = "ld"
        /\ prog[st].k \in {"st", "rmw"} /\ prog[st].bytes = prog[b].bytes
    BY <1>1, <1>6, Places DEF Membar, IsLoad, IsStore, MemMatch, Older
  <2> QED BY <1>2, <1>4, <1>6, <2>1
<1> QED BY <1>5, <1>6 DEF PassesMembars

\* Nothing is issued, nor a value forwarded, before what a barrier orders ahead of it is
\* performed, in every program whose barriers are apart.
THEOREM MembarsHold ==
  ASSUME BarriersApart
  PROVE  Spec => []MembarsOrder
<1>1. Init => MembarsOrder
  BY DEF Init, MembarsOrder
<1>2. ASSUME IInv, Retired(membar_tags), MembarsOrder, [Next]_vars PROVE MembarsOrder'
  <2>1. QueueTypes /\ next \in Nat /\ Listed \subseteq Tags /\ Tags \subseteq Nat
        /\ LoadQueue \subseteq Listed /\ StoreQueue \subseteq Listed
    BY <1>2, Places DEF IInv
  <2>2. ObeysMembars
    BY <1>2, StepObeys
  <2>3. ASSUME NEW room \in 0 .. L1Ports, IssueMem(room) PROVE MembarsOrder'
    <3>1. /\ membar_tags' \subseteq membar_tags /\ LoadQueue' \subseteq LoadQueue
          /\ UNCHANGED <<prog, next, StoreQueue>>
      BY <1>2, <2>3, CycleIssues
    <3>2. membar_tags' \subseteq Listed /\ \A d \in membar_tags' : Membar(d)
      BY <2>1, <3>1 DEF QueueTypes
    <3>3. ASSUME NEW a \in LoadQueue \cup StoreQueue, NEW b \in a + 1 .. next - 1, NEW m \in a .. b, Ordered(m, a, b)
          PROVE  op'[b].memprogress = 0
      <4>1. op[b].memprogress = 0
        BY <1>2, <3>3 DEF MembarsOrder
      <4>2. PICK kind \in prog[m].order : Membar(m) /\ Orders(kind, a, b)
        BY <3>3 DEF Ordered
      <4>3. b \in Listed
        BY <2>1 DEF Listed
      <4>4. ~PassesMembars(a, b, kind)
        BY <2>1, <3>2, <4>2, <4>3, NothingPasses
      <4> QED BY <2>2, <4>1, <4>2, <4>4 DEF ObeysMembars
    <3>4. ASSUME NEW m, NEW a, NEW b PROVE Ordered(m, a, b)' = Ordered(m, a, b)
      BY <3>1 DEF Ordered, Membar, Orders, Reads, IsStore
    <3> QED BY <3>1, <3>3, <3>4 DEF MembarsOrder
  <2>4. ASSUME Quiet PROVE MembarsOrder'
    <3>1. /\ prog' = prog
          /\ \A j \in Tags : op'[j].memprogress # 0 => op[j].memprogress # 0 /\ (j < next' => j < next)
          /\ \A j \in LoadQueue' \cup StoreQueue' : j \in LoadQueue \cup StoreQueue \/ j = next' - 1
      BY <2>4 DEF Quiet
    <3>2. ASSUME NEW a \in LoadQueue' \cup StoreQueue', NEW b \in a + 1 .. next' - 1, NEW m \in a .. b,
                 Ordered(m, a, b)', op'[b].memprogress # 0
          PROVE  FALSE
      <4>1. QueueTypes'
        BY <1>2, StepHolds DEF IInv
      <4>5. Tags = 1 .. Len(prog) /\ Len(prog) \in Nat
        BY <2>1, Places
      <4>6. PICK n : n = next' /\ n \in 1 .. Len(prog) + 1
        BY <3>1, <4>1 DEF QueueTypes
      <4>2. a \in 1 .. n - 1
        <5>1. PICK h : h = head' /\ h \in 1 .. n
          BY <4>1, <4>6 DEF QueueTypes
        <5>2. a \in h .. n - 1 \/ a \in 1 .. n - 1
          BY <4>1, <4>6, <5>1 DEF QueueTypes, Listed
        <5> QED BY <4>5, <4>6, <5>1, <5>2
      <4>8. b \in Tags /\ b \in Nat /\ a \in Nat /\ a < b /\ b < n /\ a # n - 1
        <5>1. b \in a + 1 .. n - 1
          BY <4>6
        <5>2. n \in Nat /\ n <= Len(prog) + 1 /\ a \in Nat /\ a >= 1
          BY <4>2, <4>5, <4>6
        <5>3. b \in Nat /\ a < b /\ b < n /\ a # n - 1 /\ b >= 1 /\ b <= Len(prog)
          BY <4>5, <5>1, <5>2
        <5> QED BY <4>5, <5>2, <5>3
      <4>3. op[b].memprogress # 0 /\ b < next /\ a \in LoadQueue \cup StoreQueue
        BY <3>1, <3>2, <4>6, <4>8
      <4>4. Ordered(m, a, b)
        BY <3>1, <3>2 DEF Ordered, Membar, Orders, Reads, IsStore
      <4>7. b \in a + 1 .. next - 1
        BY <2>1, <4>3, <4>8
      <4> QED BY <1>2, <3>2, <4>3, <4>4, <4>7 DEF MembarsOrder
    <3> QED BY <3>2 DEF MembarsOrder
  <2> QED BY <1>2, <2>3, <2>4, StepsAreQuiet
<1> QED BY <1>1, <1>2, BarriersRetire, PTL DEF Spec

=============================================================================
