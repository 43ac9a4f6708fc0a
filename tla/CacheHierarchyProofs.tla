------------------------ MODULE CacheHierarchyProofs ------------------------
\* Proofs about the caches of one processor: every access of any program is held in
\* exactly one place until it is performed, whatever the sizes of the caches, the
\* MSHRs and the queues. The invariant; the way down, from the processor to the MSHRs
\* of the second level; the way up, from the bus, the snoops and the replies to the
\* messages by which the second level answers and invalidates the first; and what
\* holds of the whole.
EXTENDS CacheHierarchy, FiniteSetTheorems, WellFoundedInduction, TLAPS

-----------------------------------------------------------------------------
\* Types. Program is the sequence of accesses the processor issues; a request is one
\* of them on its way, known by its place in the program.
Kinds == {"none", "WBACK", "READ", "WRITE", "RMW", "FLUSHC", "PURGEC"}
AnyLine == Lines \cup {NoLine}
AnyRequest == [id : Nat, kind : Kinds, line : AnyLine, cache : Caches, progress : 0 .. 1,
               l1mshr : BOOLEAN, sh : BOOLEAN]
Requests(p) ==
  {r \in AnyRequest : /\ r.id \in DOMAIN p
                      /\ r.kind = p[r.id].kind /\ r.line = p[r.id].line /\ r.cache = p[r.id].cache
                      /\ r.l1mshr => Access(r.kind)}
WriteBacks == {r \in AnyRequest : r.id = 0 /\ ~r.l1mshr /\ r.kind = "WBACK" /\ r.progress = 0}
\* Requests of one first-level cache that are not in an MSHR, and those of one line.
Entering(p, c) == {r \in Requests(p) : r.cache = c /\ (r.progress = 0 => ~r.l1mshr)}
OfLine(p, x) == {r \in Requests(p) : r.line = x}
Missed(p, c, x) == {r \in Requests(p) : r.line = x /\ r.cache = c}

Tags == [tag : AnyLine, state : {"INVALID", "SH_CL", "PR_CL", "PR_DY"}]
MSHRs(S, ways) ==
  {m \in [valid : BOOLEAN, main : S \cup {NoRequest}, coal : Seq(S), war : BOOLEAN, miss : 0 .. 2, way : ways,
          pend : Kinds, writes : BOOLEAN, lock : BOOLEAN,
          bus : {"none", "snooped", "issued", "replied"}, sh : BOOLEAN, releasing : BOOLEAN] :
     (m.valid <=> m.main # NoRequest) /\ (m.valid \/ m.coal = <<>>)}
Messages(p) ==
  {e \in [kind : {"REPLY", "COHE"}, line : AnyLine, sh : BOOLEAN, to : {"INVALIDATE", "SHARED"},
          own : BOOLEAN, flush : Requests(p) \cup {NoRequest}, dirty : BOOLEAN,
          stuck : BOOLEAN, wrb : AnyLine] :
     e.kind = "REPLY" => e.line \in Lines}
DataItems(p) ==
  {d \in [kind : {"OUT", "REPLY", "FILL"}, r : Requests(p) \cup {NoRequest}] :
     d.kind # "OUT" => d.r \in Requests(p)}
Snoops == [line : Lines, kind : {"own", "READ_SH", "READ_OWN"}]
Replies == [line : Lines, progress : 0 .. 3, wrb : BOOLEAN]

L1Type(p) ==
  /\ l1 = [c \in Caches |-> [req |-> l1[c].req, down |-> l1[c].down, ways |-> l1[c].ways, mshr |-> l1[c].mshr]]
  /\ \A c \in Caches :
       /\ l1[c].req \in Seq(Entering(p, c)) /\ l1[c].down \in Seq(Messages(p))
       /\ l1[c].ways \in [1 .. Ways1 -> Tags]
       /\ l1[c].mshr = [x \in Lines |-> l1[c].mshr[x]]
       /\ \A x \in Lines : l1[c].mshr[x] \in MSHRs(Missed(p, c, x), 1 .. Ways1)
L2Type(p) ==
  /\ l2 = [req |-> l2.req, reply |-> l2.reply, cohe |-> l2.cohe, data |-> l2.data, ways |-> l2.ways,
           mshr |-> l2.mshr]
  /\ l2.req \in Seq(Requests(p) \cup WriteBacks) /\ l2.reply \in Seq(Replies)
  /\ l2.cohe \in Seq(Snoops) /\ l2.data \in Seq(DataItems(p))
  /\ l2.ways \in [1 .. Ways2 -> Tags]
  /\ l2.mshr = [x \in Lines |-> l2.mshr[x]]
  /\ \A x \in Lines : l2.mshr[x] \in MSHRs(OfLine(p, x), 1 .. Ways2)
Issued == Len(done.count) - Len(done.left)
RestType(p) ==
  /\ bus \in [remote : [Lines -> {"none", "shared", "owned"}], snoops : Nat, asked : SUBSET Lines]
  /\ done \in [left : Seq(Accesses), count : [DOMAIN p -> Nat], fault : BOOLEAN]
  /\ Len(done.left) <= Len(p)
  /\ \A k \in DOMAIN done.left : done.left[k] = p[Len(p) - Len(done.left) + k]

-----------------------------------------------------------------------------
\* How many elements of a sequence belong to a set.
One(e, P) == IF e \in P THEN 1 ELSE 0
Count(q, P) == Cardinality({k \in 1 .. Len(q) : q[k] \in P})

\* The requests of access i for which an MSHR of the first level waits (w), or none;
\* what else can hold an access: a reply to the first level, a flush that the data
\* cache has to answer.
Waited == TRUE
Alone == FALSE
Holding(p, i, w) == {r \in Requests(p) : r.id = i /\ r.l1mshr = w}
OfAccess(p, i) == {r \in Requests(p) : r.id = i}
Answers(p, i, w) == {d \in DataItems(p) : d.kind = "REPLY" /\ d.r \in Holding(p, i, w)}
RepliesOf(p, x) == {e \in Messages(p) : e.kind = "REPLY" /\ e.line = x}
FlushesOf(p, i) == {e \in Messages(p) : e.kind = "COHE" /\ e.flush.id = i}

\* How often access i is on its way to memory: in the queue of its first-level cache
\* or of the second level, in an MSHR or in the data pipe there.
AtL1(p, i, w) == Count(l1[p[i].cache].req, Holding(p, i, w))
AtL2(p, i, w) == Count(l2.req, Holding(p, i, w))
InL2(p, i, w) == LET m == l2.mshr[p[i].line]
                 IN One(m.main, Holding(p, i, w)) + Count(m.coal, Holding(p, i, w))
InData(p, i, w) == Count(l2.data, Answers(p, i, w))
Below(p, i, w) == AtL1(p, i, w) + AtL2(p, i, w) + InL2(p, i, w) + InData(p, i, w)
\* How often it is in the MSHR of its first-level cache, and in a flush message; how
\* many replies are on their way to cache c for line x.
InMSHR(p, i) ==
  LET m == l1[p[i].cache].mshr[p[i].line]
  IN One(m.main, OfAccess(p, i)) + Count(m.coal, OfAccess(p, i))
InFlush(p, i) == Count(l1["D"].down, FlushesOf(p, i))
ReplyCount(p, c, x) == Count(l1[c].down, RepliesOf(p, x))

\* An MSHR of the first level has either a request below or a reply, and no other
\* request below claims to come from an MSHR.
MSHRCarried(p) ==
  /\ \A i \in DOMAIN p :
       LET c == p[i].cache  x == p[i].line
       IN Below(p, i, Waited) = IF l1[c].mshr[x].main.id = i THEN 1 - ReplyCount(p, c, x) ELSE 0
  /\ \A c \in Caches, x \in Lines : ~l1[c].mshr[x].valid => ReplyCount(p, c, x) = 0

\* An access is performed once or held in one place.
AccessHeld(p) ==
  \A i \in DOMAIN p :
    done.count[i] + Below(p, i, Alone) + InMSHR(p, i) + InFlush(p, i) = IF i <= Issued THEN 1 ELSE 0

\* The life of an MSHR of the second level on the bus.
OwnSnoops(x) == {s \in Snoops : s.line = x /\ s.kind = "own"}
BusReplies(x) == {r \in Replies : r.line = x}
Fills(p, x) == {d \in DataItems(p) : d.kind = "FILL" /\ d.r.line = x}
BusLife(p) ==
  \A x \in Lines :
    LET b == l2.mshr[x].bus
    IN /\ Count(l2.cohe, OwnSnoops(x)) = IF b = "snooped" THEN 1 ELSE 0
       /\ Count(l2.reply, BusReplies(x)) + Count(l2.data, Fills(p, x)) = IF b = "replied" THEN 1 ELSE 0
       /\ b # "none" => l2.mshr[x].valid

Inv(p) == L1Type(p) /\ L2Type(p) /\ RestType(p) /\ BusLife(p) /\ MSHRCarried(p) /\ AccessHeld(p) /\ ~done.fault
IInv == \E p \in Programs : Inv(p)

-----------------------------------------------------------------------------
\* A count is a number, and it is zero when no element belongs to the set.
LEMMA CountType ==
  ASSUME NEW S, NEW q \in Seq(S), NEW P
  PROVE  /\ IsFiniteSet({k \in 1 .. Len(q) : q[k] \in P})
         /\ Count(q, P) \in Nat
         /\ Count(q, P) = 0 <=> \A k \in 1 .. Len(q) : q[k] \notin P
<1> DEFINE K == {k \in 1 .. Len(q) : q[k] \in P}
<1>1. IsFiniteSet(1 .. Len(q))
  BY FS_Interval
<1>2. IsFiniteSet(K)
  BY <1>1, FS_Subset
<1>3. Cardinality(K) \in Nat /\ (Cardinality(K) = 0 <=> K = {})
  BY <1>2, FS_CardinalityType, FS_EmptySet
<1>4. Count(q, P) = Cardinality(K)
  BY DEF Count
<1> QED BY <1>2, <1>3, <1>4

\* Two sequences of the same length whose elements belong or do not belong alike.
LEMMA CountSame ==
  ASSUME NEW q, NEW t, NEW P, NEW Q, Len(q) = Len(t),
         \A k \in 1 .. Len(q) : q[k] \in P <=> t[k] \in Q
  PROVE  Count(q, P) = Count(t, Q)
<1>1. {k \in 1 .. Len(q) : q[k] \in P} = {k \in 1 .. Len(t) : t[k] \in Q}
  OBVIOUS
<1> QED BY <1>1 DEF Count

LEMMA CountEmpty == ASSUME NEW P PROVE Count(<<>>, P) = 0
<1>1. {k \in 1 .. Len(<<>>) : <<>>[k] \in P} = {}
  OBVIOUS
<1> QED BY <1>1, FS_EmptySet DEF Count

LEMMA CountAppend ==
  ASSUME NEW S, NEW q \in Seq(S), NEW e \in S, NEW P
  PROVE  Count(Append(q, e), P) = Count(q, P) + One(e, P)
<1> DEFINE a == Append(q, e)
           K == {k \in 1 .. Len(q) : q[k] \in P}
           L == {k \in 1 .. Len(a) : a[k] \in P}
<1>1. a \in Seq(S) /\ Len(a) = Len(q) + 1 /\ a[Len(q) + 1] = e /\ (\A k \in 1 .. Len(q) : a[k] = q[k]) /\ Len(q) \in Nat
  OBVIOUS
<1> HIDE DEF a
<1>2. IsFiniteSet(K) /\ Cardinality(K) \in Nat
  BY CountType DEF Count
<1>3. CASE e \in P
  <2>1. L = K \cup {Len(q) + 1} /\ Len(q) + 1 \notin K
    BY <1>1, <1>3
  <2>2. Cardinality(L) = Cardinality(K) + 1
    BY <1>2, <2>1, FS_AddElement
  <2>3. Count(a, P) = Cardinality(L) /\ Count(q, P) = Cardinality(K) /\ One(e, P) = 1
    BY <1>3 DEF Count, One
  <2> HIDE DEF K, L
  <2>4. Count(a, P) = Count(q, P) + One(e, P)
    BY <2>2, <2>3
  <2> QED BY <2>4 DEF a
<1>4. CASE e \notin P
  <2>1. L = K
    BY <1>1, <1>4
  <2>2. Count(a, P) = Cardinality(L) /\ Count(q, P) = Cardinality(K) /\ One(e, P) = 0
    BY <1>4 DEF Count, One
  <2> HIDE DEF K, L
  <2>3. Cardinality(L) = Cardinality(K)
    BY <2>1
  <2>4. Count(a, P) = Count(q, P) + One(e, P)
    BY <1>2, <2>2, <2>3
  <2> QED BY <2>4 DEF a
<1> QED BY <1>3, <1>4

\* One element taken out.
LEMMA WithoutElements ==
  ASSUME NEW S, NEW q \in Seq(S), NEW i \in 1 .. Len(q)
  PROVE  /\ Without(q, i) \in Seq(S) /\ Len(Without(q, i)) = Len(q) - 1
         /\ \A k \in 1 .. Len(q) - 1 : Without(q, i)[k] = IF k < i THEN q[k] ELSE q[k + 1]
<1> DEFINE a == SubSeq(q, 1, i - 1)
           b == SubSeq(q, i + 1, Len(q))
<1>1. Len(q) \in Nat /\ i \in Nat /\ 1 <= i /\ i <= Len(q)
  OBVIOUS
<1>2. a \in Seq(S) /\ Len(a) = i - 1 /\ \A k \in 1 .. i - 1 : a[k] = q[k]
  BY <1>1
<1>3. b \in Seq(S) /\ Len(b) = Len(q) - i /\ \A k \in 1 .. Len(q) - i : b[k] = q[k + i]
  BY <1>1
<1> HIDE DEF a, b
<1>4. /\ a \o b \in Seq(S) /\ Len(a \o b) = Len(q) - 1
      /\ \A k \in 1 .. Len(q) - 1 : (a \o b)[k] = IF k <= Len(a) THEN a[k] ELSE b[k - Len(a)]
  <2>1. a \o b \in Seq(S) /\ Len(a \o b) = Len(a) + Len(b)
    <3>1. a \in Seq(S) /\ b \in Seq(S)
      BY <1>2, <1>3
    <3> QED BY <3>1
  <2>2. \A k \in 1 .. Len(a) + Len(b) : (a \o b)[k] = IF k <= Len(a) THEN a[k] ELSE b[k - Len(a)]
    BY <1>2, <1>3
  <2>3. Len(a) + Len(b) = Len(q) - 1
    BY <1>1, <1>2, <1>3
  <2> QED BY <2>1, <2>2, <2>3
<1>5. ASSUME NEW k \in 1 .. Len(q) - 1
      PROVE  (a \o b)[k] = IF k < i THEN q[k] ELSE q[k + 1]
  <2>1. CASE k < i
    <3>1. k \in 1 .. i - 1 /\ k <= Len(a)
      BY <1>1, <1>2, <2>1
    <3> QED BY <1>2, <1>4, <2>1, <3>1
  <2>2. CASE ~(k < i)
    <3>1. k - Len(a) \in 1 .. Len(q) - i /\ k - Len(a) + i = k + 1 /\ ~(k <= Len(a))
      BY <1>1, <1>2, <2>2
    <3> QED BY <1>3, <1>4, <2>2, <3>1
  <2> QED BY <2>1, <2>2
<1>6. Without(q, i) = a \o b
  BY DEF Without, a, b
<1> QED BY <1>1, <1>4, <1>5, <1>6

LEMMA CountWithout ==
  ASSUME NEW S, NEW q \in Seq(S), NEW i \in 1 .. Len(q), NEW P
  PROVE  /\ Without(q, i) \in Seq(S)
         /\ Count(q, P) = Count(Without(q, i), P) + One(q[i], P)
<1> DEFINE t == Without(q, i)
           K == {k \in 1 .. Len(q) : q[k] \in P}
           L == {k \in 1 .. Len(t) : t[k] \in P}
           later == [k \in L |-> IF k < i THEN k ELSE k + 1]
<1>1. /\ t \in Seq(S) /\ Len(q) \in Nat /\ Len(t) = Len(q) - 1
      /\ \A k \in 1 .. Len(t) : t[k] = IF k < i THEN q[k] ELSE q[k + 1]
  BY WithoutElements
<1> HIDE DEF t
<1>2. IsFiniteSet(K) /\ IsFiniteSet(L) /\ Cardinality(K) \in Nat /\ Cardinality(L) \in Nat
  BY <1>1, CountType DEF Count
<1>3. later \in Bijection(L, K \ {i})
  <2>1. later \in [L -> K \ {i}]
    BY <1>1
  <2>2. \A j, k \in L : later[j] = later[k] => j = k
    BY <1>1
  <2>3. \A n \in K \ {i} : \E k \in L : later[k] = n
    <3> SUFFICES ASSUME NEW n \in K \ {i} PROVE \E k \in L : later[k] = n
      OBVIOUS
    <3>1. CASE n < i
      <4>1. n \in L /\ later[n] = n
        BY <1>1, <3>1
      <4> QED BY <4>1
    <3>2. CASE n > i
      <4>1. n - 1 \in L
        BY <1>1, <3>2
      <4>2. later[n - 1] = n
        BY <4>1, <3>2
      <4> QED BY <4>1, <4>2
    <3> QED BY <3>1, <3>2
  <2> QED BY <2>1, <2>2, <2>3 DEF Bijection, Injection, Surjection, IsInjective
<1>4. Cardinality(L) = Cardinality(K \ {i})
  <2>1. ExistsBijection(L, K \ {i})
    BY <1>3 DEF ExistsBijection
  <2> QED BY <1>2, <2>1, FS_Bijection
<1>5. Cardinality(K \ {i}) = IF i \in K THEN Cardinality(K) - 1 ELSE Cardinality(K)
  BY <1>2, FS_RemoveElement
<1>6. Count(q, P) = Cardinality(K) /\ Count(t, P) = Cardinality(L) /\ (i \in K <=> q[i] \in P)
  BY DEF Count
<1> QED BY <1>1, <1>2, <1>4, <1>5, <1>6 DEF One, t

LEMMA CountTail ==
  ASSUME NEW S, NEW q \in Seq(S), q # <<>>, NEW P
  PROVE  /\ Head(q) \in S /\ Tail(q) \in Seq(S)
         /\ Count(q, P) = One(Head(q), P) + Count(Tail(q), P)
<1>1. /\ Head(q) = q[1] /\ 1 \in 1 .. Len(q) /\ Head(q) \in S /\ Tail(q) \in Seq(S)
      /\ Len(Tail(q)) = Len(q) - 1 /\ \A k \in 1 .. Len(q) - 1 : Tail(q)[k] = q[k + 1]
  OBVIOUS
<1>2. Count(q, P) = Count(Without(q, 1), P) + One(q[1], P)
  BY <1>1, CountWithout
<1>3. Count(Tail(q), P) \in Nat /\ One(Head(q), P) \in Nat
  BY Zenon, <1>1, CountType DEF One
<1>4. Count(Tail(q), P) = Count(Without(q, 1), P)
  <2>1. Len(Without(q, 1)) = Len(q) - 1 /\ \A k \in 1 .. Len(q) - 1 : Without(q, 1)[k] = q[k + 1]
    <3>1. ASSUME NEW k \in 1 .. Len(q) - 1 PROVE ~(k < 1)
      OBVIOUS
    <3> QED BY Zenon, <1>1, <3>1, WithoutElements
  <2>2. Len(Tail(q)) = Len(Without(q, 1))
    BY <1>1, <2>1
  <2>3. \A k \in 1 .. Len(Tail(q)) : Tail(q)[k] \in P <=> Without(q, 1)[k] \in P
    BY <1>1, <2>1
  <2> DEFINE u == Tail(q)
             v == Without(q, 1)
  <2> HIDE DEF u, v
  <2>4. Len(u) = Len(v) /\ \A k \in 1 .. Len(u) : u[k] \in P <=> v[k] \in P
    BY <2>2, <2>3 DEF u, v
  <2>5. Count(u, P) = Count(v, P)
    BY <2>4, CountSame
  <2> QED BY Zenon, <2>5 DEF u, v
<1> QED BY <1>1, <1>2, <1>3, <1>4

LEMMA CountCons ==
  ASSUME NEW S, NEW e \in S, NEW q \in Seq(S), NEW P
  PROVE  Count(<<e>> \o q, P) = One(e, P) + Count(q, P)
<1>1. <<e>> \o q \in Seq(S) /\ <<e>> \o q # <<>> /\ Head(<<e>> \o q) = e /\ Tail(<<e>> \o q) = q
  OBVIOUS
<1> QED BY <1>1, CountTail

\* The elements other than one, and that one.
LEMMA CountSplit ==
  ASSUME NEW S, NEW q \in Seq(S), NEW i \in 1 .. Len(q), NEW P
  PROVE  LET M == {k \in 1 .. Len(q) : q[k] \in P} \ {i}
         IN Cardinality(M) \in Nat /\ Count(q, P) = Cardinality(M) + One(q[i], P)
<1> DEFINE K == {k \in 1 .. Len(q) : q[k] \in P}
<1>1. IsFiniteSet(K) /\ Cardinality(K) \in Nat
  BY CountType DEF Count
<1>2. IsFiniteSet(K \ {i}) /\ Cardinality(K \ {i}) = IF i \in K THEN Cardinality(K) - 1 ELSE Cardinality(K)
  BY <1>1, FS_RemoveElement
<1>3. Cardinality(K \ {i}) \in Nat
  BY <1>2, FS_CardinalityType
<1>4. Count(q, P) = Cardinality(K) /\ One(q[i], P) = IF i \in K THEN 1 ELSE 0
  BY DEF Count, One
<1>5. Count(q, P) = Cardinality(K \ {i}) + One(q[i], P)
  <2> HIDE DEF K
  <2>1. CASE i \in K
    BY <1>1, <1>2, <1>3, <1>4, <2>1
  <2>2. CASE i \notin K
    BY <1>1, <1>2, <1>3, <1>4, <2>2
  <2> QED BY <2>1, <2>2
<1> QED BY <1>3, <1>5

\* One element changed.
LEMMA CountChanged ==
  ASSUME NEW S, NEW q \in Seq(S), NEW t \in Seq(S), NEW i \in 1 .. Len(q), NEW P, Len(t) = Len(q),
         \A k \in 1 .. Len(q) : k # i => (t[k] \in P <=> q[k] \in P)
  PROVE  Count(t, P) + One(q[i], P) = Count(q, P) + One(t[i], P)
<1> DEFINE M == {k \in 1 .. Len(q) : q[k] \in P} \ {i}
           N == {k \in 1 .. Len(t) : t[k] \in P} \ {i}
<1>1. Cardinality(M) \in Nat /\ Count(q, P) = Cardinality(M) + One(q[i], P)
  BY CountSplit
<1>2. Cardinality(N) \in Nat /\ Count(t, P) = Cardinality(N) + One(t[i], P)
  BY CountSplit
<1>3. M = N
  OBVIOUS
<1>4. One(q[i], P) \in Nat /\ One(t[i], P) \in Nat
  BY DEF One
<1> HIDE DEF M, N
<1> QED BY <1>1, <1>2, <1>3, <1>4

-----------------------------------------------------------------------------
\* What the types say of single values.
LEMMA ProgramType ==
  ASSUME NEW p \in Programs
  PROVE  /\ p \in Seq(Accesses) /\ Len(p) \in Nat /\ DOMAIN p = 1 .. Len(p)
         /\ \A i \in DOMAIN p : /\ i \in Nat /\ i # 0 /\ p[i] \in Accesses /\ p[i].cache \in Caches
                                /\ p[i].line \in Lines /\ p[i].kind \in Kinds
<1>1. p \in Seq(Accesses)
  BY HierarchyAssumption
<1>2. Len(p) \in Nat /\ DOMAIN p = 1 .. Len(p) /\ \A i \in DOMAIN p : p[i] \in Accesses
  BY <1>1
<1>3. \A a \in Accesses : a.cache \in Caches /\ a.line \in Lines /\ a.kind \in Kinds
  BY DEF Accesses, Kinds
<1> QED BY <1>1, <1>2, <1>3

LEMMA RequestType ==
  ASSUME NEW p \in Programs, NEW r \in Requests(p)
  PROVE  /\ r.id \in DOMAIN p /\ r.id \in Nat /\ r.id # 0 /\ r # NoRequest
         /\ r.line = p[r.id].line /\ r.cache = p[r.id].cache /\ r.line \in Lines /\ r.cache \in Caches
         /\ r.kind = p[r.id].kind /\ r.kind \in Kinds /\ r.l1mshr \in BOOLEAN /\ r.progress \in 0 .. 1
         /\ r.l1mshr => Access(r.kind)
<1>1. r \in AnyRequest /\ r.id \in DOMAIN p /\ r.line = p[r.id].line /\ r.cache = p[r.id].cache /\ r.kind = p[r.id].kind
      /\ (r.l1mshr => Access(r.kind))
  BY DEF Requests
<1>2. r.id # 0 /\ r.line \in Lines /\ r.cache \in Caches /\ r.id \in Nat
  BY <1>1, ProgramType
<1>3. r # NoRequest
  BY <1>2 DEF NoRequest
<1>4. r.kind \in Kinds /\ r.l1mshr \in BOOLEAN /\ r.progress \in 0 .. 1
  BY <1>1 DEF AnyRequest
<1> QED BY <1>1, <1>2, <1>3, <1>4

\* A request keeps its identity when its progress, the MSHR above and the sharing change.
LEMMA RequestShape ==
  ASSUME NEW p \in Programs, NEW r \in Requests(p)
  PROVE  /\ r = [id |-> r.id, kind |-> r.kind, line |-> r.line, cache |-> r.cache,
                 progress |-> r.progress, l1mshr |-> r.l1mshr, sh |-> r.sh]
         /\ r.id \in Nat /\ r.kind \in Kinds /\ r.line \in AnyLine /\ r.cache \in Caches
         /\ r.progress \in 0 .. 1 /\ r.l1mshr \in BOOLEAN /\ r.sh \in BOOLEAN
<1>1. r \in AnyRequest
  BY DEF Requests
<1>2. \A a \in AnyRequest : a = [id |-> a.id, kind |-> a.kind, line |-> a.line, cache |-> a.cache,
                                 progress |-> a.progress, l1mshr |-> a.l1mshr, sh |-> a.sh]
  BY DEF AnyRequest
<1> QED BY <1>1, <1>2 DEF AnyRequest

LEMMA RequestChanged ==
  ASSUME NEW p \in Programs, NEW r \in Requests(p), NEW g \in 0 .. 1, NEW h \in BOOLEAN
  PROVE  /\ [r EXCEPT !.progress = g, !.sh = h] \in Requests(p)
         /\ [r EXCEPT !.sh = h] \in Requests(p)
<1>1. r.id \in DOMAIN p /\ r.line = p[r.id].line /\ r.cache = p[r.id].cache /\ r.kind = p[r.id].kind
      /\ (r.l1mshr => Access(r.kind))
  BY DEF Requests
<1> QED BY <1>1, RequestShape DEF Requests, AnyRequest

LEMMA RequestMarked ==
  ASSUME NEW p \in Programs, NEW r \in Requests(p), NEW g \in 0 .. 1, NEW m \in BOOLEAN, m => Access(r.kind)
  PROVE  /\ [r EXCEPT !.progress = g, !.l1mshr = m] \in Requests(p)
         /\ [r EXCEPT !.progress = g] \in Requests(p)
<1>1. r.id \in DOMAIN p /\ r.line = p[r.id].line /\ r.cache = p[r.id].cache /\ r.kind = p[r.id].kind
      /\ (r.l1mshr => Access(r.kind))
  BY DEF Requests
<1> QED BY <1>1, RequestShape DEF Requests, AnyRequest

LEMMA WaysType ==
  ASSUME NEW n \in Nat \ {0}, NEW ways \in [1 .. n -> Tags], NEW x
  PROVE  /\ WayOf(ways, x) \in 1 .. n /\ Miss(ways, x) \in 0 .. 2
         /\ State(ways, x) \in {"INVALID", "SH_CL", "PR_CL", "PR_DY"}
         /\ Drop(ways, x) \in [1 .. n -> Tags]
         /\ \A locked : Victims(ways, locked) \subseteq 1 .. n
<1>1. WayOf(ways, x) \in 1 .. n
  BY DEF WayOf, Way
<1>2. Miss(ways, x) \in 0 .. 2
  BY DEF Miss
<1>3. State(ways, x) \in {"INVALID", "SH_CL", "PR_CL", "PR_DY"}
  BY <1>1 DEF State, Tags
<1>4. Invalid \in Tags
  BY DEF Invalid, Tags, AnyLine
<1>5. Drop(ways, x) \in [1 .. n -> Tags]
  BY <1>4 DEF Drop
<1>6. \A locked : Victims(ways, locked) \subseteq 1 .. n
  BY DEF Victims
<1> QED BY <1>1, <1>2, <1>3, <1>5, <1>6

\* MSHRs after each of the changes the handlers make.
LEMMA MSHRsType ==
  ASSUME NEW p \in Programs, NEW S \in SUBSET Requests(p), NEW n \in Nat \ {0}
  PROVE  /\ NoMSHR \in MSHRs(S, 1 .. n)
         /\ \A m \in MSHRs(S, 1 .. n) :
              /\ m.main \in S \cup {NoRequest} /\ m.coal \in Seq(S) /\ (m.valid <=> m.main # NoRequest) /\ (m.valid \/ m.coal = <<>>)
              /\ m.valid \in BOOLEAN /\ m.way \in 1 .. n /\ m.miss \in 0 .. 2
              /\ m.valid => m.main \in S
              /\ m.bus \in {"none", "snooped", "issued", "replied"}
<1>1. \A m \in MSHRs(S, 1 .. n) :
              /\ m.main \in S \cup {NoRequest} /\ m.coal \in Seq(S) /\ (m.valid <=> m.main # NoRequest) /\ (m.valid \/ m.coal = <<>>)
              /\ m.valid \in BOOLEAN /\ m.way \in 1 .. n /\ m.miss \in 0 .. 2
              /\ m.bus \in {"none", "snooped", "issued", "replied"}
  BY DEF MSHRs
<1>2. NoMSHR \in MSHRs(S, 1 .. n)
  <2>1. <<>> \in Seq(S) /\ "none" \in Kinds /\ 1 \in 1 .. n
    BY DEF Kinds
  <2> QED BY <2>1 DEF MSHRs, NoMSHR
<1> QED BY <1>1, <1>2

Alike(m, n) == m.main = n.main /\ m.coal = n.coal /\ m.valid = n.valid

LEMMA MSHRChanged ==
  ASSUME NEW S, NEW ways, NEW m \in MSHRs(S, ways)
  PROVE  /\ \A b \in BOOLEAN : [m EXCEPT !.war = b] \in MSHRs(S, ways) /\ Alike([m EXCEPT !.war = b], m)
         /\ \A k \in Kinds : [m EXCEPT !.pend = k] \in MSHRs(S, ways) /\ Alike([m EXCEPT !.pend = k], m)
         /\ \A w \in ways : [m EXCEPT !.way = w] \in MSHRs(S, ways) /\ Alike([m EXCEPT !.way = w], m)
         /\ \A b \in BOOLEAN : [m EXCEPT !.releasing = b] \in MSHRs(S, ways) /\ Alike([m EXCEPT !.releasing = b], m)
<1> DEFINE shape == [valid |-> m.valid, main |-> m.main, coal |-> m.coal, war |-> m.war, miss |-> m.miss,
                     way |-> m.way, pend |-> m.pend, writes |-> m.writes, lock |-> m.lock, bus |-> m.bus,
                     sh |-> m.sh, releasing |-> m.releasing]
<1>1. m = shape
  BY DEF MSHRs
<1>2. /\ m.valid \in BOOLEAN /\ m.main \in S \cup {NoRequest} /\ m.coal \in Seq(S) /\ m.war \in BOOLEAN
      /\ m.miss \in 0 .. 2 /\ m.way \in ways /\ m.pend \in Kinds /\ m.writes \in BOOLEAN /\ m.lock \in BOOLEAN
      /\ m.bus \in {"none", "snooped", "issued", "replied"} /\ m.sh \in BOOLEAN /\ m.releasing \in BOOLEAN
      /\ (m.valid <=> m.main # NoRequest) /\ (m.valid \/ m.coal = <<>>)
  BY DEF MSHRs
<1>3. ASSUME NEW b \in BOOLEAN
      PROVE  /\ [m EXCEPT !.war = b] \in MSHRs(S, ways) /\ Alike([m EXCEPT !.war = b], m)
             /\ [m EXCEPT !.releasing = b] \in MSHRs(S, ways) /\ Alike([m EXCEPT !.releasing = b], m)
  BY <1>1, <1>2 DEF MSHRs, Alike
<1>4. ASSUME NEW k \in Kinds
      PROVE  [m EXCEPT !.pend = k] \in MSHRs(S, ways) /\ Alike([m EXCEPT !.pend = k], m)
  BY <1>1, <1>2 DEF MSHRs, Alike
<1>5. ASSUME NEW w \in ways
      PROVE  [m EXCEPT !.way = w] \in MSHRs(S, ways) /\ Alike([m EXCEPT !.way = w], m)
  BY <1>1, <1>2 DEF MSHRs, Alike
<1> QED BY <1>3, <1>4, <1>5

Joined(n, m, r) == n = [m EXCEPT !.coal = Append(m.coal, r)]

LEMMA MSHRJoined ==
  ASSUME NEW S, NEW ways, NEW m \in MSHRs(S, ways), m.valid, NEW r \in S, NEW n, Joined(n, m, r)
  PROVE  n \in MSHRs(S, ways) /\ n.main = m.main /\ n.valid /\ n.bus = m.bus /\ n.coal = Append(m.coal, r)
<1> DEFINE shape == [valid |-> m.valid, main |-> m.main, coal |-> m.coal, war |-> m.war, miss |-> m.miss,
                     way |-> m.way, pend |-> m.pend, writes |-> m.writes, lock |-> m.lock, bus |-> m.bus,
                     sh |-> m.sh, releasing |-> m.releasing]
           more == Append(m.coal, r)
<1>1. m = shape
  BY DEF MSHRs
<1>2. /\ m.valid \in BOOLEAN /\ m.main \in S \cup {NoRequest} /\ m.war \in BOOLEAN
      /\ m.miss \in 0 .. 2 /\ m.way \in ways /\ m.pend \in Kinds /\ m.writes \in BOOLEAN /\ m.lock \in BOOLEAN
      /\ m.bus \in {"none", "snooped", "issued", "replied"} /\ m.sh \in BOOLEAN /\ m.releasing \in BOOLEAN
      /\ (m.valid <=> m.main # NoRequest)
  BY DEF MSHRs
<1>3. more \in Seq(S)
  <2>1. m.coal \in Seq(S)
    BY DEF MSHRs
  <2> QED BY <2>1
<1> HIDE DEF more
<1>4. [m EXCEPT !.coal = more] \in MSHRs(S, ways) /\ [m EXCEPT !.coal = more].main = m.main
      /\ [m EXCEPT !.coal = more].valid = m.valid /\ [m EXCEPT !.coal = more].coal = more
      /\ [m EXCEPT !.coal = more].bus = m.bus
  BY <1>1, <1>2, <1>3 DEF MSHRs
<1>5. n = [m EXCEPT !.coal = more]
  BY DEF Joined, more
<1> QED BY <1>4, <1>5 DEF more

Taken1(n, r, miss, v) == n = [NoMSHR EXCEPT !.valid = TRUE, !.main = r, !.miss = miss, !.way = v]
Taken2(n, r, miss, v, lock, writes) ==
  n = [NoMSHR EXCEPT !.valid = TRUE, !.main = r, !.miss = miss, !.way = v, !.lock = lock, !.writes = writes]

LEMMA MSHRNew1 ==
  ASSUME NEW S, NEW ways, NEW r \in S, r # NoRequest, NEW miss \in 0 .. 2, NEW v \in ways,
         NEW n, Taken1(n, r, miss, v)
  PROVE  n \in MSHRs(S, ways) /\ n.main = r /\ n.valid /\ n.coal = <<>>
<1>1. <<>> \in Seq(S) /\ "none" \in Kinds
  BY DEF Kinds
<1> QED BY <1>1 DEF MSHRs, NoMSHR, Taken1

LEMMA MSHRNew2 ==
  ASSUME NEW S, NEW ways, NEW r \in S, r # NoRequest, NEW miss \in 0 .. 2, NEW v \in ways,
         NEW lock \in BOOLEAN, NEW writes \in BOOLEAN, NEW n, Taken2(n, r, miss, v, lock, writes)
  PROVE  n \in MSHRs(S, ways) /\ n.main = r /\ n.valid /\ n.coal = <<>> /\ n.bus = "none"
<1>1. <<>> \in Seq(S) /\ "none" \in Kinds
  BY DEF Kinds
<1> QED BY <1>1 DEF MSHRs, NoMSHR, Taken2

-----------------------------------------------------------------------------
\* The new value of a first-level cache, of the queues down to both, and of the second.
L1Becomes(c, q, d, W, M) ==
  l1' = [e \in Caches |-> IF e = c THEN [req |-> q, down |-> d, ways |-> W, mshr |-> M] ELSE l1[e]]
DownBecomes(D) ==
  l1' = [e \in Caches |-> [req |-> l1[e].req, down |-> D[e], ways |-> l1[e].ways, mshr |-> l1[e].mshr]]
L2Becomes(q, r, h, d, W, M) == l2' = [req |-> q, reply |-> r, cohe |-> h, data |-> d, ways |-> W, mshr |-> M]

L1Fits(p, c, q, d, W, M) ==
  /\ q \in Seq(Entering(p, c)) /\ d \in Seq(Messages(p)) /\ W \in [1 .. Ways1 -> Tags]
  /\ M = [x \in Lines |-> M[x]] /\ \A x \in Lines : M[x] \in MSHRs(Missed(p, c, x), 1 .. Ways1)
L2Fits(p, q, r, h, d, W, M) ==
  /\ q \in Seq(Requests(p) \cup WriteBacks) /\ r \in Seq(Replies) /\ h \in Seq(Snoops)
  /\ d \in Seq(DataItems(p)) /\ W \in [1 .. Ways2 -> Tags]
  /\ M = [x \in Lines |-> M[x]] /\ \A x \in Lines : M[x] \in MSHRs(OfLine(p, x), 1 .. Ways2)

LEMMA L1Kept ==
  ASSUME NEW p \in Programs, L1Type(p), NEW c \in Caches, NEW q, NEW d, NEW W, NEW M,
         L1Fits(p, c, q, d, W, M), L1Becomes(c, q, d, W, M)
  PROVE  /\ L1Type(p)'
         /\ l1'[c].req = q /\ l1'[c].down = d /\ l1'[c].ways = W /\ l1'[c].mshr = M
         /\ \A e \in Caches : e # c => l1'[e] = l1[e]
<1>1. /\ l1'[c] = [req |-> q, down |-> d, ways |-> W, mshr |-> M]
      /\ \A e \in Caches : e # c => l1'[e] = l1[e]
  BY DEF L1Becomes
<1>2. l1'[c].req = q /\ l1'[c].down = d /\ l1'[c].ways = W /\ l1'[c].mshr = M
  BY <1>1
<1>3. \A e \in Caches : l1[e] = [req |-> l1[e].req, down |-> l1[e].down, ways |-> l1[e].ways, mshr |-> l1[e].mshr]
  BY DEF L1Type
<1>4. l1' = [e \in Caches |-> [req |-> l1'[e].req, down |-> l1'[e].down, ways |-> l1'[e].ways, mshr |-> l1'[e].mshr]]
  BY <1>1, <1>2, <1>3 DEF L1Becomes
<1>5. ASSUME NEW e \in Caches
      PROVE  /\ l1'[e].req \in Seq(Entering(p, e)) /\ l1'[e].down \in Seq(Messages(p))
             /\ l1'[e].ways \in [1 .. Ways1 -> Tags]
             /\ l1'[e].mshr = [x \in Lines |-> l1'[e].mshr[x]]
             /\ \A x \in Lines : l1'[e].mshr[x] \in MSHRs(Missed(p, e, x), 1 .. Ways1)
  <2>1. CASE e = c
    BY <1>2, <2>1 DEF L1Fits
  <2>2. CASE e # c
    BY <1>1, <2>2 DEF L1Type
  <2> QED BY <2>1, <2>2
<1> QED BY <1>1, <1>2, <1>4, <1>5 DEF L1Type

LEMMA DownKept ==
  ASSUME NEW p \in Programs, L1Type(p), NEW D, \A e \in Caches : D[e] \in Seq(Messages(p)), DownBecomes(D)
  PROVE  /\ L1Type(p)'
         /\ \A e \in Caches : /\ l1'[e].req = l1[e].req /\ l1'[e].down = D[e]
                              /\ l1'[e].ways = l1[e].ways /\ l1'[e].mshr = l1[e].mshr
<1>1. \A e \in Caches : /\ l1'[e].req = l1[e].req /\ l1'[e].down = D[e]
                        /\ l1'[e].ways = l1[e].ways /\ l1'[e].mshr = l1[e].mshr
  BY DEF DownBecomes
<1>2. l1' = [e \in Caches |-> [req |-> l1'[e].req, down |-> l1'[e].down, ways |-> l1'[e].ways, mshr |-> l1'[e].mshr]]
  BY <1>1 DEF DownBecomes
<1>3. ASSUME NEW e \in Caches
      PROVE  /\ l1'[e].req \in Seq(Entering(p, e)) /\ l1'[e].down \in Seq(Messages(p))
             /\ l1'[e].ways \in [1 .. Ways1 -> Tags]
             /\ l1'[e].mshr = [x \in Lines |-> l1'[e].mshr[x]]
             /\ \A x \in Lines : l1'[e].mshr[x] \in MSHRs(Missed(p, e, x), 1 .. Ways1)
  BY <1>1 DEF L1Type
<1> QED BY <1>1, <1>2, <1>3 DEF L1Type

LEMMA L2Kept ==
  ASSUME NEW p \in Programs, NEW q, NEW r, NEW h, NEW d, NEW W, NEW M,
         L2Fits(p, q, r, h, d, W, M), L2Becomes(q, r, h, d, W, M)
  PROVE  /\ L2Type(p)'
         /\ l2'.req = q /\ l2'.reply = r /\ l2'.cohe = h /\ l2'.data = d /\ l2'.ways = W /\ l2'.mshr = M
<1>1. l2'.req = q /\ l2'.reply = r /\ l2'.cohe = h /\ l2'.data = d /\ l2'.ways = W /\ l2'.mshr = M
  BY DEF L2Becomes
<1>2. l2' = [req |-> l2'.req, reply |-> l2'.reply, cohe |-> l2'.cohe, data |-> l2'.data, ways |-> l2'.ways,
             mshr |-> l2'.mshr]
  BY <1>1 DEF L2Becomes
<1> QED BY <1>1, <1>2 DEF L2Type, L2Fits

\* Performing accesses.
LEMMA Performed ==
  ASSUME NEW p \in Programs, RestType(p), NEW ids, done' = Perform(ids), bus' = bus
  PROVE  /\ RestType(p)' /\ done'.fault = done.fault /\ Issued' = Issued
         /\ \A i \in DOMAIN p : done'.count[i] = done.count[i] + One(i, ids)
<1> DEFINE new == [n \in DOMAIN done.count |-> done.count[n] + (IF n \in ids THEN 1 ELSE 0)]
<1>1. done' = [done EXCEPT !.count = new]
  BY DEF Perform
<1>2. done \in [left : Seq(Accesses), count : [DOMAIN p -> Nat], fault : BOOLEAN]
  BY DEF RestType
<1>3. new \in [DOMAIN p -> Nat] /\ \A i \in DOMAIN p : new[i] = done.count[i] + One(i, ids)
  BY <1>2 DEF One
<1> HIDE DEF new
<1>4. done'.left = done.left /\ done'.fault = done.fault /\ done'.count = new
      /\ done' \in [left : Seq(Accesses), count : [DOMAIN p -> Nat], fault : BOOLEAN]
  BY <1>1, <1>2, <1>3
<1>5. Len(new) = Len(p) /\ Len(done.count) = Len(p)
  BY <1>2, <1>3, ProgramType
<1> QED BY <1>3, <1>4, <1>5 DEF RestType, Issued

-----------------------------------------------------------------------------
\* How the counts follow the queues.
LEMMA OneType ==
  ASSUME NEW e, NEW P
  PROVE  One(e, P) \in {0, 1} /\ One(e, P) \in Nat /\ (One(e, P) = 1 <=> e \in P) /\ (One(e, P) = 0 <=> e \notin P)
BY DEF One

\* A request counts for its own access, with the MSHR above or without.
LEMMA OneRequest ==
  ASSUME NEW p \in Programs, NEW i \in DOMAIN p, NEW w \in BOOLEAN
  PROVE  /\ \A r \in Requests(p) : r \in Holding(p, i, w) <=> (r.id = i /\ r.l1mshr = w)
         /\ \A r \in WriteBacks : r \notin Holding(p, i, w)
         /\ NoRequest \notin Holding(p, i, w)
         /\ \A r \in Holding(p, i, w) : r \in Requests(p) /\ r.line = p[i].line /\ r.cache = p[i].cache
<1>1. \A r \in Requests(p) : r.id # 0 /\ r # NoRequest /\ r.line = p[r.id].line /\ r.cache = p[r.id].cache
  BY RequestType
<1>2. \A r \in WriteBacks : r.id = 0
  BY DEF WriteBacks
<1> QED BY <1>1, <1>2 DEF Holding

LEMMA OneAccess ==
  ASSUME NEW p \in Programs, NEW i \in DOMAIN p
  PROVE  /\ \A r \in Requests(p) : r \in OfAccess(p, i) <=> r.id = i
         /\ NoRequest \notin OfAccess(p, i)
         /\ \A r \in OfAccess(p, i) : r \in Requests(p) /\ r.line = p[i].line /\ r.cache = p[i].cache
<1>1. \A r \in Requests(p) : r.id # 0 /\ r # NoRequest /\ r.line = p[r.id].line /\ r.cache = p[r.id].cache
  BY RequestType
<1> QED BY <1>1 DEF OfAccess

LEMMA EnteringType ==
  ASSUME NEW p \in Programs, NEW c \in Caches, NEW r \in Entering(p, c)
  PROVE  r \in Requests(p) /\ r.cache = c /\ (r.progress = 0 => ~r.l1mshr)
BY DEF Entering

\* Every count is a number.
LEMMA CountsType ==
  ASSUME NEW p \in Programs, L1Type(p), L2Type(p)
  PROVE  /\ \A i \in DOMAIN p, w \in BOOLEAN :
              AtL1(p, i, w) \in Nat /\ AtL2(p, i, w) \in Nat /\ InL2(p, i, w) \in Nat /\ InData(p, i, w) \in Nat
         /\ \A i \in DOMAIN p : InMSHR(p, i) \in Nat /\ InFlush(p, i) \in Nat
         /\ \A c \in Caches, x \in Lines : ReplyCount(p, c, x) \in Nat
<1>1. ASSUME NEW i \in DOMAIN p, NEW w \in BOOLEAN
      PROVE  AtL1(p, i, w) \in Nat /\ AtL2(p, i, w) \in Nat /\ InL2(p, i, w) \in Nat /\ InData(p, i, w) \in Nat
  <2>1. p[i].cache \in Caches /\ p[i].line \in Lines
    BY ProgramType
  <2>2. l1[p[i].cache].req \in Seq(Entering(p, p[i].cache)) /\ l2.req \in Seq(Requests(p) \cup WriteBacks)
        /\ l2.data \in Seq(DataItems(p))
    BY <2>1 DEF L1Type, L2Type
  <2>3. l2.mshr[p[i].line].coal \in Seq(OfLine(p, p[i].line))
    BY <2>1 DEF L2Type, MSHRs
  <2>4. AtL1(p, i, w) \in Nat /\ AtL2(p, i, w) \in Nat /\ InData(p, i, w) \in Nat
    BY <2>2, CountType DEF AtL1, AtL2, InData
  <2>5. Count(l2.mshr[p[i].line].coal, Holding(p, i, w)) \in Nat
    BY <2>3, CountType
  <2> QED BY <2>4, <2>5, OneType DEF InL2
<1>2. ASSUME NEW i \in DOMAIN p
      PROVE  InMSHR(p, i) \in Nat /\ InFlush(p, i) \in Nat
  <2>1. p[i].cache \in Caches /\ p[i].line \in Lines /\ "D" \in Caches
    BY ProgramType DEF Caches
  <2>2. l1["D"].down \in Seq(Messages(p))
    BY <2>1 DEF L1Type
  <2>3. l1[p[i].cache].mshr[p[i].line].coal \in Seq(Missed(p, p[i].cache, p[i].line))
    BY <2>1 DEF L1Type, MSHRs
  <2>4. Count(l1[p[i].cache].mshr[p[i].line].coal, OfAccess(p, i)) \in Nat
    BY <2>3, CountType
  <2>5. InFlush(p, i) \in Nat
    BY <2>2, CountType DEF InFlush
  <2> QED BY <2>4, <2>5, OneType DEF InMSHR
<1>3. ASSUME NEW c \in Caches, NEW x \in Lines
      PROVE  ReplyCount(p, c, x) \in Nat
  <2>1. l1[c].down \in Seq(Messages(p))
    BY DEF L1Type
  <2> QED BY <2>1, CountType DEF ReplyCount
<1> QED BY <1>1, <1>2, <1>3

Numbers(p) ==
  /\ \A i \in DOMAIN p, w \in BOOLEAN :
       AtL1(p, i, w) \in Nat /\ AtL2(p, i, w) \in Nat /\ InL2(p, i, w) \in Nat /\ InData(p, i, w) \in Nat
       /\ Below(p, i, w) \in Nat
  /\ \A i \in DOMAIN p : InMSHR(p, i) \in Nat /\ InFlush(p, i) \in Nat
  /\ \A c \in Caches, x \in Lines : ReplyCount(p, c, x) \in Nat

LEMMA NumbersNext ==
  ASSUME NEW p \in Programs
  PROVE  (L1Type(p) /\ L2Type(p) => Numbers(p)) /\ (L1Type(p)' /\ L2Type(p)' => Numbers(p)')
<1>1. L1Type(p) /\ L2Type(p) => Numbers(p)
  <2> SUFFICES ASSUME L1Type(p), L2Type(p) PROVE Numbers(p)
    OBVIOUS
  <2>1. \A i \in DOMAIN p, w \in BOOLEAN :
          AtL1(p, i, w) \in Nat /\ AtL2(p, i, w) \in Nat /\ InL2(p, i, w) \in Nat /\ InData(p, i, w) \in Nat
    BY CountsType
  <2>2. \A i \in DOMAIN p, w \in BOOLEAN : Below(p, i, w) \in Nat
    BY <2>1 DEF Below
  <2>3. \A i \in DOMAIN p : InMSHR(p, i) \in Nat /\ InFlush(p, i) \in Nat
    BY CountsType
  <2>4. \A c \in Caches, x \in Lines : ReplyCount(p, c, x) \in Nat
    BY CountsType
  <2> QED BY <2>1, <2>2, <2>3, <2>4 DEF Numbers
<1>2. (L1Type(p) /\ L2Type(p) => Numbers(p))'
  BY <1>1, PTL
<1> QED BY <1>1, <1>2

\* The first request of a first-level cache leaves its queue.
LEMMA HeadLeavesL1 ==
  ASSUME NEW p \in Programs, L1Type(p), NEW c \in Caches, l1[c].req # <<>>,
         l1'[c].req = Tail(l1[c].req), \A e \in Caches : e # c => l1'[e].req = l1[e].req
  PROVE  /\ Head(l1[c].req) \in Entering(p, c) /\ Head(l1[c].req) \in Requests(p)
         /\ Tail(l1[c].req) \in Seq(Entering(p, c))
         /\ \A i \in DOMAIN p, w \in BOOLEAN :
              AtL1(p, i, w)' + One(Head(l1[c].req), Holding(p, i, w)) = AtL1(p, i, w)
<1> DEFINE q == l1[c].req
           r == Head(q)
<1>1. q \in Seq(Entering(p, c)) /\ q # <<>>
  BY DEF L1Type
<1>2. r \in Entering(p, c) /\ Tail(q) \in Seq(Entering(p, c))
  BY <1>1
<1>3. r \in Requests(p) /\ r.cache = c
  BY <1>2, EnteringType
<1>4. ASSUME NEW i \in DOMAIN p, NEW w \in BOOLEAN
      PROVE  AtL1(p, i, w)' + One(r, Holding(p, i, w)) = AtL1(p, i, w)
  <2>1. CASE p[i].cache = c
    <3>1. Count(q, Holding(p, i, w)) = One(r, Holding(p, i, w)) + Count(Tail(q), Holding(p, i, w))
      BY <1>1, CountTail
    <3>2. Count(Tail(q), Holding(p, i, w)) \in Nat
      BY <1>2, CountType
    <3>3. AtL1(p, i, w) = Count(q, Holding(p, i, w)) /\ AtL1(p, i, w)' = Count(Tail(q), Holding(p, i, w))
      BY <2>1 DEF AtL1
    <3>4. One(r, Holding(p, i, w)) \in Nat
      BY OneType
    <3> HIDE DEF q, r
    <3> QED BY <3>1, <3>2, <3>3, <3>4
  <2>2. CASE p[i].cache # c
    <3>1. p[i].cache \in Caches
      BY ProgramType
    <3>2. r \notin Holding(p, i, w)
      BY <1>3, <2>2, OneRequest
    <3>3. AtL1(p, i, w)' = AtL1(p, i, w)
      BY <2>2, <3>1 DEF AtL1
    <3>4. AtL1(p, i, w) \in Nat
      <4>1. l1[p[i].cache].req \in Seq(Entering(p, p[i].cache))
        BY <3>1 DEF L1Type
      <4> QED BY <4>1, CountType DEF AtL1
    <3> QED BY <3>2, <3>3, <3>4, OneType
  <2> QED BY <2>1, <2>2
<1> QED BY <1>2, <1>3, <1>4

\* The first request of a first-level cache changes in its queue.
LEMMA HeadChangesL1 ==
  ASSUME NEW p \in Programs, L1Type(p), NEW c \in Caches, l1[c].req # <<>>, NEW r \in Entering(p, c),
         l1'[c].req = [l1[c].req EXCEPT ![1] = r], \A e \in Caches : e # c => l1'[e].req = l1[e].req
  PROVE  /\ [l1[c].req EXCEPT ![1] = r] \in Seq(Entering(p, c))
         /\ \A i \in DOMAIN p, w \in BOOLEAN :
              AtL1(p, i, w)' + One(Head(l1[c].req), Holding(p, i, w)) = AtL1(p, i, w) + One(r, Holding(p, i, w))
<1> DEFINE q == l1[c].req
           t == [q EXCEPT ![1] = r]
<1>1. q \in Seq(Entering(p, c)) /\ q # <<>>
  BY DEF L1Type
<1>2. /\ 1 \in 1 .. Len(q) /\ Head(q) = q[1] /\ q[1] \in Entering(p, c)
      /\ t \in Seq(Entering(p, c)) /\ Len(t) = Len(q) /\ t[1] = r
      /\ \A k \in 1 .. Len(q) : k # 1 => t[k] = q[k]
  BY <1>1
<1>3. q[1].cache = c /\ r.cache = c /\ q[1] \in Requests(p) /\ r \in Requests(p)
  BY <1>2, EnteringType
<1>4. ASSUME NEW i \in DOMAIN p, NEW w \in BOOLEAN
      PROVE  AtL1(p, i, w)' + One(q[1], Holding(p, i, w)) = AtL1(p, i, w) + One(r, Holding(p, i, w))
  <2>1. CASE p[i].cache = c
    <3> HIDE DEF q, t
    <3> DEFINE P == Holding(p, i, w)
    <3>1. Count(t, P) + One(q[1], P) = Count(q, P) + One(t[1], P)
      <4> HIDE DEF P
      <4>1. \A k \in 1 .. Len(q) : k # 1 => (t[k] \in P <=> q[k] \in P)
        BY <1>2
      <4> QED BY <1>1, <1>2, <4>1, CountChanged
    <3>2. AtL1(p, i, w) = Count(q, Holding(p, i, w)) /\ AtL1(p, i, w)' = Count(t, Holding(p, i, w))
      BY <2>1 DEF AtL1, q, t
    <3> QED BY <1>2, <3>1, <3>2
  <2>2. CASE p[i].cache # c
    <3>1. p[i].cache \in Caches
      BY ProgramType
    <3>2. r \notin Holding(p, i, w) /\ q[1] \notin Holding(p, i, w)
      BY <1>3, <2>2, OneRequest
    <3>3. AtL1(p, i, w)' = AtL1(p, i, w)
      BY <2>2, <3>1 DEF AtL1
    <3> QED BY <3>2, <3>3 DEF One
  <2> QED BY <2>1, <2>2
<1> QED BY <1>2, <1>4

\* A request leaves or joins the queue of the second level.
LEMMA HeadLeavesL2 ==
  ASSUME NEW p \in Programs, L2Type(p), l2.req # <<>>, l2'.req = Tail(l2.req)
  PROVE  /\ Head(l2.req) \in Requests(p) \cup WriteBacks /\ Tail(l2.req) \in Seq(Requests(p) \cup WriteBacks)
         /\ \A i \in DOMAIN p, w \in BOOLEAN :
              AtL2(p, i, w)' + One(Head(l2.req), Holding(p, i, w)) = AtL2(p, i, w)
<1> DEFINE q == l2.req
           r == Head(q)
           S == Requests(p) \cup WriteBacks
<1>1. q \in Seq(S) /\ q # <<>> /\ r \in S /\ Tail(q) \in Seq(S)
  BY DEF L2Type
<1>2. ASSUME NEW i \in DOMAIN p, NEW w \in BOOLEAN
      PROVE  AtL2(p, i, w)' + One(r, Holding(p, i, w)) = AtL2(p, i, w)
  <2> DEFINE P == Holding(p, i, w)
  <2>1. AtL2(p, i, w) = Count(q, P) /\ AtL2(p, i, w)' = Count(Tail(q), P)
    BY DEF AtL2
  <2> HIDE DEF P, S, q, r
  <2>2. Count(q, P) = One(Head(q), P) + Count(Tail(q), P)
    BY <1>1, CountTail
  <2>3. Count(Tail(q), P) \in Nat
    BY <1>1, CountType
  <2>4. One(r, P) \in Nat
    BY OneType
  <2>5. AtL2(p, i, w)' + One(r, P) = AtL2(p, i, w)
    BY <2>1, <2>2, <2>3, <2>4 DEF r
  <2> QED BY <2>5 DEF P
<1> QED BY <1>1, <1>2

LEMMA JoinsL2 ==
  ASSUME NEW p \in Programs, L2Type(p), NEW r \in Requests(p) \cup WriteBacks, l2'.req = Append(l2.req, r)
  PROVE  /\ Append(l2.req, r) \in Seq(Requests(p) \cup WriteBacks)
         /\ \A i \in DOMAIN p, w \in BOOLEAN : AtL2(p, i, w)' = AtL2(p, i, w) + One(r, Holding(p, i, w))
<1> DEFINE q == l2.req
           S == Requests(p) \cup WriteBacks
<1>1. q \in Seq(S) /\ r \in S /\ Append(q, r) \in Seq(S)
  BY DEF L2Type
<1>2. ASSUME NEW i \in DOMAIN p, NEW w \in BOOLEAN
      PROVE  AtL2(p, i, w)' = AtL2(p, i, w) + One(r, Holding(p, i, w))
  <2>1. AtL2(p, i, w) = Count(q, Holding(p, i, w)) /\ AtL2(p, i, w)' = Count(Append(q, r), Holding(p, i, w))
    BY DEF AtL2
  <2> HIDE DEF S, q
  <2>2. Count(Append(q, r), Holding(p, i, w)) = Count(q, Holding(p, i, w)) + One(r, Holding(p, i, w))
    BY <1>1, CountAppend
  <2> QED BY <2>1, <2>2
<1> QED BY <1>1, <1>2

\* The same for the data pipe, and its fills.
LEMMA HeadLeavesData ==
  ASSUME NEW p \in Programs, L2Type(p), l2.data # <<>>, l2'.data = Tail(l2.data)
  PROVE  /\ Head(l2.data) \in DataItems(p) /\ Tail(l2.data) \in Seq(DataItems(p))
         /\ \A i \in DOMAIN p, w \in BOOLEAN :
              InData(p, i, w)' + One(Head(l2.data), Answers(p, i, w)) = InData(p, i, w)
         /\ \A x \in Lines :
              /\ Count(l2'.data, Fills(p, x)) + One(Head(l2.data), Fills(p, x)) = Count(l2.data, Fills(p, x))
              /\ Count(l2'.data, Fills(p, x)) \in Nat
<1> DEFINE q == l2.data
           d == Head(q)
<1>1. q \in Seq(DataItems(p)) /\ q # <<>> /\ d \in DataItems(p) /\ Tail(q) \in Seq(DataItems(p))
  BY DEF L2Type
<1>2. ASSUME NEW P
      PROVE  Count(Tail(q), P) + One(d, P) = Count(q, P) /\ Count(Tail(q), P) \in Nat
  <2> HIDE DEF q, d
  <2>1. Count(q, P) = One(Head(q), P) + Count(Tail(q), P)
    BY <1>1, CountTail
  <2>2. Count(Tail(q), P) \in Nat
    BY <1>1, CountType
  <2>3. One(d, P) \in Nat
    BY OneType
  <2> QED BY <2>1, <2>2, <2>3 DEF d
<1>3. \A i \in DOMAIN p, w \in BOOLEAN : InData(p, i, w)' + One(d, Answers(p, i, w)) = InData(p, i, w)
  BY <1>2 DEF InData
<1>4. \A x \in Lines :
        /\ Count(l2'.data, Fills(p, x)) + One(d, Fills(p, x)) = Count(l2.data, Fills(p, x))
        /\ Count(l2'.data, Fills(p, x)) \in Nat
  BY <1>2
<1> QED BY <1>1, <1>3, <1>4

LEMMA JoinsData ==
  ASSUME NEW p \in Programs, L2Type(p), NEW d \in DataItems(p), l2'.data = Append(l2.data, d)
  PROVE  /\ Append(l2.data, d) \in Seq(DataItems(p))
         /\ \A i \in DOMAIN p, w \in BOOLEAN : InData(p, i, w)' = InData(p, i, w) + One(d, Answers(p, i, w))
         /\ \A x \in Lines : Count(l2'.data, Fills(p, x)) = Count(l2.data, Fills(p, x)) + One(d, Fills(p, x))
<1> DEFINE q == l2.data
<1>1. q \in Seq(DataItems(p)) /\ Append(q, d) \in Seq(DataItems(p))
  BY DEF L2Type
<1>2. ASSUME NEW P
      PROVE  Count(Append(q, d), P) = Count(q, P) + One(d, P)
  <2> HIDE DEF q
  <2> QED BY <1>1, CountAppend
<1>3. \A i \in DOMAIN p, w \in BOOLEAN : InData(p, i, w)' = InData(p, i, w) + One(d, Answers(p, i, w))
  BY <1>2 DEF InData
<1>4. \A x \in Lines : Count(l2'.data, Fills(p, x)) = Count(l2.data, Fills(p, x)) + One(d, Fills(p, x))
  BY <1>2
<1> QED BY <1>1, <1>3, <1>4

\* The MSHRs other than one keep their requests.
OtherMSHRs1(c, y) ==
  \A e \in Caches, x \in Lines :
    e # c \/ x # y => l1'[e].mshr[x].main = l1[e].mshr[x].main /\ l1'[e].mshr[x].coal = l1[e].mshr[x].coal
OtherMSHRs2(y) ==
  \A x \in Lines : x # y => l2'.mshr[x].main = l2.mshr[x].main /\ l2'.mshr[x].coal = l2.mshr[x].coal

\* Requests in the MSHRs of the second level: a new MSHR, a request that joins one.
LEMMA NewInL2 ==
  ASSUME NEW p \in Programs, L2Type(p), NEW r \in Requests(p), ~l2.mshr[r.line].valid,
         l2'.mshr[r.line].main = r, l2'.mshr[r.line].coal = <<>>,
         OtherMSHRs2(r.line)
  PROVE  \A i \in DOMAIN p, w \in BOOLEAN : InL2(p, i, w)' = InL2(p, i, w) + One(r, Holding(p, i, w))
<1>1. r.line \in Lines
  BY RequestType
<1>2. l2.mshr[r.line].main = NoRequest /\ l2.mshr[r.line].coal = <<>>
  BY <1>1 DEF L2Type, MSHRs
<1> SUFFICES ASSUME NEW i \in DOMAIN p, NEW w \in BOOLEAN
             PROVE  InL2(p, i, w)' = InL2(p, i, w) + One(r, Holding(p, i, w))
  OBVIOUS
<1> DEFINE P == Holding(p, i, w)
<1>3. One(r, P) \in Nat /\ Count(<<>>, P) = 0 /\ One(NoRequest, P) = 0
  BY OneType, CountEmpty, OneRequest
<1>4. CASE p[i].line = r.line
  <2>1. InL2(p, i, w) = One(NoRequest, P) + Count(<<>>, P) /\ InL2(p, i, w)' = One(r, P) + Count(<<>>, P)
    BY <1>2, <1>4 DEF InL2
  <2> QED BY <1>3, <2>1
<1>5. CASE p[i].line # r.line
  <2>1. One(r, P) = 0
    BY <1>5, OneRequest, OneType
  <2>2. p[i].line \in Lines
    BY ProgramType
  <2>3. InL2(p, i, w)' = InL2(p, i, w) /\ InL2(p, i, w) \in Nat
    <3>1. l2.mshr[p[i].line].coal \in Seq(OfLine(p, p[i].line))
      BY <2>2 DEF L2Type, MSHRs
    <3>2. Count(l2.mshr[p[i].line].coal, P) \in Nat
      BY <3>1, CountType
    <3> QED BY <1>5, <2>2, <3>2, OneType DEF InL2, OtherMSHRs2
  <2> QED BY <2>1, <2>3
<1> QED BY <1>4, <1>5

LEMMA JoinsInL2 ==
  ASSUME NEW p \in Programs, L2Type(p), NEW r \in Requests(p),
         l2'.mshr[r.line].main = l2.mshr[r.line].main, l2'.mshr[r.line].coal = Append(l2.mshr[r.line].coal, r),
         OtherMSHRs2(r.line)
  PROVE  \A i \in DOMAIN p, w \in BOOLEAN : InL2(p, i, w)' = InL2(p, i, w) + One(r, Holding(p, i, w))
<1>1. r.line \in Lines /\ r \in OfLine(p, r.line)
  BY RequestType DEF OfLine
<1> SUFFICES ASSUME NEW i \in DOMAIN p, NEW w \in BOOLEAN
             PROVE  InL2(p, i, w)' = InL2(p, i, w) + One(r, Holding(p, i, w))
  OBVIOUS
<1> DEFINE P == Holding(p, i, w)
           x == p[i].line
<1>2. x \in Lines
  BY Zenon, ProgramType
<1>3. l2.mshr[x].coal \in Seq(OfLine(p, x))
  BY <1>2 DEF L2Type, MSHRs
<1>4. Count(l2.mshr[x].coal, P) \in Nat /\ One(r, P) \in Nat /\ One(l2.mshr[x].main, P) \in Nat
  <2>1. Count(l2.mshr[x].coal, P) \in Nat
    BY <1>3, CountType
  <2> QED BY <2>1, OneType
<1>5. CASE x = r.line
  <2>1. Count(Append(l2.mshr[x].coal, r), P) = Count(l2.mshr[x].coal, P) + One(r, P)
    BY <1>1, <1>3, <1>5, CountAppend
  <2>2. /\ InL2(p, i, w) = One(l2.mshr[x].main, P) + Count(l2.mshr[x].coal, P)
        /\ InL2(p, i, w)' = One(l2.mshr[x].main, P) + Count(Append(l2.mshr[x].coal, r), P)
    BY <1>5 DEF InL2
  <2> DEFINE a == One(l2.mshr[x].main, P)
             b == Count(l2.mshr[x].coal, P)
             o == One(r, P)
             u == Count(Append(l2.mshr[x].coal, r), P)
  <2>3. /\ a \in Nat /\ b \in Nat /\ o \in Nat /\ u = b + o
        /\ InL2(p, i, w) = a + b /\ InL2(p, i, w)' = a + u
    BY <1>4, <2>1, <2>2
  <2> HIDE DEF a, b, o, u
  <2>4. InL2(p, i, w)' = InL2(p, i, w) + o
    BY <2>3
  <2> QED BY <2>4 DEF o
<1>6. CASE x # r.line
  <2>1. One(r, P) = 0
    <3>1. r.line = p[r.id].line
      BY Zenon, RequestType
    <3>2. r \notin P
      BY Zenon, <1>6, <3>1 DEF Holding
    <3> QED BY <3>2, OneType
  <2>2. InL2(p, i, w)' = InL2(p, i, w) /\ InL2(p, i, w) \in Nat
    BY <1>2, <1>4, <1>6 DEF InL2, OtherMSHRs2
  <2> QED BY <2>1, <2>2
<1> QED BY <1>5, <1>6

\* An MSHR of the second level is freed.
LEMMA FreedInL2 ==
  ASSUME NEW p \in Programs, L2Type(p), NEW y \in Lines, l2'.mshr[y] = NoMSHR,
         OtherMSHRs2(y)
  PROVE  \A i \in DOMAIN p, w \in BOOLEAN : InL2(p, i, w)' = IF p[i].line = y THEN 0 ELSE InL2(p, i, w)
<1> SUFFICES ASSUME NEW i \in DOMAIN p, NEW w \in BOOLEAN
             PROVE  InL2(p, i, w)' = IF p[i].line = y THEN 0 ELSE InL2(p, i, w)
  OBVIOUS
<1>1. p[i].line \in Lines
  BY ProgramType
<1>2. CASE p[i].line = y
  <2>1. l2'.mshr[y].main = NoRequest /\ l2'.mshr[y].coal = <<>>
    BY DEF NoMSHR
  <2>2. One(NoRequest, Holding(p, i, w)) = 0 /\ Count(<<>>, Holding(p, i, w)) = 0
    BY OneRequest, OneType, CountEmpty
  <2> QED BY <1>2, <2>1, <2>2 DEF InL2
<1>3. CASE p[i].line # y
  BY <1>1, <1>3 DEF InL2, OtherMSHRs2
<1> QED BY <1>2, <1>3

\* The same for the MSHRs of the first level.
LEMMA NewInL1 ==
  ASSUME NEW p \in Programs, L1Type(p), NEW r \in Requests(p), ~l1[r.cache].mshr[r.line].valid,
         l1'[r.cache].mshr[r.line].main = r, l1'[r.cache].mshr[r.line].coal = <<>>,
         OtherMSHRs1(r.cache, r.line)
  PROVE  \A i \in DOMAIN p : InMSHR(p, i)' = InMSHR(p, i) + One(r, OfAccess(p, i))
<1>1. r.line \in Lines /\ r.cache \in Caches
  BY Zenon, RequestType
<1>2. l1[r.cache].mshr[r.line].main = NoRequest /\ l1[r.cache].mshr[r.line].coal = <<>>
  BY <1>1 DEF L1Type, MSHRs
<1> SUFFICES ASSUME NEW i \in DOMAIN p PROVE InMSHR(p, i)' = InMSHR(p, i) + One(r, OfAccess(p, i))
  OBVIOUS
<1> DEFINE P == OfAccess(p, i)
           c == p[i].cache
           x == p[i].line
<1>3. One(r, P) \in Nat /\ Count(<<>>, P) = 0 /\ One(NoRequest, P) = 0
  BY OneType, CountEmpty, OneAccess
<1>4. CASE c = r.cache /\ x = r.line
  <2>1. InMSHR(p, i) = One(NoRequest, P) + Count(<<>>, P) /\ InMSHR(p, i)' = One(r, P) + Count(<<>>, P)
    BY <1>2, <1>4 DEF InMSHR
  <2> QED BY <1>3, <2>1
<1>5. CASE ~(c = r.cache /\ x = r.line)
  <2>1. One(r, P) = 0
    BY <1>5, OneAccess, OneType
  <2>2. c \in Caches /\ x \in Lines
    BY Zenon, ProgramType
  <2>3. l1[c].mshr[x].coal \in Seq(Missed(p, c, x))
    BY <2>2 DEF L1Type, MSHRs
  <2>4. Count(l1[c].mshr[x].coal, P) \in Nat
    BY <2>3, CountType
  <2>5. InMSHR(p, i)' = InMSHR(p, i) /\ InMSHR(p, i) \in Nat
    BY <1>5, <2>2, <2>4, OneType DEF InMSHR, OtherMSHRs1
  <2> QED BY <2>1, <2>5
<1> QED BY Zenon, <1>4, <1>5

Coalesced1(r) ==
  /\ l1'[r.cache].mshr[r.line].main = l1[r.cache].mshr[r.line].main
  /\ l1'[r.cache].mshr[r.line].coal = Append(l1[r.cache].mshr[r.line].coal, r)

LEMMA JoinsInL1 ==
  ASSUME NEW p \in Programs, L1Type(p), NEW r \in Requests(p),
         Coalesced1(r), OtherMSHRs1(r.cache, r.line)
  PROVE  \A i \in DOMAIN p : InMSHR(p, i)' = InMSHR(p, i) + One(r, OfAccess(p, i))
<1>1. r.line \in Lines /\ r.cache \in Caches /\ r \in Missed(p, r.cache, r.line)
  BY RequestType DEF Missed
<1> SUFFICES ASSUME NEW i \in DOMAIN p PROVE InMSHR(p, i)' = InMSHR(p, i) + One(r, OfAccess(p, i))
  OBVIOUS
<1> DEFINE P == OfAccess(p, i)
           q == l1[p[i].cache].mshr[p[i].line].coal
           m == l1[p[i].cache].mshr[p[i].line].main
<1>2. p[i].cache \in Caches /\ p[i].line \in Lines
  BY ProgramType
<1>3. q \in Seq(Missed(p, p[i].cache, p[i].line))
  BY <1>2 DEF L1Type, MSHRs
<1>4. Count(q, P) \in Nat /\ One(r, P) \in Nat /\ One(m, P) \in Nat
  <2>1. Count(q, P) \in Nat
    BY Zenon, <1>3, CountType
  <2> QED BY <2>1, OneType
<1>5. CASE p[i].cache = r.cache /\ p[i].line = r.line
  <2>1. q \in Seq(Missed(p, r.cache, r.line))
    BY <1>3, <1>5
  <2>2. Count(Append(q, r), P) = Count(q, P) + One(r, P)
    BY Zenon, <1>1, <2>1, CountAppend
  <2>3. InMSHR(p, i) = One(m, P) + Count(q, P) /\ InMSHR(p, i)' = One(m, P) + Count(Append(q, r), P)
    BY Zenon, <1>5 DEF InMSHR, Coalesced1
  <2> DEFINE a == One(m, P)
             b == Count(q, P)
             c == Count(Append(q, r), P)
             d == One(r, P)
             e == InMSHR(p, i)
             f == InMSHR(p, i)'
  <2>4. a \in Nat /\ b \in Nat /\ d \in Nat /\ c = b + d /\ e = a + b /\ f = a + c
    BY Zenon, <1>4, <2>2, <2>3
  <2> HIDE DEF a, b, c, d, e, f
  <2>5. f = e + d
    BY <2>4
  <2> QED BY <2>5 DEF d, e, f
<1>6. CASE ~(p[i].cache = r.cache /\ p[i].line = r.line)
  <2>1. r \notin P
    BY <1>6, OneAccess
  <2>2. One(r, P) = 0
    BY <2>1, OneType
  <2>3. l1'[p[i].cache].mshr[p[i].line].main = m /\ l1'[p[i].cache].mshr[p[i].line].coal = q
    BY <1>2, <1>6 DEF OtherMSHRs1
  <2>4. InMSHR(p, i)' = One(m, P) + Count(q, P) /\ InMSHR(p, i) = One(m, P) + Count(q, P)
    BY <2>3 DEF InMSHR
  <2>5. InMSHR(p, i)' = InMSHR(p, i) /\ InMSHR(p, i) \in Nat
    <3> HIDE DEF P, q, m
    <3> QED BY <1>4, <2>4
  <2> QED BY <2>2, <2>5
<1> QED BY <1>5, <1>6

LEMMA FreedInL1 ==
  ASSUME NEW p \in Programs, L1Type(p), NEW e \in Caches, NEW y \in Lines, l1'[e].mshr[y] = NoMSHR,
         OtherMSHRs1(e, y)
  PROVE  \A i \in DOMAIN p :
           InMSHR(p, i)' = IF p[i].cache = e /\ p[i].line = y THEN 0 ELSE InMSHR(p, i)
<1> SUFFICES ASSUME NEW i \in DOMAIN p
             PROVE  InMSHR(p, i)' = IF p[i].cache = e /\ p[i].line = y THEN 0 ELSE InMSHR(p, i)
  OBVIOUS
<1>1. p[i].line \in Lines /\ p[i].cache \in Caches
  BY ProgramType
<1>2. CASE p[i].cache = e /\ p[i].line = y
  <2>1. l1'[e].mshr[y].main = NoRequest /\ l1'[e].mshr[y].coal = <<>>
    BY DEF NoMSHR
  <2>2. One(NoRequest, OfAccess(p, i)) = 0 /\ Count(<<>>, OfAccess(p, i)) = 0
    BY OneAccess, OneType, CountEmpty
  <2> QED BY <1>2, <2>1, <2>2 DEF InMSHR
<1>3. CASE ~(p[i].cache = e /\ p[i].line = y)
  BY <1>1, <1>3 DEF InMSHR, OtherMSHRs1
<1> QED BY <1>2, <1>3

\* A message to a first-level cache joins its queue, or is taken out of it.
LEMMA JoinsDown ==
  ASSUME NEW p \in Programs, L1Type(p), NEW c \in Caches, NEW e \in Messages(p)
  PROVE  /\ Append(l1[c].down, e) \in Seq(Messages(p))
         /\ \A P : Count(Append(l1[c].down, e), P) = Count(l1[c].down, P) + One(e, P)
<1> DEFINE q == l1[c].down
<1>1. q \in Seq(Messages(p)) /\ Append(q, e) \in Seq(Messages(p))
  <2>1. q \in Seq(Messages(p))
    BY DEF L1Type
  <2> QED BY <2>1
<1>2. ASSUME NEW P PROVE Count(Append(q, e), P) = Count(q, P) + One(e, P)
  <2> HIDE DEF q
  <2>1. q \in Seq(Messages(p)) /\ e \in Messages(p)
    BY <1>1
  <2> QED BY <2>1, CountAppend
<1> QED BY <1>1, <1>2

LEMMA LeavesDown ==
  ASSUME NEW p \in Programs, L1Type(p), NEW c \in Caches, NEW k \in 1 .. Len(l1[c].down)
  PROVE  /\ l1[c].down[k] \in Messages(p) /\ Without(l1[c].down, k) \in Seq(Messages(p))
         /\ \A P : /\ Count(l1[c].down, P) = Count(Without(l1[c].down, k), P) + One(l1[c].down[k], P)
                   /\ Count(Without(l1[c].down, k), P) \in Nat
<1> DEFINE q == l1[c].down
<1>1. q \in Seq(Messages(p)) /\ q[k] \in Messages(p)
  <2>1. q \in Seq(Messages(p))
    BY DEF L1Type
  <2> QED BY <2>1
<1>2. ASSUME NEW P
      PROVE  /\ Without(q, k) \in Seq(Messages(p)) /\ Count(q, P) = Count(Without(q, k), P) + One(q[k], P)
             /\ Count(Without(q, k), P) \in Nat
  <2> HIDE DEF q
  <2>1. Without(q, k) \in Seq(Messages(p)) /\ Count(q, P) = Count(Without(q, k), P) + One(q[k], P)
    BY <1>1, CountWithout DEF q
  <2>2. Count(Without(q, k), P) \in Nat
    BY <2>1, CountType
  <2> QED BY <2>1, <2>2
<1>3. Without(q, k) \in Seq(Messages(p))
  BY <1>2
<1> QED BY <1>1, <1>2, <1>3

-----------------------------------------------------------------------------
\* What stays the same keeps its counts, and the counts carry the invariant.
LEMMA L1Shape ==
  ASSUME NEW p \in Programs, L1Type(p), NEW c \in Caches
  PROVE  /\ l1 = [e \in Caches |-> l1[e]]
         /\ l1[c] = [req |-> l1[c].req, down |-> l1[c].down, ways |-> l1[c].ways, mshr |-> l1[c].mshr]
         /\ L1Fits(p, c, l1[c].req, l1[c].down, l1[c].ways, l1[c].mshr)
<1>1. l1 = [e \in Caches |-> l1[e]]
      /\ l1[c] = [req |-> l1[c].req, down |-> l1[c].down, ways |-> l1[c].ways, mshr |-> l1[c].mshr]
  <2>1. l1 = [e \in Caches |-> [req |-> l1[e].req, down |-> l1[e].down, ways |-> l1[e].ways, mshr |-> l1[e].mshr]]
    BY DEF L1Type
  <2> QED BY <2>1
<1>2. L1Fits(p, c, l1[c].req, l1[c].down, l1[c].ways, l1[c].mshr)
  BY DEF L1Type, L1Fits
<1> QED BY <1>1, <1>2

LEMMA L2Shape ==
  ASSUME NEW p \in Programs, L2Type(p)
  PROVE  /\ l2 = [req |-> l2.req, reply |-> l2.reply, cohe |-> l2.cohe, data |-> l2.data, ways |-> l2.ways,
                  mshr |-> l2.mshr]
         /\ L2Fits(p, l2.req, l2.reply, l2.cohe, l2.data, l2.ways, l2.mshr)
BY DEF L2Type, L2Fits

LEMMA SameL1 ==
  ASSUME NEW p \in Programs
  PROVE  /\ (\A e \in Caches : l1'[e].req = l1[e].req) =>
              \A i \in DOMAIN p, w \in BOOLEAN : AtL1(p, i, w)' = AtL1(p, i, w)
         /\ (\A e \in Caches : l1'[e].down = l1[e].down) =>
              /\ \A i \in DOMAIN p : InFlush(p, i)' = InFlush(p, i)
              /\ \A e \in Caches, x \in Lines : ReplyCount(p, e, x)' = ReplyCount(p, e, x)
         /\ (\A e \in Caches, x \in Lines :
               l1'[e].mshr[x].main = l1[e].mshr[x].main /\ l1'[e].mshr[x].coal = l1[e].mshr[x].coal) =>
              \A i \in DOMAIN p : InMSHR(p, i)' = InMSHR(p, i)
<1>1. \A i \in DOMAIN p : p[i].cache \in Caches /\ p[i].line \in Lines
  BY ProgramType
<1>2. "D" \in Caches
  BY DEF Caches
<1>3. ASSUME \A e \in Caches : l1'[e].req = l1[e].req
      PROVE  \A i \in DOMAIN p, w \in BOOLEAN : AtL1(p, i, w)' = AtL1(p, i, w)
  BY <1>1, <1>3 DEF AtL1
<1>4. ASSUME \A e \in Caches : l1'[e].down = l1[e].down
      PROVE  /\ \A i \in DOMAIN p : InFlush(p, i)' = InFlush(p, i)
             /\ \A e \in Caches, x \in Lines : ReplyCount(p, e, x)' = ReplyCount(p, e, x)
  BY <1>2, <1>4 DEF InFlush, ReplyCount
<1>5. ASSUME \A e \in Caches, x \in Lines :
               l1'[e].mshr[x].main = l1[e].mshr[x].main /\ l1'[e].mshr[x].coal = l1[e].mshr[x].coal
      PROVE  \A i \in DOMAIN p : InMSHR(p, i)' = InMSHR(p, i)
  BY <1>1, <1>5 DEF InMSHR
<1> QED BY <1>3, <1>4, <1>5

LEMMA SameL2 ==
  ASSUME NEW p \in Programs
  PROVE  /\ l2'.req = l2.req => \A i \in DOMAIN p, w \in BOOLEAN : AtL2(p, i, w)' = AtL2(p, i, w)
         /\ l2'.data = l2.data => \A i \in DOMAIN p, w \in BOOLEAN : InData(p, i, w)' = InData(p, i, w)
         /\ (\A x \in Lines : l2'.mshr[x].main = l2.mshr[x].main /\ l2'.mshr[x].coal = l2.mshr[x].coal) =>
              \A i \in DOMAIN p, w \in BOOLEAN : InL2(p, i, w)' = InL2(p, i, w)
<1>1. \A i \in DOMAIN p : p[i].line \in Lines
  BY ProgramType
<1>2. ASSUME \A x \in Lines : l2'.mshr[x].main = l2.mshr[x].main /\ l2'.mshr[x].coal = l2.mshr[x].coal
      PROVE  \A i \in DOMAIN p, w \in BOOLEAN : InL2(p, i, w)' = InL2(p, i, w)
  BY <1>1, <1>2 DEF InL2
<1> QED BY <1>2 DEF AtL2, InData

LEMMA UnchangedL2 ==
  ASSUME NEW p \in Programs, L2Type(p), BusLife(p), l2' = l2
  PROVE  /\ L2Type(p)' /\ BusLife(p)'
         /\ \A i \in DOMAIN p, w \in BOOLEAN :
              AtL2(p, i, w)' = AtL2(p, i, w) /\ InL2(p, i, w)' = InL2(p, i, w) /\ InData(p, i, w)' = InData(p, i, w)
<1>1. L2Type(p)'
  BY DEF L2Type
<1>2. BusLife(p)'
  BY DEF BusLife
<1> QED BY <1>1, <1>2, SameL2

LEMMA UnchangedL1 ==
  ASSUME NEW p \in Programs, L1Type(p), l1' = l1
  PROVE  /\ L1Type(p)'
         /\ \A i \in DOMAIN p, w \in BOOLEAN : AtL1(p, i, w)' = AtL1(p, i, w)
         /\ \A i \in DOMAIN p : InMSHR(p, i)' = InMSHR(p, i) /\ InFlush(p, i)' = InFlush(p, i)
         /\ \A e \in Caches, x \in Lines : ReplyCount(p, e, x)' = ReplyCount(p, e, x)
<1>1. L1Type(p)'
  BY Zenon DEF L1Type
<1> QED BY <1>1, SameL1

LEMMA UnchangedRest ==
  ASSUME NEW p \in Programs, RestType(p), bus' = bus, done' = done
  PROVE  /\ RestType(p)' /\ Issued' = Issued /\ done'.fault = done.fault
         /\ \A i \in DOMAIN p : done'.count[i] = done.count[i]
<1>1. RestType(p)'
  BY DEF RestType
<1> QED BY <1>1 DEF Issued

LEMMA CarriedKept ==
  ASSUME NEW p \in Programs, MSHRCarried(p),
         \A i \in DOMAIN p : Below(p, i, Waited)' = Below(p, i, Waited),
         \A e \in Caches, x \in Lines : ReplyCount(p, e, x)' = ReplyCount(p, e, x),
         \A e \in Caches, x \in Lines :
           l1'[e].mshr[x].main = l1[e].mshr[x].main /\ l1'[e].mshr[x].valid = l1[e].mshr[x].valid
  PROVE  MSHRCarried(p)'
<1>1. ASSUME NEW i \in DOMAIN p
      PROVE  Below(p, i, Waited)' = IF l1'[p[i].cache].mshr[p[i].line].main.id = i
                                  THEN 1 - ReplyCount(p, p[i].cache, p[i].line)' ELSE 0
  <2>1. p[i].cache \in Caches /\ p[i].line \in Lines
    BY ProgramType
  <2>2. Below(p, i, Waited) = IF l1[p[i].cache].mshr[p[i].line].main.id = i
                            THEN 1 - ReplyCount(p, p[i].cache, p[i].line) ELSE 0
    BY DEF MSHRCarried
  <2>3. l1'[p[i].cache].mshr[p[i].line].main = l1[p[i].cache].mshr[p[i].line].main
    BY <2>1
  <2>4. ReplyCount(p, p[i].cache, p[i].line)' = ReplyCount(p, p[i].cache, p[i].line)
    BY <2>1
  <2>5. Below(p, i, Waited)' = Below(p, i, Waited)
    OBVIOUS
  <2> QED BY <2>2, <2>3, <2>4, <2>5
<1>2. ASSUME NEW e \in Caches, NEW x \in Lines, ~l1'[e].mshr[x].valid
      PROVE  ReplyCount(p, e, x)' = 0
  <2>1. ~l1[e].mshr[x].valid
    BY <1>2
  <2>2. ReplyCount(p, e, x) = 0
    BY <2>1 DEF MSHRCarried
  <2> QED BY <2>2
<1> QED BY <1>1, <1>2 DEF MSHRCarried

\* The accesses held: what they add up to.
Held(p, i) == done.count[i] + Below(p, i, Alone) + InMSHR(p, i) + InFlush(p, i)

LEMMA HeldKept ==
  ASSUME NEW p \in Programs, AccessHeld(p), Issued' = Issued, \A i \in DOMAIN p : Held(p, i)' = Held(p, i)
  PROVE  AccessHeld(p)'
<1>1. ASSUME NEW i \in DOMAIN p PROVE Held(p, i)' = IF i <= Issued' THEN 1 ELSE 0
  <2>1. Held(p, i) = IF i <= Issued THEN 1 ELSE 0
    BY DEF AccessHeld, Held
  <2> QED BY <2>1
<1> QED BY <1>1 DEF AccessHeld, Held

\* Each request counts for its own access on one of the two sides.
LEMMA OneSide ==
  ASSUME NEW p \in Programs, NEW r \in Requests(p) \cup WriteBacks, NEW i \in DOMAIN p
  PROVE  /\ r.l1mshr => One(r, Holding(p, i, Waited)) = One(i, {r.id}) /\ One(r, Holding(p, i, Alone)) = 0
         /\ ~r.l1mshr => One(r, Holding(p, i, Waited)) = 0 /\ One(r, Holding(p, i, Alone)) = One(i, {r.id})
         /\ r \in Requests(p) => One(r, OfAccess(p, i)) = One(i, {r.id})
         /\ r \in WriteBacks => One(i, {r.id}) = 0
<1>1. CASE r \in Requests(p)
  <2>1. r.l1mshr \in BOOLEAN /\ r.id \in Nat /\ r \notin WriteBacks
    <3>1. r.l1mshr \in BOOLEAN /\ r.id \in Nat /\ r.id # 0
      BY <1>1, RequestType
    <3> QED BY <3>1 DEF WriteBacks
  <2>2. /\ r \in Holding(p, i, Waited) <=> (r.id = i /\ r.l1mshr)
        /\ r \in Holding(p, i, Alone) <=> (r.id = i /\ ~r.l1mshr)
        /\ r \in OfAccess(p, i) <=> r.id = i
    BY <1>1, <2>1 DEF Holding, OfAccess, Waited, Alone
  <2> QED BY <2>1, <2>2 DEF One
<1>2. CASE r \in WriteBacks
  <2>1. r.id = 0 /\ ~r.l1mshr
    BY <1>2 DEF WriteBacks
  <2>2. r \notin Requests(p)
    BY <2>1, RequestType
  <2>3. i # 0
    BY ProgramType
  <2> QED BY <2>1, <2>2, <2>3 DEF One, Holding
<1> QED BY <1>1, <1>2

\* The parts of the invariant.
LEMMA InvParts ==
  ASSUME NEW p \in Programs, Inv(p)
  PROVE  /\ L1Type(p) /\ L2Type(p) /\ RestType(p) /\ BusLife(p) /\ MSHRCarried(p) /\ AccessHeld(p) /\ ~done.fault
         /\ Waited \in BOOLEAN /\ Alone \in BOOLEAN
         /\ \A i \in DOMAIN p : /\ i \in Nat /\ done.count[i] \in Nat
                                /\ p[i].cache \in Caches /\ p[i].line \in Lines
<1>1. \A i \in DOMAIN p : done.count[i] \in Nat
  BY DEF Inv, RestType
<1> QED BY <1>1, ProgramType DEF Inv, Waited, Alone

\* Most steps move requests: the load of every access, the replies and the first
\* requests of the MSHRs above stay the same.
SameLoad(p) == \A i \in DOMAIN p : Below(p, i, Waited)' = Below(p, i, Waited) /\ Held(p, i)' = Held(p, i)
SameDown == \A e \in Caches : l1'[e].down = l1[e].down
SameReplies(p) == \A e \in Caches, x \in Lines : ReplyCount(p, e, x)' = ReplyCount(p, e, x)
SameMains ==
  \A e \in Caches, x \in Lines :
    l1'[e].mshr[x].main = l1[e].mshr[x].main /\ l1'[e].mshr[x].valid = l1[e].mshr[x].valid
SameMSHRs == SameMains /\ \A e \in Caches, x \in Lines : l1'[e].mshr[x].coal = l1[e].mshr[x].coal

LEMMA MovesKeep ==
  ASSUME NEW p \in Programs, Inv(p), L1Type(p)', L2Type(p)', RestType(p)', BusLife(p)',
         done'.fault = done.fault, Issued' = Issued, SameLoad(p), SameReplies(p), SameMains
  PROVE  Inv(p)'
<1>1. MSHRCarried(p) /\ AccessHeld(p) /\ ~done.fault
  BY DEF Inv
<1>2. MSHRCarried(p)'
  BY <1>1, CarriedKept DEF SameLoad, SameReplies, SameMains
<1>3. AccessHeld(p)'
  BY <1>1, HeldKept DEF SameLoad
<1> QED BY <1>1, <1>2, <1>3 DEF Inv

\* A step that only moves requests on their way to memory.
SameBelow(p) == \A i \in DOMAIN p, w \in BOOLEAN : Below(p, i, w)' = Below(p, i, w)
SameFlushes(p) == \A i \in DOMAIN p : InFlush(p, i)' = InFlush(p, i)

LEMMA BelowKeeps ==
  ASSUME NEW p \in Programs, Inv(p), L1Type(p)', L2Type(p)', RestType(p)', BusLife(p)', done' = done,
         SameBelow(p), SameReplies(p), SameFlushes(p), SameMSHRs
  PROVE  Inv(p)'
<1>1. Waited \in BOOLEAN /\ Alone \in BOOLEAN
  BY InvParts
<1>2. \A i \in DOMAIN p : InMSHR(p, i)' = InMSHR(p, i)
  BY SameL1 DEF SameMSHRs, SameMains
<1>3. SameLoad(p)
  BY <1>1, <1>2 DEF SameLoad, SameBelow, SameFlushes, Held
<1>4. Issued' = Issued /\ done'.fault = done.fault
  BY DEF Issued
<1> QED BY <1>3, <1>4, MovesKeep DEF SameMSHRs

\* The bus sees nothing of a step that leaves its queues and the life of the MSHRs.
SameFills(p) == \A x \in Lines : Count(l2'.data, Fills(p, x)) = Count(l2.data, Fills(p, x))
SameLives ==
  \A x \in Lines : l2'.mshr[x].bus = l2.mshr[x].bus /\ (l2.mshr[x].valid => l2'.mshr[x].valid)

LEMMA BusLifeKept ==
  ASSUME NEW p \in Programs, BusLife(p), l2'.cohe = l2.cohe, l2'.reply = l2.reply, SameFills(p), SameLives
  PROVE  BusLife(p)'
<1> SUFFICES ASSUME NEW x \in Lines
             PROVE  /\ Count(l2'.cohe, OwnSnoops(x)) = IF l2'.mshr[x].bus = "snooped" THEN 1 ELSE 0
                    /\ Count(l2'.reply, BusReplies(x)) + Count(l2'.data, Fills(p, x))
                         = IF l2'.mshr[x].bus = "replied" THEN 1 ELSE 0
                    /\ l2'.mshr[x].bus # "none" => l2'.mshr[x].valid
  BY DEF BusLife
<1>1. /\ Count(l2.cohe, OwnSnoops(x)) = IF l2.mshr[x].bus = "snooped" THEN 1 ELSE 0
      /\ Count(l2.reply, BusReplies(x)) + Count(l2.data, Fills(p, x)) = IF l2.mshr[x].bus = "replied" THEN 1 ELSE 0
      /\ l2.mshr[x].bus # "none" => l2.mshr[x].valid
  BY DEF BusLife
<1>2. l2'.mshr[x].bus = l2.mshr[x].bus /\ (l2.mshr[x].valid => l2'.mshr[x].valid)
      /\ Count(l2'.data, Fills(p, x)) = Count(l2.data, Fills(p, x))
  BY DEF SameLives, SameFills
<1> QED BY <1>1, <1>2

\* A step of a first-level cache that only changes the request at the head of its queue.
SameAtL1(p) == \A i \in DOMAIN p, w \in BOOLEAN : AtL1(p, i, w)' = AtL1(p, i, w)

LEMMA QuietKeeps ==
  ASSUME NEW p \in Programs, Inv(p), L1Type(p)', l2' = l2, bus' = bus, done' = done,
         SameAtL1(p), SameDown, SameMSHRs
  PROVE  Inv(p)'
<1>1. L1Type(p) /\ L2Type(p) /\ RestType(p) /\ BusLife(p) /\ Waited \in BOOLEAN /\ Alone \in BOOLEAN
  BY InvParts
<1>2. /\ L2Type(p)' /\ BusLife(p)'
      /\ \A i \in DOMAIN p, w \in BOOLEAN :
           AtL2(p, i, w)' = AtL2(p, i, w) /\ InL2(p, i, w)' = InL2(p, i, w) /\ InData(p, i, w)' = InData(p, i, w)
  BY <1>1, UnchangedL2
<1>3. /\ RestType(p)' /\ Issued' = Issued /\ done'.fault = done.fault
      /\ \A i \in DOMAIN p : done'.count[i] = done.count[i]
  BY <1>1, UnchangedRest
<1>4. /\ \A i \in DOMAIN p : InMSHR(p, i)' = InMSHR(p, i) /\ InFlush(p, i)' = InFlush(p, i)
      /\ SameReplies(p)
  BY SameL1 DEF SameDown, SameMSHRs, SameMains, SameReplies
<1>5. \A i \in DOMAIN p, w \in BOOLEAN : Below(p, i, w)' = Below(p, i, w)
  BY <1>2 DEF SameAtL1, Below
<1>6. SameLoad(p)
  BY <1>1, <1>3, <1>4, <1>5 DEF SameLoad, Held
<1> QED BY <1>2, <1>3, <1>4, <1>6, MovesKeep DEF SameMSHRs

-----------------------------------------------------------------------------
\* The handlers of the first level.
LEMMA Hit1Keeps ==
  ASSUME NEW p \in Programs, Inv(p), NEW c \in Caches, Hit1(c)
  PROVE  Inv(p)'
<1> DEFINE q == l1[c].req
           r == Head(q)
           v == WayOf(l1[c].ways, r.line)
           W == [l1[c].ways EXCEPT ![v].state = IF r.kind # "READ" THEN "PR_DY" ELSE @]
<1>1. /\ L1Type(p) /\ L2Type(p) /\ RestType(p) /\ BusLife(p) /\ MSHRCarried(p) /\ AccessHeld(p) /\ ~done.fault
      /\ Waited \in BOOLEAN /\ Alone \in BOOLEAN
      /\ \A i \in DOMAIN p : done.count[i] \in Nat
  BY Zenon, InvParts
<1>2. q # <<>> /\ r.progress = 0 /\ done' = Perform({r.id}) /\ l2' = l2 /\ bus' = bus
      /\ l1' = [l1 EXCEPT ![c].req = Tail(@), ![c].ways[v].state = IF r.kind # "READ" THEN "PR_DY" ELSE @]
  BY Zenon DEF Hit1, Fresh
<1>3. /\ l1 = [e \in Caches |-> l1[e]]
      /\ l1[c] = [req |-> q, down |-> l1[c].down, ways |-> l1[c].ways, mshr |-> l1[c].mshr]
      /\ L1Fits(p, c, l1[c].req, l1[c].down, l1[c].ways, l1[c].mshr)
  BY <1>1, L1Shape
<1>4. W \in [1 .. Ways1 -> Tags]
  <2>1. l1[c].ways \in [1 .. Ways1 -> Tags]
    BY <1>3 DEF L1Fits
  <2>2. v \in 1 .. Ways1
    BY Zenon, <2>1, WaysType, HierarchyAssumption
  <2> HIDE DEF v, r
  <2> QED BY <2>1, <2>2 DEF Tags
<1> HIDE DEF v, r
<1>5. l1'[c] = [req |-> Tail(q), down |-> l1[c].down, ways |-> W, mshr |-> l1[c].mshr]
  BY <1>2, <1>3
<1>6. l1' = [e \in Caches |-> l1'[e]] /\ \A e \in Caches : e # c => l1'[e] = l1[e]
  BY <1>2, <1>3
<1> HIDE DEF W
<1>7. L1Becomes(c, Tail(q), l1[c].down, W, l1[c].mshr)
  BY Zenon, <1>5, <1>6 DEF L1Becomes
<1>8. l1'[c].req = Tail(q) /\ \A e \in Caches : e # c => l1'[e].req = l1[e].req
  BY <1>5, <1>6
<1>9. /\ r \in Entering(p, c) /\ r \in Requests(p) /\ Tail(q) \in Seq(Entering(p, c))
      /\ \A i \in DOMAIN p, w \in BOOLEAN : AtL1(p, i, w)' + One(r, Holding(p, i, w)) = AtL1(p, i, w)
  BY <1>1, <1>2, <1>8, HeadLeavesL1 DEF r
<1>10. L1Fits(p, c, Tail(q), l1[c].down, W, l1[c].mshr)
  BY <1>3, <1>4, <1>9 DEF L1Fits
<1> HIDE DEF q
<1>11. /\ L1Type(p)' /\ l1'[c].down = l1[c].down /\ l1'[c].mshr = l1[c].mshr
       /\ \A e \in Caches : e # c => l1'[e] = l1[e]
  BY <1>1, <1>7, <1>10, L1Kept
<1>12. /\ L2Type(p)' /\ BusLife(p)'
       /\ \A i \in DOMAIN p, w \in BOOLEAN :
            AtL2(p, i, w)' = AtL2(p, i, w) /\ InL2(p, i, w)' = InL2(p, i, w) /\ InData(p, i, w)' = InData(p, i, w)
  BY <1>1, <1>2, UnchangedL2
<1>13. /\ RestType(p)' /\ done'.fault = done.fault /\ Issued' = Issued
       /\ \A i \in DOMAIN p : done'.count[i] = done.count[i] + One(i, {r.id})
  BY <1>1, <1>2, Performed
<1>14. \A e \in Caches : l1'[e].down = l1[e].down /\ l1'[e].mshr = l1[e].mshr
  BY <1>11
<1>15. /\ \A i \in DOMAIN p : InMSHR(p, i)' = InMSHR(p, i) /\ InFlush(p, i)' = InFlush(p, i)
       /\ SameReplies(p) /\ SameMains
  BY <1>14, SameL1 DEF SameReplies, SameMains
<1>16. Numbers(p) /\ Numbers(p)'
  BY <1>1, <1>11, <1>12, NumbersNext
<1>17. ASSUME NEW i \in DOMAIN p
       PROVE  One(r, Holding(p, i, Waited)) = 0 /\ One(r, Holding(p, i, Alone)) = One(i, {r.id})
  BY <1>2, <1>9, EnteringType, OneSide
<1>18. ASSUME NEW i \in DOMAIN p, NEW w \in BOOLEAN
       PROVE  Below(p, i, w)' + One(r, Holding(p, i, w)) = Below(p, i, w)
  <2>1. /\ AtL1(p, i, w) \in Nat /\ AtL2(p, i, w) \in Nat /\ InL2(p, i, w) \in Nat /\ InData(p, i, w) \in Nat
        /\ AtL1(p, i, w)' \in Nat /\ AtL2(p, i, w)' \in Nat /\ InL2(p, i, w)' \in Nat /\ InData(p, i, w)' \in Nat
    BY <1>16 DEF Numbers
  <2>2. /\ AtL1(p, i, w)' + One(r, Holding(p, i, w)) = AtL1(p, i, w)
        /\ AtL2(p, i, w)' = AtL2(p, i, w) /\ InL2(p, i, w)' = InL2(p, i, w) /\ InData(p, i, w)' = InData(p, i, w)
    BY <1>9, <1>12
  <2>3. One(r, Holding(p, i, w)) \in Nat
    BY OneType
  <2> QED BY <2>1, <2>2, <2>3 DEF Below
<1>19. SameLoad(p)
  <2>1. ASSUME NEW i \in DOMAIN p PROVE Below(p, i, Waited)' = Below(p, i, Waited)
    <3>1. Below(p, i, Waited) \in Nat /\ Below(p, i, Waited)' \in Nat /\ One(r, Holding(p, i, Waited)) \in Nat
      BY <1>1, <1>16, OneType DEF Numbers
    <3>2. Below(p, i, Waited)' + One(r, Holding(p, i, Waited)) = Below(p, i, Waited)
          /\ One(r, Holding(p, i, Waited)) = 0
      BY <1>1, <1>17, <1>18
    <3> QED BY <3>1, <3>2
  <2>2. ASSUME NEW i \in DOMAIN p PROVE Held(p, i)' = Held(p, i)
    <3>1. /\ done.count[i] \in Nat /\ InMSHR(p, i) \in Nat /\ InFlush(p, i) \in Nat
          /\ Below(p, i, Alone) \in Nat /\ Below(p, i, Alone)' \in Nat /\ One(i, {r.id}) \in Nat
      BY <1>1, <1>16, OneType DEF Numbers
    <3>2. /\ Below(p, i, Alone)' + One(i, {r.id}) = Below(p, i, Alone)
          /\ done'.count[i] = done.count[i] + One(i, {r.id})
          /\ InMSHR(p, i)' = InMSHR(p, i) /\ InFlush(p, i)' = InFlush(p, i)
      BY <1>1, <1>13, <1>15, <1>17, <1>18
    <3> QED BY <3>1, <3>2 DEF Held
  <2> QED BY <2>1, <2>2 DEF SameLoad
<1> QED BY Zenon, <1>11, <1>12, <1>13, <1>15, <1>19, MovesKeep

LEMMA HeadOfL1 ==
  ASSUME NEW p \in Programs, L1Type(p), NEW c \in Caches, l1[c].req # <<>>
  PROVE  LET r == Head(l1[c].req)
         IN /\ r \in Entering(p, c) /\ r \in Requests(p) /\ r.cache = c /\ (r.progress = 0 => ~r.l1mshr)
            /\ r.line \in Lines /\ r.kind \in Kinds /\ Tail(l1[c].req) \in Seq(Entering(p, c))
<1> DEFINE q == l1[c].req
<1>1. q \in Seq(Entering(p, c)) /\ q # <<>>
  BY DEF L1Type
<1>2. Head(q) \in Entering(p, c) /\ Tail(q) \in Seq(Entering(p, c))
  BY <1>1
<1> QED BY <1>2, EnteringType, RequestType

\* The request at the head goes on: it is marked, and it may have taken an MSHR.
LEMMA HeadMarked ==
  ASSUME NEW p \in Programs, L1Type(p), NEW c \in Caches, l1[c].req # <<>>, NEW m \in BOOLEAN,
         m => Access(Head(l1[c].req).kind)
  PROVE  LET s == [Head(l1[c].req) EXCEPT !.progress = 1, !.l1mshr = m]
         IN /\ Head1(c, 1, m) = [l1[c].req EXCEPT ![1] = s]
            /\ s \in Entering(p, c) /\ s.id = Head(l1[c].req).id /\ s.l1mshr = m /\ s \in Requests(p)
            /\ Head1(c, 1, m) \in Seq(Entering(p, c))
<1> DEFINE q == l1[c].req
           r == Head(q)
           s == [r EXCEPT !.progress = 1, !.l1mshr = m]
<1>1. q \in Seq(Entering(p, c)) /\ q # <<>>
  BY DEF L1Type
<1>2. r \in Entering(p, c) /\ r = q[1] /\ 1 \in DOMAIN q
  BY <1>1
<1>3. r \in Requests(p) /\ r.cache = c
  BY <1>2, EnteringType
<1>4. s \in Requests(p)
  <2>1. m => Access(r.kind)
    OBVIOUS
  <2>2. r \in Requests(p) /\ 1 \in 0 .. 1
    BY <1>3
  <2> HIDE DEF r
  <2>3. [r EXCEPT !.progress = 1, !.l1mshr = m] \in Requests(p)
    BY <2>1, <2>2, RequestMarked
  <2> QED BY <2>3
<1>5. s.id = r.id /\ s.l1mshr = m /\ s.cache = r.cache /\ s.progress = 1
  <2> HIDE DEF r
  <2>1. r = [id |-> r.id, kind |-> r.kind, line |-> r.line, cache |-> r.cache,
             progress |-> r.progress, l1mshr |-> r.l1mshr, sh |-> r.sh]
    BY <1>3, RequestShape
  <2> QED BY <2>1
<1>6. s \in Entering(p, c)
  <2> HIDE DEF s
  <2> QED BY <1>3, <1>4, <1>5 DEF Entering
<1>7. Head1(c, 1, m) = [q EXCEPT ![1] = s]
  <2>1. Head1(c, 1, m) = [q EXCEPT ![1] = [[q[1] EXCEPT !.progress = 1] EXCEPT !.l1mshr = m]]
    BY Zenon, <1>1, <1>2 DEF Head1
  <2>2. s = [[q[1] EXCEPT !.progress = 1] EXCEPT !.l1mshr = m]
    BY <1>2
  <2> QED BY <2>1, <2>2
<1>8. [q EXCEPT ![1] = s] \in Seq(Entering(p, c))
  <2> HIDE DEF s, q
  <2> QED BY <1>1, <1>2, <1>6
<1> QED BY <1>4, <1>5, <1>6, <1>7, <1>8

\* Marked without an MSHR, it counts as before.
LEMMA MarkedAlone ==
  ASSUME NEW p \in Programs, L1Type(p), L2Type(p), BusLife(p), L1Type(p)', l2' = l2, NEW c \in Caches,
         l1[c].req # <<>>, Head(l1[c].req).progress = 0, NEW m \in BOOLEAN, ~m, l1'[c].req = Head1(c, 1, m),
         \A e \in Caches : e # c => l1'[e].req = l1[e].req
  PROVE  SameAtL1(p)
<1> DEFINE q == l1[c].req
           r == Head(q)
           t == Head1(c, 1, m)
           s == [r EXCEPT !.progress = 1, !.l1mshr = m]
<1>1. /\ t = [q EXCEPT ![1] = s] /\ s \in Entering(p, c) /\ s.id = r.id /\ s.l1mshr = m /\ s \in Requests(p)
  BY Zenon, HeadMarked
<1>2. q \in Seq(Entering(p, c)) /\ q # <<>>
  BY DEF L1Type
<1>3. r \in Requests(p) /\ ~r.l1mshr
  <2>1. r \in Entering(p, c)
    BY <1>2
  <2> QED BY <2>1, EnteringType, RequestType
<1> HIDE DEF t, s
<1>4. \A i \in DOMAIN p, w \in BOOLEAN :
        AtL1(p, i, w)' + One(r, Holding(p, i, w)) = AtL1(p, i, w) + One(s, Holding(p, i, w))
  BY <1>1, HeadChangesL1 DEF t
<1> SUFFICES ASSUME NEW i \in DOMAIN p, NEW w \in BOOLEAN PROVE AtL1(p, i, w)' = AtL1(p, i, w)
  BY DEF SameAtL1
<1>5. One(s, Holding(p, i, w)) = One(r, Holding(p, i, w))
  <2>1. s.l1mshr = r.l1mshr
    BY <1>1, <1>3, RequestType
  <2>2. s \in Holding(p, i, w) <=> r \in Holding(p, i, w)
    BY <1>1, <1>3, <2>1, OneRequest
  <2> QED BY <2>2 DEF One
<1>6. L1Type(p)' /\ L2Type(p)'
  BY UnchangedL2
<1>7. AtL1(p, i, w) \in Nat /\ AtL1(p, i, w)' \in Nat /\ One(s, Holding(p, i, w)) \in Nat
      /\ One(r, Holding(p, i, w)) \in Nat
  BY <1>6, NumbersNext, OneType DEF Numbers
<1>8. AtL1(p, i, w)' + One(r, Holding(p, i, w)) = AtL1(p, i, w) + One(s, Holding(p, i, w))
  BY <1>4
<1> HIDE DEF r
<1> QED BY <1>5, <1>7, <1>8

LEMMA Forward1Keeps ==
  ASSUME NEW p \in Programs, Inv(p), NEW c \in Caches, Forward1(c)
  PROVE  Inv(p)'
<1> DEFINE q == l1[c].req
           m == FALSE
           t == Head1(c, 1, m)
<1>1. L1Type(p) /\ L2Type(p) /\ BusLife(p)
  BY InvParts
<1>2. q # <<>> /\ Head(q).progress = 0 /\ l2' = l2 /\ bus' = bus /\ done' = done
      /\ l1' = [l1 EXCEPT ![c].req = t]
  BY Zenon DEF Forward1, Fresh
<1>3. /\ l1 = [e \in Caches |-> l1[e]]
      /\ l1[c] = [req |-> q, down |-> l1[c].down, ways |-> l1[c].ways, mshr |-> l1[c].mshr]
      /\ L1Fits(p, c, l1[c].req, l1[c].down, l1[c].ways, l1[c].mshr)
  BY Zenon, <1>1, L1Shape
<1>4. m \in BOOLEAN /\ ~m
  BY Zenon
<1> HIDE DEF m
<1>5. t \in Seq(Entering(p, c))
  BY <1>1, <1>2, <1>4, HeadMarked
<1> HIDE DEF t
<1>6. l1'[c] = [req |-> t, down |-> l1[c].down, ways |-> l1[c].ways, mshr |-> l1[c].mshr]
      /\ l1' = [e \in Caches |-> l1'[e]] /\ \A e \in Caches : e # c => l1'[e] = l1[e]
  BY <1>2, <1>3
<1>7. L1Becomes(c, t, l1[c].down, l1[c].ways, l1[c].mshr)
  BY <1>6 DEF L1Becomes
<1>8. L1Fits(p, c, t, l1[c].down, l1[c].ways, l1[c].mshr)
  BY <1>3, <1>5 DEF L1Fits
<1>9. /\ L1Type(p)' /\ l1'[c].req = t /\ l1'[c].down = l1[c].down /\ l1'[c].mshr = l1[c].mshr
      /\ \A e \in Caches : e # c => l1'[e] = l1[e]
  BY <1>1, <1>7, <1>8, L1Kept
<1>10. SameDown /\ SameMSHRs
  BY Zenon, <1>9 DEF SameDown, SameMSHRs, SameMains
<1>11. SameAtL1(p)
  BY Zenon, <1>1, <1>2, <1>4, <1>9, MarkedAlone DEF t
<1> QED BY <1>2, <1>9, <1>10, <1>11, QuietKeeps

LEMMA FlushPurge1Keeps ==
  ASSUME NEW p \in Programs, Inv(p), NEW c \in Caches, FlushPurge1(c)
  PROVE  Inv(p)'
<1> DEFINE q == l1[c].req
           r == Head(q)
           m == FALSE
           t == Head1(c, 1, m)
           held == l1[c].mshr[r.line]
           M == [l1[c].mshr EXCEPT ![r.line].pend = IF r.kind = "PURGEC" /\ held.valid THEN r.kind ELSE @]
           W == IF r.kind = "PURGEC" /\ ~held.valid THEN Drop(l1[c].ways, r.line) ELSE l1[c].ways
<1>1. L1Type(p) /\ L2Type(p) /\ BusLife(p)
  BY InvParts
<1>2. q # <<>> /\ r.progress = 0 /\ l2' = l2 /\ bus' = bus /\ done' = done
      /\ l1' = [l1 EXCEPT ![c].req = t,
                          ![c].mshr[r.line].pend = IF r.kind = "PURGEC" /\ held.valid THEN r.kind ELSE @,
                          ![c].ways = IF r.kind = "PURGEC" /\ ~held.valid THEN Drop(@, r.line) ELSE @]
  BY Zenon DEF FlushPurge1, Fresh
<1>3. /\ l1 = [e \in Caches |-> l1[e]]
      /\ l1[c] = [req |-> q, down |-> l1[c].down, ways |-> l1[c].ways, mshr |-> l1[c].mshr]
      /\ L1Fits(p, c, l1[c].req, l1[c].down, l1[c].ways, l1[c].mshr)
  BY <1>1, L1Shape
<1>4. m \in BOOLEAN /\ ~m
  OBVIOUS
<1> HIDE DEF m
<1>5. t \in Seq(Entering(p, c))
  BY Zenon, <1>1, <1>2, <1>4, HeadMarked
<1>6. r.line \in Lines /\ r.kind \in Kinds
  BY Zenon, <1>1, <1>2, HeadOfL1
<1>7. W \in [1 .. Ways1 -> Tags]
  BY Zenon, <1>3, WaysType, HierarchyAssumption DEF L1Fits
<1> HIDE DEF t
<1>8. l1'[c] = [req |-> t, down |-> l1[c].down, ways |-> W, mshr |-> M]
      /\ l1' = [e \in Caches |-> l1'[e]] /\ \A e \in Caches : e # c => l1'[e] = l1[e]
  <2> HIDE DEF r
  <2>1. l1'[c] = [req |-> t, down |-> l1[c].down, ways |-> W, mshr |-> M]
    BY Zenon, <1>2, <1>3
  <2>2. l1' = [e \in Caches |-> l1'[e]] /\ \A e \in Caches : e # c => l1'[e] = l1[e]
    BY Zenon, <1>2, <1>3
  <2> QED BY Zenon, <2>1, <2>2
<1>9. L1Becomes(c, t, l1[c].down, W, M)
  BY Zenon, <1>8 DEF L1Becomes
<1>10. \A x \in Lines : /\ M[x] \in MSHRs(Missed(p, c, x), 1 .. Ways1)
                        /\ M[x].main = l1[c].mshr[x].main /\ M[x].coal = l1[c].mshr[x].coal
                        /\ M[x].valid = l1[c].mshr[x].valid
  <2> SUFFICES ASSUME NEW x \in Lines
               PROVE  M[x] \in MSHRs(Missed(p, c, x), 1 .. Ways1) /\ Alike(M[x], l1[c].mshr[x])
    BY Zenon DEF Alike
  <2>1. l1[c].mshr[x] \in MSHRs(Missed(p, c, x), 1 .. Ways1) /\ l1[c].mshr = [y \in Lines |-> l1[c].mshr[y]]
    BY <1>3 DEF L1Fits
  <2>2. l1[c].mshr[x].pend \in Kinds
    BY <2>1 DEF MSHRs
  <2> DEFINE k == IF r.kind = "PURGEC" /\ held.valid THEN r.kind ELSE l1[c].mshr[x].pend
  <2> HIDE DEF r
  <2>3. CASE x = r.line
    <3>1. M[x] = [l1[c].mshr[x] EXCEPT !.pend = k]
      BY <1>6, <2>1, <2>3
    <3>2. k \in Kinds
      BY <1>6, <2>2
    <3> HIDE DEF k, M
    <3> QED BY <2>1, <3>1, <3>2, MSHRChanged
  <2>4. CASE x # r.line
    BY Zenon, <2>1, <2>4 DEF Alike
  <2> QED BY Zenon, <2>3, <2>4
<1>11. L1Fits(p, c, t, l1[c].down, W, M)
  <2>1. M = [x \in Lines |-> M[x]]
    BY Zenon, <1>3 DEF L1Fits
  <2> QED BY Zenon, <1>3, <1>5, <1>7, <1>10, <2>1 DEF L1Fits
<1> HIDE DEF M, W
<1>12. /\ L1Type(p)' /\ l1'[c].req = t /\ l1'[c].down = l1[c].down /\ l1'[c].mshr = M
       /\ \A e \in Caches : e # c => l1'[e] = l1[e]
  BY <1>1, <1>9, <1>11, L1Kept
<1>13. SameDown /\ SameMSHRs
  BY Zenon, <1>10, <1>12 DEF SameDown, SameMSHRs, SameMains
<1>14. SameAtL1(p)
  BY Zenon, <1>1, <1>2, <1>4, <1>12, MarkedAlone DEF t
<1> QED BY Zenon, <1>2, <1>12, <1>13, <1>14, QuietKeeps

LEMMA StallWAR1Keeps ==
  ASSUME NEW p \in Programs, Inv(p), NEW c \in Caches, StallWAR1(c)
  PROVE  Inv(p)'
<1> DEFINE r == Head(l1[c].req)
           M == [l1[c].mshr EXCEPT ![r.line].war = TRUE]
<1>1. L1Type(p)
  BY Zenon, InvParts
<1>2. l1[c].req # <<>> /\ l2' = l2 /\ bus' = bus /\ done' = done
      /\ l1' = [l1 EXCEPT ![c].mshr[r.line].war = TRUE]
  BY Zenon DEF StallWAR1, Fresh
<1>3. /\ l1 = [e \in Caches |-> l1[e]]
      /\ l1[c] = [req |-> l1[c].req, down |-> l1[c].down, ways |-> l1[c].ways, mshr |-> l1[c].mshr]
      /\ L1Fits(p, c, l1[c].req, l1[c].down, l1[c].ways, l1[c].mshr)
  BY Zenon, <1>1, L1Shape
<1>4. r.line \in Lines
  BY <1>1, <1>2, HeadOfL1
<1> HIDE DEF r
<1>5. l1'[c] = [req |-> l1[c].req, down |-> l1[c].down, ways |-> l1[c].ways, mshr |-> M]
      /\ l1' = [e \in Caches |-> l1'[e]] /\ \A e \in Caches : e # c => l1'[e] = l1[e]
  BY <1>2, <1>3
<1>6. L1Becomes(c, l1[c].req, l1[c].down, l1[c].ways, M)
  BY <1>5 DEF L1Becomes
<1>7. \A x \in Lines : /\ M[x] \in MSHRs(Missed(p, c, x), 1 .. Ways1)
                       /\ M[x].main = l1[c].mshr[x].main /\ M[x].coal = l1[c].mshr[x].coal
                       /\ M[x].valid = l1[c].mshr[x].valid
  <2> SUFFICES ASSUME NEW x \in Lines
               PROVE  M[x] \in MSHRs(Missed(p, c, x), 1 .. Ways1) /\ Alike(M[x], l1[c].mshr[x])
    BY DEF Alike
  <2>1. l1[c].mshr[x] \in MSHRs(Missed(p, c, x), 1 .. Ways1) /\ l1[c].mshr = [y \in Lines |-> l1[c].mshr[y]]
    BY <1>3 DEF L1Fits
  <2>2. CASE x = r.line
    <3> DEFINE b == TRUE
    <3>1. b \in BOOLEAN /\ M[x] = [l1[c].mshr[x] EXCEPT !.war = b]
      BY <1>4, <2>1, <2>2
    <3> HIDE DEF M, b
    <3> QED BY <2>1, <3>1, MSHRChanged
  <2>3. CASE x # r.line
    BY <2>1, <2>3 DEF Alike
  <2> QED BY <2>2, <2>3
<1>8. L1Fits(p, c, l1[c].req, l1[c].down, l1[c].ways, M)
  <2>1. M = [x \in Lines |-> M[x]]
    BY <1>3 DEF L1Fits
  <2> QED BY <1>3, <1>7, <2>1 DEF L1Fits
<1> HIDE DEF M
<1>9. /\ L1Type(p)' /\ l1'[c].req = l1[c].req /\ l1'[c].down = l1[c].down /\ l1'[c].mshr = M
      /\ \A e \in Caches : e # c => l1'[e] = l1[e]
  BY <1>1, <1>6, <1>8, L1Kept
<1>10. SameDown /\ SameMSHRs
  BY <1>7, <1>9 DEF SameDown, SameMSHRs, SameMains
<1>11. SameAtL1(p)
  BY <1>9, SameL1 DEF SameAtL1
<1> QED BY Zenon, <1>2, <1>9, <1>10, <1>11, QuietKeeps

LEMMA Coalesce1Keeps ==
  ASSUME NEW p \in Programs, Inv(p), NEW c \in Caches, Coalesce1(c)
  PROVE  Inv(p)'
<1> DEFINE q == l1[c].req
           r == Head(q)
           M == [l1[c].mshr EXCEPT ![r.line].coal = Append(@, r)]
<1>1. /\ L1Type(p) /\ L2Type(p) /\ RestType(p) /\ BusLife(p)
      /\ Waited \in BOOLEAN /\ Alone \in BOOLEAN
      /\ \A i \in DOMAIN p : done.count[i] \in Nat
  BY Zenon, InvParts
<1>2. q # <<>> /\ r.progress = 0 /\ done' = done /\ l2' = l2 /\ bus' = bus /\ l1[c].mshr[r.line].valid
      /\ l1' = [l1 EXCEPT ![c].req = Tail(@), ![c].mshr[r.line].coal = Append(@, r)]
  BY Zenon DEF Coalesce1, Fresh, Joins, JoinsPurged
<1>3. /\ l1 = [e \in Caches |-> l1[e]]
      /\ l1[c] = [req |-> q, down |-> l1[c].down, ways |-> l1[c].ways, mshr |-> l1[c].mshr]
      /\ L1Fits(p, c, l1[c].req, l1[c].down, l1[c].ways, l1[c].mshr)
  BY Zenon, <1>1, L1Shape
<1>4. /\ r \in Requests(p) /\ r.cache = c /\ ~r.l1mshr /\ r.line \in Lines /\ r \in Missed(p, c, r.line)
      /\ Tail(q) \in Seq(Entering(p, c))
  BY Zenon, <1>1, <1>2, HeadOfL1 DEF Missed
<1> HIDE DEF r
<1>5. l1'[c] = [req |-> Tail(q), down |-> l1[c].down, ways |-> l1[c].ways, mshr |-> M]
      /\ l1' = [e \in Caches |-> l1'[e]] /\ \A e \in Caches : e # c => l1'[e] = l1[e]
  <2>1. l1'[c] = [req |-> Tail(q), down |-> l1[c].down, ways |-> l1[c].ways, mshr |-> M]
    BY <1>2, <1>3
  <2>2. l1' = [e \in Caches |-> l1'[e]] /\ \A e \in Caches : e # c => l1'[e] = l1[e]
    BY <1>2, <1>3
  <2> QED BY Zenon, <2>1, <2>2
<1>6. L1Becomes(c, Tail(q), l1[c].down, l1[c].ways, M)
  BY Zenon, <1>5 DEF L1Becomes
<1>7. l1[c].mshr = [y \in Lines |-> l1[c].mshr[y]] /\ \A x \in Lines : l1[c].mshr[x] \in MSHRs(Missed(p, c, x), 1 .. Ways1)
  BY Zenon, <1>3 DEF L1Fits
<1>8. /\ M = [x \in Lines |-> M[x]] /\ M[r.line] \in MSHRs(Missed(p, c, r.line), 1 .. Ways1)
      /\ M[r.line].main = l1[c].mshr[r.line].main /\ M[r.line].valid = l1[c].mshr[r.line].valid
      /\ M[r.line].coal = Append(l1[c].mshr[r.line].coal, r)
      /\ \A x \in Lines : x # r.line => M[x] = l1[c].mshr[x]
  <2> DEFINE n == [l1[c].mshr[r.line] EXCEPT !.coal = Append(@, r)]
  <2>1. M[r.line] = n /\ M = [x \in Lines |-> M[x]] /\ \A x \in Lines : x # r.line => M[x] = l1[c].mshr[x]
    <3> DEFINE f == l1[c].mshr
    <3>1. M = [f EXCEPT ![r.line] = n] /\ f = [y \in Lines |-> f[y]]
      BY <1>4, <1>7
    <3> HIDE DEF M, n, f
    <3>2. M[r.line] = n /\ M = [x \in Lines |-> M[x]] /\ \A x \in Lines : x # r.line => M[x] = f[x]
      BY <1>4, <3>1
    <3> QED BY <3>2 DEF f
  <2>2. l1[c].mshr[r.line] \in MSHRs(Missed(p, c, r.line), 1 .. Ways1)
    BY <1>4, <1>7
  <2>3. n \in MSHRs(Missed(p, c, r.line), 1 .. Ways1) /\ n.main = l1[c].mshr[r.line].main
        /\ n.valid = l1[c].mshr[r.line].valid /\ n.coal = Append(l1[c].mshr[r.line].coal, r)
    <3> DEFINE m == l1[c].mshr[r.line]
               S == Missed(p, c, r.line)
    <3>1. m \in MSHRs(S, 1 .. Ways1) /\ m.valid /\ r \in S
      BY <1>2, <1>4, <2>2
    <3> HIDE DEF m, S, n
    <3>2. Joined(n, m, r)
      BY DEF Joined, n, m
    <3>3. n \in MSHRs(S, 1 .. Ways1) /\ n.main = m.main /\ n.valid /\ n.coal = Append(m.coal, r)
      BY <3>1, <3>2, MSHRJoined
    <3>4. n.valid \in BOOLEAN /\ m.valid \in BOOLEAN
      BY Zenon, <3>1, <3>3 DEF MSHRs
    <3>5. n.valid = m.valid
      BY Zenon, <3>1, <3>3, <3>4
    <3> QED BY <3>3, <3>5 DEF m, S
  <2> HIDE DEF n, M
  <2> QED BY <2>1, <2>3
<1> HIDE DEF M
<1>9. \A x \in Lines : M[x] \in MSHRs(Missed(p, c, x), 1 .. Ways1) /\ M[x].main = l1[c].mshr[x].main
                       /\ M[x].valid = l1[c].mshr[x].valid
  BY Zenon, <1>7, <1>8
<1>10. L1Fits(p, c, Tail(q), l1[c].down, l1[c].ways, M)
  BY <1>3, <1>4, <1>8, <1>9 DEF L1Fits
<1>11. /\ L1Type(p)' /\ l1'[c].req = Tail(q) /\ l1'[c].down = l1[c].down /\ l1'[c].mshr = M
       /\ \A e \in Caches : e # c => l1'[e] = l1[e]
  BY <1>1, <1>6, <1>10, L1Kept
<1>12. SameDown /\ SameMains
  BY Zenon, <1>9, <1>11 DEF SameDown, SameMains
<1>13. \A i \in DOMAIN p, w \in BOOLEAN : AtL1(p, i, w)' + One(r, Holding(p, i, w)) = AtL1(p, i, w)
  BY Zenon, <1>1, <1>2, <1>11, HeadLeavesL1 DEF r
<1>14. \A i \in DOMAIN p : InMSHR(p, i)' = InMSHR(p, i) + One(r, OfAccess(p, i))
  <2>1. Coalesced1(r)
    BY Zenon, <1>4, <1>8, <1>11 DEF Coalesced1
  <2>2. OtherMSHRs1(r.cache, r.line)
    <3> SUFFICES ASSUME NEW e \in Caches, NEW x \in Lines, e # r.cache \/ x # r.line
                 PROVE  l1'[e].mshr[x] = l1[e].mshr[x]
      BY Zenon DEF OtherMSHRs1
    <3>1. CASE e = c
      <4>1. x # r.line
        BY <1>4, <3>1
      <4> QED BY <1>8, <1>11, <3>1, <4>1
    <3>2. CASE e # c
      BY <1>11, <3>2
    <3> QED BY Zenon, <3>1, <3>2
  <2> QED BY Zenon, <1>1, <1>4, <2>1, <2>2, JoinsInL1
<1>15. /\ L2Type(p)' /\ BusLife(p)'
       /\ \A i \in DOMAIN p, w \in BOOLEAN :
            AtL2(p, i, w)' = AtL2(p, i, w) /\ InL2(p, i, w)' = InL2(p, i, w) /\ InData(p, i, w)' = InData(p, i, w)
  BY <1>1, <1>2, UnchangedL2
<1>16. /\ RestType(p)' /\ Issued' = Issued /\ done'.fault = done.fault
       /\ \A i \in DOMAIN p : done'.count[i] = done.count[i]
  BY <1>1, <1>2, UnchangedRest
<1>17. SameReplies(p) /\ \A i \in DOMAIN p : InFlush(p, i)' = InFlush(p, i)
  BY <1>12, SameL1 DEF SameDown, SameReplies
<1>18. Numbers(p) /\ Numbers(p)'
  BY <1>1, <1>11, <1>15, NumbersNext
<1>19. SameLoad(p)
  <2> SUFFICES ASSUME NEW i \in DOMAIN p
               PROVE  Below(p, i, Waited)' = Below(p, i, Waited) /\ Held(p, i)' = Held(p, i)
    BY DEF SameLoad
  <2>1. ASSUME NEW w \in BOOLEAN PROVE Below(p, i, w)' + One(r, Holding(p, i, w)) = Below(p, i, w)
    <3>1. /\ AtL1(p, i, w) \in Nat /\ AtL2(p, i, w) \in Nat /\ InL2(p, i, w) \in Nat /\ InData(p, i, w) \in Nat
          /\ AtL1(p, i, w)' \in Nat /\ AtL2(p, i, w)' \in Nat /\ InL2(p, i, w)' \in Nat /\ InData(p, i, w)' \in Nat
      BY <1>18 DEF Numbers
    <3>2. /\ AtL1(p, i, w)' + One(r, Holding(p, i, w)) = AtL1(p, i, w)
          /\ AtL2(p, i, w)' = AtL2(p, i, w) /\ InL2(p, i, w)' = InL2(p, i, w) /\ InData(p, i, w)' = InData(p, i, w)
      BY <1>13, <1>15
    <3>3. One(r, Holding(p, i, w)) \in Nat
      BY OneType
    <3> QED BY <3>1, <3>2, <3>3 DEF Below
  <2>2. /\ One(r, Holding(p, i, Waited)) = 0 /\ One(r, Holding(p, i, Alone)) = One(i, {r.id})
        /\ One(r, OfAccess(p, i)) = One(i, {r.id})
    BY <1>4, OneSide
  <2>3. /\ Below(p, i, Waited)' \in Nat /\ Below(p, i, Alone)' \in Nat /\ One(i, {r.id}) \in Nat
        /\ Below(p, i, Waited) \in Nat /\ Below(p, i, Alone) \in Nat /\ InMSHR(p, i) \in Nat /\ InFlush(p, i) \in Nat
        /\ InMSHR(p, i)' \in Nat /\ One(r, Holding(p, i, Waited)) \in Nat /\ One(r, Holding(p, i, Alone)) \in Nat
        /\ One(r, OfAccess(p, i)) \in Nat /\ done.count[i] \in Nat
    BY <1>1, <1>18, OneType DEF Numbers
  <2>4. /\ Below(p, i, Waited)' + One(r, Holding(p, i, Waited)) = Below(p, i, Waited)
        /\ Below(p, i, Alone)' + One(r, Holding(p, i, Alone)) = Below(p, i, Alone)
    BY <1>1, <2>1
  <2>5. /\ InMSHR(p, i)' = InMSHR(p, i) + One(r, OfAccess(p, i)) /\ InFlush(p, i)' = InFlush(p, i)
        /\ done'.count[i] = done.count[i]
    BY <1>14, <1>16, <1>17
  <2>6. Below(p, i, Waited)' = Below(p, i, Waited)
    BY <2>2, <2>3, <2>4
  <2>7. Held(p, i)' = Held(p, i)
    BY <2>2, <2>3, <2>4, <2>5 DEF Held
  <2> QED BY <2>6, <2>7
<1> QED BY Zenon, <1>11, <1>12, <1>15, <1>16, <1>17, <1>19, MovesKeep

LEMMA New1Keeps ==
  ASSUME NEW p \in Programs, Inv(p), NEW c \in Caches, New1(c)
  PROVE  Inv(p)'
<1> DEFINE q == l1[c].req
           r == Head(q)
           g == TRUE
           t == Head1(c, 1, g)
           s == [r EXCEPT !.progress = 1, !.l1mshr = g]
           miss == Miss(l1[c].ways, r.line)
           v == WayOf(l1[c].ways, r.line)
           n == [NoMSHR EXCEPT !.valid = TRUE, !.main = r, !.miss = miss, !.way = v]
           M == [l1[c].mshr EXCEPT ![r.line] = n]
<1>1. /\ L1Type(p) /\ L2Type(p) /\ RestType(p) /\ BusLife(p) /\ MSHRCarried(p) /\ AccessHeld(p) /\ ~done.fault
      /\ Waited \in BOOLEAN /\ Alone \in BOOLEAN
      /\ \A i \in DOMAIN p : done.count[i] \in Nat /\ p[i].cache \in Caches /\ p[i].line \in Lines
  BY Zenon, InvParts
<1>2. q # <<>> /\ r.progress = 0 /\ done' = done /\ l2' = l2 /\ bus' = bus /\ ~l1[c].mshr[r.line].valid
      /\ Access(r.kind) /\ l1' = [l1 EXCEPT ![c].req = t, ![c].mshr[r.line] = n]
  BY Zenon DEF New1, Fresh
<1>3. /\ l1 = [e \in Caches |-> l1[e]]
      /\ l1[c] = [req |-> q, down |-> l1[c].down, ways |-> l1[c].ways, mshr |-> l1[c].mshr]
      /\ L1Fits(p, c, l1[c].req, l1[c].down, l1[c].ways, l1[c].mshr)
  BY Zenon, <1>1, L1Shape
<1>4. /\ r \in Requests(p) /\ r.cache = c /\ ~r.l1mshr /\ r.line \in Lines /\ r \in Missed(p, c, r.line)
      /\ r # NoRequest
  BY Zenon, <1>1, <1>2, HeadOfL1, RequestType DEF Missed
<1>5. g \in BOOLEAN /\ g
  BY Zenon
<1> HIDE DEF g
<1>6. /\ t = [q EXCEPT ![1] = s] /\ s \in Entering(p, c) /\ s.id = r.id /\ s.l1mshr = g /\ s \in Requests(p)
      /\ t \in Seq(Entering(p, c))
  BY Zenon, <1>1, <1>2, <1>5, HeadMarked
<1> HIDE DEF t, s, r
<1>7. n \in MSHRs(Missed(p, c, r.line), 1 .. Ways1) /\ n.main = r /\ n.valid /\ n.coal = <<>>
  <2>1. l1[c].ways \in [1 .. Ways1 -> Tags]
    BY <1>3 DEF L1Fits
  <2>2. miss \in 0 .. 2 /\ v \in 1 .. Ways1
    BY <2>1, WaysType, HierarchyAssumption
  <2>3. Taken1(n, r, miss, v)
    BY DEF Taken1
  <2> DEFINE S == Missed(p, c, r.line)
             ways == 1 .. Ways1
  <2>4. r \in S /\ v \in ways
    BY <1>4, <2>2
  <2> HIDE DEF n, miss, v, S, ways
  <2>5. n \in MSHRs(S, ways) /\ n.main = r /\ n.valid /\ n.coal = <<>>
    BY <1>4, <2>2, <2>3, <2>4, MSHRNew1
  <2> QED BY <2>5 DEF S, ways
<1> HIDE DEF n
<1>8. l1'[c] = [req |-> t, down |-> l1[c].down, ways |-> l1[c].ways, mshr |-> M]
      /\ l1' = [e \in Caches |-> l1'[e]] /\ \A e \in Caches : e # c => l1'[e] = l1[e]
  BY <1>2, <1>3
<1>9. L1Becomes(c, t, l1[c].down, l1[c].ways, M)
  BY <1>8 DEF L1Becomes
<1>10. l1[c].mshr = [y \in Lines |-> l1[c].mshr[y]] /\ \A x \in Lines : l1[c].mshr[x] \in MSHRs(Missed(p, c, x), 1 .. Ways1)
  BY <1>3 DEF L1Fits
<1>11. M = [x \in Lines |-> M[x]] /\ M[r.line] = n /\ \A x \in Lines : x # r.line => M[x] = l1[c].mshr[x]
  BY <1>4, <1>10
<1> HIDE DEF M
<1>12. \A x \in Lines : M[x] \in MSHRs(Missed(p, c, x), 1 .. Ways1)
  BY <1>7, <1>10, <1>11
<1>13. L1Fits(p, c, t, l1[c].down, l1[c].ways, M)
  BY <1>3, <1>6, <1>11, <1>12 DEF L1Fits
<1>14. /\ L1Type(p)' /\ l1'[c].req = t /\ l1'[c].down = l1[c].down /\ l1'[c].mshr = M
       /\ \A e \in Caches : e # c => l1'[e] = l1[e]
  BY <1>1, <1>9, <1>13, L1Kept
<1>15. \A i \in DOMAIN p, w \in BOOLEAN :
         AtL1(p, i, w)' + One(r, Holding(p, i, w)) = AtL1(p, i, w) + One(s, Holding(p, i, w))
  <2>1. l1'[c].req = [q EXCEPT ![1] = s] /\ \A e \in Caches : e # c => l1'[e].req = l1[e].req
    BY <1>6, <1>14
  <2> QED BY Zenon, <1>1, <1>2, <1>6, <2>1, HeadChangesL1 DEF r
<1>16. \A i \in DOMAIN p : InMSHR(p, i)' = InMSHR(p, i) + One(r, OfAccess(p, i))
  <2>1. OtherMSHRs1(r.cache, r.line)
    BY <1>4, <1>11, <1>14 DEF OtherMSHRs1
  <2>2. l1'[r.cache].mshr[r.line].main = r /\ l1'[r.cache].mshr[r.line].coal = <<>> /\ ~l1[r.cache].mshr[r.line].valid
    BY <1>2, <1>4, <1>7, <1>11, <1>14
  <2> QED BY <1>1, <1>4, <2>1, <2>2, NewInL1
<1>17. /\ L2Type(p)' /\ BusLife(p)'
       /\ \A i \in DOMAIN p, w \in BOOLEAN :
            AtL2(p, i, w)' = AtL2(p, i, w) /\ InL2(p, i, w)' = InL2(p, i, w) /\ InData(p, i, w)' = InData(p, i, w)
  BY <1>1, <1>2, UnchangedL2
<1>18. /\ RestType(p)' /\ Issued' = Issued /\ done'.fault = done.fault
       /\ \A i \in DOMAIN p : done'.count[i] = done.count[i]
  BY <1>1, <1>2, UnchangedRest
<1>19. /\ \A e \in Caches, x \in Lines : ReplyCount(p, e, x)' = ReplyCount(p, e, x)
       /\ \A i \in DOMAIN p : InFlush(p, i)' = InFlush(p, i)
  <2>1. \A e \in Caches : l1'[e].down = l1[e].down
    BY <1>14
  <2> QED BY <2>1, SameL1
<1>20. Numbers(p) /\ Numbers(p)'
  BY <1>1, <1>14, <1>17, NumbersNext
<1>21. ASSUME NEW i \in DOMAIN p, NEW w \in BOOLEAN
       PROVE  Below(p, i, w)' + One(r, Holding(p, i, w)) = Below(p, i, w) + One(s, Holding(p, i, w))
  <2>1. /\ AtL1(p, i, w) \in Nat /\ AtL2(p, i, w) \in Nat /\ InL2(p, i, w) \in Nat /\ InData(p, i, w) \in Nat
        /\ AtL1(p, i, w)' \in Nat /\ AtL2(p, i, w)' \in Nat /\ InL2(p, i, w)' \in Nat /\ InData(p, i, w)' \in Nat
    BY <1>20 DEF Numbers
  <2>2. /\ AtL1(p, i, w)' + One(r, Holding(p, i, w)) = AtL1(p, i, w) + One(s, Holding(p, i, w))
        /\ AtL2(p, i, w)' = AtL2(p, i, w) /\ InL2(p, i, w)' = InL2(p, i, w) /\ InData(p, i, w)' = InData(p, i, w)
    BY <1>15, <1>17
  <2> DEFINE a == AtL1(p, i, w)
             b == AtL1(p, i, w)'
             d == AtL2(p, i, w) + InL2(p, i, w) + InData(p, i, w)
             e == One(r, Holding(p, i, w))
             f == One(s, Holding(p, i, w))
  <2>3. /\ a \in Nat /\ b \in Nat /\ d \in Nat /\ e \in Nat /\ f \in Nat /\ b + e = a + f
        /\ Below(p, i, w) = a + d /\ Below(p, i, w)' = b + d
    BY <2>1, <2>2, OneType DEF Below
  <2> HIDE DEF a, b, d, e, f
  <2>4. Below(p, i, w)' + e = Below(p, i, w) + f
    BY <2>3
  <2> QED BY <2>4 DEF e, f
<1>22. ASSUME NEW i \in DOMAIN p
       PROVE  /\ Below(p, i, Waited)' = Below(p, i, Waited) + One(i, {r.id})
              /\ Below(p, i, Alone)' + One(i, {r.id}) = Below(p, i, Alone)
              /\ One(r, OfAccess(p, i)) = One(i, {r.id})
  <2>1. /\ One(r, Holding(p, i, Waited)) = 0 /\ One(r, Holding(p, i, Alone)) = One(i, {r.id})
        /\ One(r, OfAccess(p, i)) = One(i, {r.id})
    BY <1>4, OneSide
  <2>2. One(s, Holding(p, i, Waited)) = One(i, {r.id}) /\ One(s, Holding(p, i, Alone)) = 0
    <3>1. s \in Requests(p) \cup WriteBacks /\ s.l1mshr /\ s.id = r.id
      BY <1>5, <1>6
    <3>2. One(s, Holding(p, i, Waited)) = One(i, {s.id}) /\ One(s, Holding(p, i, Alone)) = 0
      BY <3>1, OneSide
    <3> QED BY <3>1, <3>2
  <2>3. /\ Below(p, i, Waited)' \in Nat /\ Below(p, i, Alone)' \in Nat /\ One(i, {r.id}) \in Nat
        /\ Below(p, i, Waited) \in Nat /\ Below(p, i, Alone) \in Nat
        /\ One(r, Holding(p, i, Waited)) \in Nat /\ One(r, Holding(p, i, Alone)) \in Nat
        /\ One(s, Holding(p, i, Waited)) \in Nat /\ One(s, Holding(p, i, Alone)) \in Nat
    BY <1>1, <1>20, OneType DEF Numbers
  <2>4. /\ Below(p, i, Waited)' + One(r, Holding(p, i, Waited)) = Below(p, i, Waited) + One(s, Holding(p, i, Waited))
        /\ Below(p, i, Alone)' + One(r, Holding(p, i, Alone)) = Below(p, i, Alone) + One(s, Holding(p, i, Alone))
    BY <1>1, <1>21
  <2>5. Below(p, i, Waited)' = Below(p, i, Waited) + One(i, {r.id})
    BY <2>1, <2>2, <2>3, <2>4
  <2>6. Below(p, i, Alone)' + One(i, {r.id}) = Below(p, i, Alone)
    BY <2>1, <2>2, <2>3, <2>4
  <2> QED BY <2>1, <2>5, <2>6
<1>23. AccessHeld(p)'
  <2> SUFFICES ASSUME NEW i \in DOMAIN p PROVE Held(p, i)' = Held(p, i)
    BY <1>1, <1>18, HeldKept
  <2>1. /\ Below(p, i, Alone)' + One(i, {r.id}) = Below(p, i, Alone) /\ One(r, OfAccess(p, i)) = One(i, {r.id})
        /\ InMSHR(p, i)' = InMSHR(p, i) + One(r, OfAccess(p, i)) /\ InFlush(p, i)' = InFlush(p, i)
        /\ done'.count[i] = done.count[i]
    BY <1>16, <1>18, <1>19, <1>22
  <2>2. /\ Below(p, i, Alone)' \in Nat /\ Below(p, i, Alone) \in Nat /\ One(i, {r.id}) \in Nat
        /\ One(r, OfAccess(p, i)) \in Nat /\ InMSHR(p, i) \in Nat /\ InMSHR(p, i)' \in Nat /\ InFlush(p, i) \in Nat
        /\ done.count[i] \in Nat
    BY <1>1, <1>20, OneType DEF Numbers
  <2> QED BY <2>1, <2>2 DEF Held
<1>24. MSHRCarried(p)'
  <2>1. ASSUME NEW i \in DOMAIN p
        PROVE  Below(p, i, Waited)' = IF l1'[p[i].cache].mshr[p[i].line].main.id = i
                                      THEN 1 - ReplyCount(p, p[i].cache, p[i].line)' ELSE 0
    <3>1. /\ Below(p, i, Waited) = IF l1[p[i].cache].mshr[p[i].line].main.id = i
                                   THEN 1 - ReplyCount(p, p[i].cache, p[i].line) ELSE 0
          /\ p[i].cache \in Caches /\ p[i].line \in Lines /\ i # 0
      BY <1>1, ProgramType DEF MSHRCarried
    <3>2. Below(p, i, Waited)' = Below(p, i, Waited) + One(i, {r.id})
      BY <1>22
    <3>3. CASE p[i].cache = c /\ p[i].line = r.line
      <4>1. l1[c].mshr[r.line].main = NoRequest
        BY <1>2, <1>4, <1>10 DEF MSHRs
      <4>2. Below(p, i, Waited) = 0
        BY <3>1, <3>3, <4>1 DEF NoRequest
      <4>3. ReplyCount(p, p[i].cache, p[i].line)' = 0
        <5>1. ReplyCount(p, p[i].cache, p[i].line) = 0
          BY <1>1, <1>2, <3>1, <3>3 DEF MSHRCarried
        <5>2. ReplyCount(p, p[i].cache, p[i].line)' = ReplyCount(p, p[i].cache, p[i].line)
          BY <1>19, <3>1
        <5> QED BY <5>1, <5>2
      <4>4. l1'[p[i].cache].mshr[p[i].line].main = r
        BY <1>7, <1>11, <1>14, <3>3
      <4>5. Below(p, i, Waited)' = One(i, {r.id})
        <5>1. One(i, {r.id}) \in Nat /\ Below(p, i, Waited)' \in Nat /\ Below(p, i, Waited) \in Nat
          BY <1>1, <1>20, OneType DEF Numbers
        <5> QED BY <3>2, <4>2, <5>1
      <4>6. One(i, {r.id}) = IF r.id = i THEN 1 - 0 ELSE 0
        BY DEF One
      <4>7. CASE r.id = i
        BY <4>3, <4>4, <4>5, <4>6, <4>7
      <4>8. CASE r.id # i
        BY <4>4, <4>5, <4>6, <4>8
      <4> QED BY <4>7, <4>8
    <3>4. CASE ~(p[i].cache = c /\ p[i].line = r.line)
      <4>1. r.id # i
        BY <1>4, <3>4, RequestType
      <4>2. One(i, {r.id}) = 0
        BY <4>1 DEF One
      <4>3. l1'[p[i].cache].mshr[p[i].line] = l1[p[i].cache].mshr[p[i].line]
        BY <1>11, <1>14, <3>1, <3>4
      <4>4. ReplyCount(p, p[i].cache, p[i].line)' = ReplyCount(p, p[i].cache, p[i].line)
        BY <1>19, <3>1
      <4>5. Below(p, i, Waited)' = Below(p, i, Waited)
        <5>1. Below(p, i, Waited) \in Nat
          BY <1>1, <1>20 DEF Numbers
        <5> QED BY <3>2, <4>2, <5>1
      <4> QED BY <3>1, <4>3, <4>4, <4>5
    <3> QED BY <3>3, <3>4
  <2>2. ASSUME NEW e \in Caches, NEW x \in Lines, ~l1'[e].mshr[x].valid
        PROVE  ReplyCount(p, e, x)' = 0
    <3>1. ~l1[e].mshr[x].valid
      BY <1>7, <1>11, <1>14, <2>2
    <3> QED BY <1>1, <1>19, <3>1 DEF MSHRCarried
  <2> QED BY <2>1, <2>2 DEF MSHRCarried
<1> QED BY Zenon, <1>1, <1>14, <1>17, <1>18, <1>23, <1>24 DEF Inv

LEMMA Send1Keeps ==
  ASSUME NEW p \in Programs, Inv(p), NEW c \in Caches, Send1(c)
  PROVE  Inv(p)'
<1> DEFINE q == l1[c].req
           r == Head(q)
           u == [r EXCEPT !.progress = 0]
<1>1. /\ L1Type(p) /\ L2Type(p) /\ RestType(p) /\ BusLife(p)
  BY InvParts
<1>2. q # <<>> /\ done' = done /\ bus' = bus /\ l1' = [l1 EXCEPT ![c].req = Tail(@)]
      /\ l2' = [l2 EXCEPT !.req = Append(@, u)]
  BY DEF Send1
<1>3. /\ l1 = [e \in Caches |-> l1[e]]
      /\ l1[c] = [req |-> q, down |-> l1[c].down, ways |-> l1[c].ways, mshr |-> l1[c].mshr]
      /\ L1Fits(p, c, l1[c].req, l1[c].down, l1[c].ways, l1[c].mshr)
  BY <1>1, L1Shape
<1>4. /\ l2 = [req |-> l2.req, reply |-> l2.reply, cohe |-> l2.cohe, data |-> l2.data, ways |-> l2.ways,
               mshr |-> l2.mshr]
      /\ L2Fits(p, l2.req, l2.reply, l2.cohe, l2.data, l2.ways, l2.mshr)
  BY <1>1, L2Shape
<1>5. r \in Requests(p) /\ Tail(q) \in Seq(Entering(p, c))
  BY <1>1, <1>2, HeadOfL1
<1>6. u \in Requests(p) /\ u.id = r.id /\ u.l1mshr = r.l1mshr
  <2> HIDE DEF r
  <2>1. u \in Requests(p)
    <3>1. 0 \in 0 .. 1 /\ r.l1mshr \in BOOLEAN /\ (r.l1mshr => Access(r.kind))
      BY <1>5, RequestType
    <3> QED BY <1>5, <3>1, RequestMarked
  <2>2. r = [id |-> r.id, kind |-> r.kind, line |-> r.line, cache |-> r.cache,
             progress |-> r.progress, l1mshr |-> r.l1mshr, sh |-> r.sh]
    BY <1>5, RequestShape
  <2>3. u.id = r.id /\ u.l1mshr = r.l1mshr
    BY <2>2
  <2> QED BY <2>1, <2>3
<1> HIDE DEF u
<1>7. l1'[c] = [req |-> Tail(q), down |-> l1[c].down, ways |-> l1[c].ways, mshr |-> l1[c].mshr]
      /\ l1' = [e \in Caches |-> l1'[e]] /\ \A e \in Caches : e # c => l1'[e] = l1[e]
  BY <1>2, <1>3
<1>8. L1Becomes(c, Tail(q), l1[c].down, l1[c].ways, l1[c].mshr)
  BY <1>7 DEF L1Becomes
<1>9. L1Fits(p, c, Tail(q), l1[c].down, l1[c].ways, l1[c].mshr)
  BY <1>3, <1>5 DEF L1Fits
<1>10. /\ L1Type(p)' /\ l1'[c].req = Tail(q) /\ l1'[c].down = l1[c].down /\ l1'[c].mshr = l1[c].mshr
       /\ \A e \in Caches : e # c => l1'[e] = l1[e]
  BY <1>1, <1>8, <1>9, L1Kept
<1>11. L2Becomes(Append(l2.req, u), l2.reply, l2.cohe, l2.data, l2.ways, l2.mshr)
  BY <1>2, <1>4 DEF L2Becomes
<1>12. l2'.req = Append(l2.req, u)
  BY <1>11 DEF L2Becomes
<1>13. /\ Append(l2.req, u) \in Seq(Requests(p) \cup WriteBacks)
       /\ \A i \in DOMAIN p, w \in BOOLEAN : AtL2(p, i, w)' = AtL2(p, i, w) + One(u, Holding(p, i, w))
  BY <1>1, <1>6, <1>12, JoinsL2
<1>14. L2Fits(p, Append(l2.req, u), l2.reply, l2.cohe, l2.data, l2.ways, l2.mshr)
  BY <1>4, <1>13 DEF L2Fits
<1>15. /\ L2Type(p)' /\ l2'.reply = l2.reply /\ l2'.cohe = l2.cohe /\ l2'.data = l2.data /\ l2'.mshr = l2.mshr
  BY <1>11, <1>14, L2Kept
<1>16. BusLife(p)'
  BY <1>1, <1>15, BusLifeKept DEF SameFills, SameLives
<1>17. \A i \in DOMAIN p, w \in BOOLEAN : AtL1(p, i, w)' + One(r, Holding(p, i, w)) = AtL1(p, i, w)
  BY <1>1, <1>2, <1>10, HeadLeavesL1
<1>18. \A i \in DOMAIN p, w \in BOOLEAN : InL2(p, i, w)' = InL2(p, i, w) /\ InData(p, i, w)' = InData(p, i, w)
  BY <1>15, SameL2
<1>19. SameBelow(p)
  <2> SUFFICES ASSUME NEW i \in DOMAIN p, NEW w \in BOOLEAN PROVE Below(p, i, w)' = Below(p, i, w)
    BY DEF SameBelow
  <2>1. One(u, Holding(p, i, w)) = One(r, Holding(p, i, w))
    <3>1. u \in Holding(p, i, w) <=> r \in Holding(p, i, w)
      BY <1>5, <1>6, OneRequest
    <3> QED BY <3>1 DEF One
  <2>2. Numbers(p) /\ Numbers(p)'
    BY <1>1, <1>10, <1>15, NumbersNext
  <2> DEFINE a == AtL1(p, i, w)
             b == AtL1(p, i, w)'
             d == AtL2(p, i, w)
             e == AtL2(p, i, w)'
             f == InL2(p, i, w) + InData(p, i, w)
             o == One(r, Holding(p, i, w))
  <2>3. /\ a \in Nat /\ b \in Nat /\ d \in Nat /\ e \in Nat /\ f \in Nat /\ o \in Nat
    BY <2>2, OneType DEF Numbers
  <2>4. b + o = a /\ e = d + o
    BY <1>13, <1>17, <2>1
  <2>5. Below(p, i, w) = a + d + f
    BY <2>2 DEF Below, Numbers
  <2>6. Below(p, i, w)' = b + e + f
    BY <1>18, <2>2 DEF Below, Numbers
  <2> HIDE DEF a, b, d, e, f, o
  <2> QED BY <2>3, <2>4, <2>5, <2>6
<1>20. SameReplies(p) /\ SameFlushes(p) /\ SameMSHRs
  <2>1. \A e \in Caches : l1'[e].down = l1[e].down /\ l1'[e].mshr = l1[e].mshr
    BY <1>10
  <2> QED BY <2>1, SameL1 DEF SameReplies, SameFlushes, SameMSHRs, SameMains
<1>21. RestType(p)'
  BY <1>1, <1>2, UnchangedRest
<1> QED BY <1>2, <1>10, <1>15, <1>16, <1>19, <1>20, <1>21, BelowKeeps

\* The processor issues its next access.
LEMMA JoinsL1 ==
  ASSUME NEW p \in Programs, L1Type(p), L2Type(p), NEW c \in Caches, NEW r \in Entering(p, c),
         l1'[c].req = Append(l1[c].req, r), \A e \in Caches : e # c => l1'[e].req = l1[e].req
  PROVE  /\ Append(l1[c].req, r) \in Seq(Entering(p, c))
         /\ \A i \in DOMAIN p, w \in BOOLEAN : AtL1(p, i, w)' = AtL1(p, i, w) + One(r, Holding(p, i, w))
<1> DEFINE q == l1[c].req
           S == Entering(p, c)
<1>1. q \in Seq(S) /\ r \in S /\ Append(q, r) \in Seq(S)
  <2>1. q \in Seq(S)
    BY DEF L1Type
  <2> HIDE DEF q, S
  <2>2. Append(q, r) \in Seq(S)
    BY <2>1 DEF S
  <2> QED BY <2>1, <2>2 DEF S
<1>2. r \in Requests(p) /\ r.cache = c
  BY EnteringType
<1>3. ASSUME NEW i \in DOMAIN p, NEW w \in BOOLEAN
      PROVE  AtL1(p, i, w)' = AtL1(p, i, w) + One(r, Holding(p, i, w))
  <2>1. CASE p[i].cache = c
    <3>1. AtL1(p, i, w) = Count(q, Holding(p, i, w)) /\ AtL1(p, i, w)' = Count(Append(q, r), Holding(p, i, w))
      BY <2>1 DEF AtL1
    <3> HIDE DEF S, q
    <3>2. Count(Append(q, r), Holding(p, i, w)) = Count(q, Holding(p, i, w)) + One(r, Holding(p, i, w))
      BY <1>1, CountAppend
    <3> QED BY <3>1, <3>2
  <2>2. CASE p[i].cache # c
    <3>1. p[i].cache \in Caches
      BY ProgramType
    <3>2. One(r, Holding(p, i, w)) = 0
      BY <1>2, <2>2, OneRequest, OneType
    <3>3. AtL1(p, i, w)' = AtL1(p, i, w) /\ AtL1(p, i, w) \in Nat
      BY <2>2, <3>1, CountsType DEF AtL1
    <3> QED BY <3>2, <3>3
  <2> QED BY <2>1, <2>2
<1> QED BY <1>1, <1>3

LEMMA IssueKeeps ==
  ASSUME NEW p \in Programs, Inv(p), Issue
  PROVE  Inv(p)'
<1> DEFINE left == done.left
           a == Head(left)
           c == a.cache
           q == l1[c].req
           id == Len(done.count) - Len(left) + 1
           r == [NoRequest EXCEPT !.id = id, !.kind = a.kind, !.line = a.line, !.cache = c]
           n == Len(p)
<1>1. /\ L1Type(p) /\ L2Type(p) /\ RestType(p) /\ BusLife(p) /\ MSHRCarried(p) /\ AccessHeld(p) /\ ~done.fault
      /\ Waited \in BOOLEAN /\ Alone \in BOOLEAN
      /\ \A i \in DOMAIN p : done.count[i] \in Nat /\ p[i].cache \in Caches /\ p[i].line \in Lines
  BY Zenon, InvParts
<1>2. /\ left # <<>> /\ l1' = [l1 EXCEPT ![c].req = Append(@, r)] /\ done' = [done EXCEPT !.left = Tail(@)]
      /\ l2' = l2 /\ bus' = bus
  BY DEF Issue
<1>3. /\ done \in [left : Seq(Accesses), count : [DOMAIN p -> Nat], fault : BOOLEAN]
      /\ Len(left) <= n /\ \A k \in DOMAIN left : left[k] = p[n - Len(left) + k]
      /\ n \in Nat /\ DOMAIN p = 1 .. n
  BY <1>1, ProgramType DEF RestType
<1>4. /\ left \in Seq(Accesses) /\ Len(left) \in Nat /\ Len(left) # 0 /\ 1 \in DOMAIN left /\ a = left[1]
      /\ Tail(left) \in Seq(Accesses) /\ Len(Tail(left)) = Len(left) - 1
      /\ \A k \in 1 .. Len(left) - 1 : Tail(left)[k] = left[k + 1]
      /\ DOMAIN left = 1 .. Len(left) /\ DOMAIN Tail(left) = 1 .. Len(left) - 1
  <2>1. left \in Seq(Accesses)
    BY <1>3
  <2> HIDE DEF left
  <2> QED BY <1>2, <2>1 DEF a
<1>5. Len(done.count) = n /\ Issued = n - Len(left) /\ id = Issued + 1 /\ id \in DOMAIN p /\ a = p[id]
  <2>1. Len(done.count) = n
    BY <1>3
  <2>2. id = n - Len(left) + 1 /\ Issued = n - Len(left)
    BY <2>1 DEF Issued
  <2> HIDE DEF id, left
  <2>3. id \in 1 .. n
    BY <1>3, <1>4, <2>2
  <2>4. a = p[n - Len(left) + 1]
    BY <1>3, <1>4
  <2> QED BY <1>3, <1>4, <2>1, <2>2, <2>3, <2>4
<1>6. a.cache \in Caches /\ a.line \in Lines /\ a.kind \in Kinds /\ id \in Nat /\ id # 0
  BY <1>5, ProgramType
<1> HIDE DEF left, id, a
<1>7. r \in Requests(p) /\ r.id = id /\ r.cache = c /\ ~r.l1mshr
  <2> DEFINE kind == a.kind
             line == a.line
             cache == a.cache
  <2>1. id \in Nat /\ kind \in Kinds /\ line \in AnyLine /\ cache \in Caches
    BY <1>6 DEF AnyLine
  <2>2. r = [id |-> id, kind |-> kind, line |-> line, cache |-> cache, progress |-> 0, l1mshr |-> FALSE,
             sh |-> FALSE]
    <3> DEFINE g == FALSE
               o == 0
               s == NoRequest
    <3>1. s = [id |-> o, kind |-> "none", line |-> NoLine, cache |-> "D", progress |-> o, l1mshr |-> g, sh |-> g]
      BY DEF NoRequest
    <3>2. r = [s EXCEPT !.id = id, !.kind = kind, !.line = line, !.cache = cache]
      OBVIOUS
    <3> HIDE DEF g, o, s, kind, line, cache, r
    <3>3. r = [id |-> id, kind |-> kind, line |-> line, cache |-> cache, progress |-> o, l1mshr |-> g, sh |-> g]
      BY <3>1, <3>2
    <3> QED BY <3>3 DEF g, o
  <2>3. id \in DOMAIN p /\ p[id].kind = kind /\ p[id].line = line /\ p[id].cache = cache
    BY <1>5
  <2> HIDE DEF kind, line, cache, r
  <2>4. r.id = id /\ r.kind = kind /\ r.line = line /\ r.cache = cache /\ ~r.l1mshr
    BY <2>2
  <2>5. r \in AnyRequest
    BY <2>1, <2>2 DEF AnyRequest
  <2>6. r \in Requests(p)
    BY <2>3, <2>4, <2>5 DEF Requests
  <2> QED BY <2>4, <2>6 DEF cache
<1>8. r \in Entering(p, c)
  BY <1>7 DEF Entering
<1> HIDE DEF r
<1>9. c \in Caches
  BY <1>6
<1>10. /\ l1 = [e \in Caches |-> l1[e]]
      /\ l1[c] = [req |-> q, down |-> l1[c].down, ways |-> l1[c].ways, mshr |-> l1[c].mshr]
      /\ L1Fits(p, c, l1[c].req, l1[c].down, l1[c].ways, l1[c].mshr)
  BY <1>1, <1>9, L1Shape
<1> HIDE DEF c
<1>11. l1'[c] = [req |-> Append(q, r), down |-> l1[c].down, ways |-> l1[c].ways, mshr |-> l1[c].mshr]
      /\ l1' = [e \in Caches |-> l1'[e]] /\ \A e \in Caches : e # c => l1'[e] = l1[e]
  BY <1>2, <1>9, <1>10
<1>12. l1'[c].req = Append(l1[c].req, r) /\ \A e \in Caches : e # c => l1'[e].req = l1[e].req
  BY <1>11
<1>13. /\ Append(l1[c].req, r) \in Seq(Entering(p, c))
       /\ \A i \in DOMAIN p, w \in BOOLEAN : AtL1(p, i, w)' = AtL1(p, i, w) + One(r, Holding(p, i, w))
  BY <1>1, <1>8, <1>9, <1>12, JoinsL1
<1>14. L1Becomes(c, Append(q, r), l1[c].down, l1[c].ways, l1[c].mshr)
  BY <1>11 DEF L1Becomes
<1>15. L1Fits(p, c, Append(q, r), l1[c].down, l1[c].ways, l1[c].mshr)
  BY <1>10, <1>13 DEF L1Fits
<1>16. /\ L1Type(p)' /\ l1'[c].down = l1[c].down /\ l1'[c].mshr = l1[c].mshr
       /\ \A e \in Caches : e # c => l1'[e] = l1[e]
  BY <1>1, <1>9, <1>14, <1>15, L1Kept
<1>17. /\ L2Type(p)' /\ BusLife(p)'
       /\ \A i \in DOMAIN p, w \in BOOLEAN :
            AtL2(p, i, w)' = AtL2(p, i, w) /\ InL2(p, i, w)' = InL2(p, i, w) /\ InData(p, i, w)' = InData(p, i, w)
  BY <1>1, <1>2, UnchangedL2
<1>18. /\ SameReplies(p) /\ SameMains
       /\ \A i \in DOMAIN p : InMSHR(p, i)' = InMSHR(p, i) /\ InFlush(p, i)' = InFlush(p, i)
  <2>1. \A e \in Caches : l1'[e].down = l1[e].down /\ l1'[e].mshr = l1[e].mshr
    BY <1>16
  <2> QED BY <2>1, SameL1 DEF SameReplies, SameMains
<1>19. /\ RestType(p)' /\ Issued' = Issued + 1 /\ done'.count = done.count /\ done'.fault = done.fault
  <2>1. /\ done'.left = Tail(left) /\ done'.count = done.count /\ done'.fault = done.fault
        /\ done' \in [left : Seq(Accesses), count : [DOMAIN p -> Nat], fault : BOOLEAN]
    BY <1>2, <1>3, <1>4 DEF left
  <2>2. Len(done'.left) <= Len(p) /\ \A k \in DOMAIN done'.left : done'.left[k] = p[Len(p) - Len(done'.left) + k]
    <3>1. Len(left) - 1 <= n
      BY <1>3, <1>4
    <3>2. ASSUME NEW k \in 1 .. Len(left) - 1 PROVE Tail(left)[k] = p[n - (Len(left) - 1) + k]
      <4>1. k + 1 \in DOMAIN left /\ n - Len(left) + (k + 1) = n - (Len(left) - 1) + k
        BY <1>3, <1>4
      <4>2. left[k + 1] = p[n - Len(left) + (k + 1)]
        BY <1>3, <4>1 DEF left
      <4> QED BY <1>4, <4>1, <4>2
    <3> DEFINE t == Tail(left)
               m == Len(left) - 1
    <3>3. done'.left = t /\ Len(t) = m /\ DOMAIN t = 1 .. m /\ Len(p) = n
      BY <1>4, <2>1
    <3> HIDE DEF t, m, n
    <3>4. Len(t) <= Len(p)
      BY <3>1, <3>3 DEF m
    <3>5. \A k \in DOMAIN t : t[k] = p[Len(p) - Len(t) + k]
      BY <3>2, <3>3 DEF t, m
    <3> QED BY <3>3, <3>4, <3>5
  <2>3. bus' \in [remote : [Lines -> {"none", "shared", "owned"}], snoops : Nat, asked : SUBSET Lines]
    BY <1>1, <1>2 DEF RestType
  <2>4. Issued' = Issued + 1
    <3>1. Issued' = Len(done.count) - (Len(left) - 1)
      BY <1>4, <2>1 DEF Issued
    <3> QED BY <1>3, <1>4, <1>5, <3>1
  <2> QED BY <2>1, <2>2, <2>3, <2>4 DEF RestType
<1>20. Numbers(p) /\ Numbers(p)'
  BY <1>1, <1>16, <1>17, NumbersNext
<1>21. ASSUME NEW i \in DOMAIN p, NEW w \in BOOLEAN
       PROVE  Below(p, i, w)' = Below(p, i, w) + One(r, Holding(p, i, w))
  <2>1. /\ AtL1(p, i, w) \in Nat /\ AtL2(p, i, w) \in Nat /\ InL2(p, i, w) \in Nat /\ InData(p, i, w) \in Nat
        /\ AtL1(p, i, w)' \in Nat /\ One(r, Holding(p, i, w)) \in Nat
    BY <1>20, OneType DEF Numbers
  <2>2. /\ AtL1(p, i, w)' = AtL1(p, i, w) + One(r, Holding(p, i, w))
        /\ AtL2(p, i, w)' = AtL2(p, i, w) /\ InL2(p, i, w)' = InL2(p, i, w) /\ InData(p, i, w)' = InData(p, i, w)
    BY <1>13, <1>17
  <2> QED BY <2>1, <2>2 DEF Below
<1>22. MSHRCarried(p)'
  <2>1. ASSUME NEW i \in DOMAIN p PROVE Below(p, i, Waited)' = Below(p, i, Waited)
    <3>1. Below(p, i, Waited) \in Nat /\ One(r, Holding(p, i, Waited)) \in Nat
      BY <1>1, <1>20, OneType DEF Numbers
    <3>3. One(r, Holding(p, i, Waited)) = 0
      BY <1>7, OneSide
    <3>2. Below(p, i, Waited)' = Below(p, i, Waited) + One(r, Holding(p, i, Waited))
      BY <1>1, <1>21
    <3> QED BY <3>1, <3>2, <3>3
  <2> QED BY <1>1, <1>18, <2>1, CarriedKept DEF SameReplies, SameMains
<1>23. AccessHeld(p)'
  <2> SUFFICES ASSUME NEW i \in DOMAIN p PROVE Held(p, i)' = IF i <= Issued' THEN 1 ELSE 0
    BY DEF AccessHeld, Held
  <2>1. Held(p, i) = IF i <= Issued THEN 1 ELSE 0
    BY <1>1 DEF AccessHeld, Held
  <2>2. Held(p, i)' = Held(p, i) + One(r, Holding(p, i, Alone))
    <3>1. /\ Below(p, i, Alone) \in Nat /\ One(r, Holding(p, i, Alone)) \in Nat /\ done.count[i] \in Nat
          /\ InMSHR(p, i) \in Nat /\ InFlush(p, i) \in Nat /\ Below(p, i, Alone)' \in Nat
      BY <1>1, <1>20, OneType DEF Numbers
    <3>2. /\ Below(p, i, Alone)' = Below(p, i, Alone) + One(r, Holding(p, i, Alone))
          /\ InMSHR(p, i)' = InMSHR(p, i) /\ InFlush(p, i)' = InFlush(p, i) /\ done'.count[i] = done.count[i]
      BY <1>1, <1>18, <1>19, <1>21
    <3> QED BY <3>1, <3>2 DEF Held
  <2>3. One(r, Holding(p, i, Alone)) = IF i = id THEN 1 ELSE 0
    BY <1>7, OneSide DEF One
  <2>4. i \in Nat /\ Issued \in Nat /\ id = Issued + 1 /\ Issued' = Issued + 1
    BY <1>3, <1>4, <1>5, <1>19
  <2>5. CASE i = id
    <3>1. Held(p, i) = 0 /\ One(r, Holding(p, i, Alone)) = 1 /\ i <= Issued'
      BY <2>1, <2>3, <2>4, <2>5
    <3> QED BY <2>2, <3>1
  <2>6. CASE i # id
    <3>1. One(r, Holding(p, i, Alone)) = 0 /\ (i <= Issued' <=> i <= Issued)
      BY <2>3, <2>4, <2>6
    <3>2. Held(p, i) \in Nat
      BY <2>1
    <3> QED BY <2>1, <2>2, <3>1, <3>2
  <2> QED BY <2>5, <2>6
<1> QED BY <1>1, <1>16, <1>17, <1>19, <1>22, <1>23 DEF Inv

-----------------------------------------------------------------------------
\* The second level: what its handlers put into its queues, and what they keep.
LEMMA RequestKinds ==
  ASSUME NEW p \in Programs
  PROVE  /\ \A r \in Requests(p) : r.kind \in {"READ", "WRITE", "RMW", "FLUSHC", "PURGEC"}
         /\ \A r \in WriteBacks : r.kind = "WBACK"
<1>1. \A r \in WriteBacks : r.kind = "WBACK"
  BY DEF WriteBacks
<1>2. ASSUME NEW r \in Requests(p) PROVE r.kind \in {"READ", "WRITE", "RMW", "FLUSHC", "PURGEC"}
  <2>1. r.kind = p[r.id].kind /\ p[r.id] \in Accesses
    BY ProgramType, RequestType
  <2>2. \A a \in Accesses : a.kind \in {"READ", "WRITE", "RMW", "FLUSHC", "PURGEC"}
    BY DEF Accesses
  <2> QED BY <2>1, <2>2
<1> QED BY <1>1, <1>2

LEMMA DataItemTypes ==
  ASSUME NEW p \in Programs
  PROVE  /\ Out \in DataItems(p)
         /\ \A i \in DOMAIN p, w \in BOOLEAN : One(Out, Answers(p, i, w)) = 0
         /\ \A x \in Lines : One(Out, Fills(p, x)) = 0
         /\ \A r \in Requests(p) :
              /\ [kind |-> "REPLY", r |-> r] \in DataItems(p) /\ [kind |-> "FILL", r |-> r] \in DataItems(p)
              /\ \A i \in DOMAIN p, w \in BOOLEAN :
                   /\ One([kind |-> "REPLY", r |-> r], Answers(p, i, w)) = One(r, Holding(p, i, w))
                   /\ One([kind |-> "FILL", r |-> r], Answers(p, i, w)) = 0
              /\ \A x \in Lines :
                   /\ One([kind |-> "REPLY", r |-> r], Fills(p, x)) = 0
                   /\ One([kind |-> "FILL", r |-> r], Fills(p, x)) = IF r.line = x THEN 1 ELSE 0
<1>1. Out \in DataItems(p) /\ Out.kind = "OUT"
  BY DEF Out, DataItems
<1>2. /\ \A i \in DOMAIN p, w \in BOOLEAN : One(Out, Answers(p, i, w)) = 0
      /\ \A x \in Lines : One(Out, Fills(p, x)) = 0
  BY <1>1 DEF One, Answers, Fills
<1>3. ASSUME NEW r \in Requests(p)
      PROVE  /\ [kind |-> "REPLY", r |-> r] \in DataItems(p) /\ [kind |-> "FILL", r |-> r] \in DataItems(p)
             /\ \A i \in DOMAIN p, w \in BOOLEAN :
                  /\ One([kind |-> "REPLY", r |-> r], Answers(p, i, w)) = One(r, Holding(p, i, w))
                  /\ One([kind |-> "FILL", r |-> r], Answers(p, i, w)) = 0
             /\ \A x \in Lines :
                  /\ One([kind |-> "REPLY", r |-> r], Fills(p, x)) = 0
                  /\ One([kind |-> "FILL", r |-> r], Fills(p, x)) = IF r.line = x THEN 1 ELSE 0
  <2> DEFINE d == [kind |-> "REPLY", r |-> r]
             f == [kind |-> "FILL", r |-> r]
  <2>1. d \in DataItems(p) /\ d.kind = "REPLY" /\ d.r = r /\ f \in DataItems(p) /\ f.kind = "FILL" /\ f.r = r
    BY DEF DataItems
  <2> HIDE DEF d, f
  <2>2. ASSUME NEW i \in DOMAIN p, NEW w \in BOOLEAN
        PROVE  One(d, Answers(p, i, w)) = One(r, Holding(p, i, w)) /\ One(f, Answers(p, i, w)) = 0
    <3>1. (d \in Answers(p, i, w) <=> r \in Holding(p, i, w)) /\ f \notin Answers(p, i, w)
      BY <2>1 DEF Answers
    <3> QED BY <3>1 DEF One
  <2>3. ASSUME NEW x \in Lines
        PROVE  One(d, Fills(p, x)) = 0 /\ One(f, Fills(p, x)) = IF r.line = x THEN 1 ELSE 0
    <3>1. d \notin Fills(p, x) /\ (f \in Fills(p, x) <=> r.line = x)
      BY <2>1 DEF Fills
    <3> QED BY <3>1 DEF One
  <2> QED BY <2>1, <2>2, <2>3 DEF d, f
<1> QED BY <1>1, <1>2, <1>3

\* The bookkeeping of an MSHR of the second level.
Moved(n, m, b) == n = [m EXCEPT !.bus = b]
Shared(n, m, k) == n = [m EXCEPT !.sh = k]
Placed(n, m, w, k) == n = [m EXCEPT !.way = w, !.lock = k]

LEMMA MSHROnBus ==
  ASSUME NEW S, NEW ways, NEW m \in MSHRs(S, ways), NEW b \in {"none", "snooped", "issued", "replied"},
         NEW n, Moved(n, m, b)
  PROVE  n \in MSHRs(S, ways) /\ Alike(n, m) /\ n.bus = b
<1>1. m = [valid |-> m.valid, main |-> m.main, coal |-> m.coal, war |-> m.war, miss |-> m.miss,
                     way |-> m.way, pend |-> m.pend, writes |-> m.writes, lock |-> m.lock, bus |-> m.bus,
                     sh |-> m.sh, releasing |-> m.releasing]
  BY DEF MSHRs
<1>2. /\ m.valid \in BOOLEAN /\ m.main \in S \cup {NoRequest} /\ m.coal \in Seq(S) /\ m.war \in BOOLEAN
      /\ m.miss \in 0 .. 2 /\ m.way \in ways /\ m.pend \in Kinds /\ m.writes \in BOOLEAN /\ m.lock \in BOOLEAN
      /\ m.bus \in {"none", "snooped", "issued", "replied"} /\ m.sh \in BOOLEAN /\ m.releasing \in BOOLEAN
      /\ (m.valid <=> m.main # NoRequest) /\ (m.valid \/ m.coal = <<>>)
  BY DEF MSHRs
<1> QED BY <1>1, <1>2 DEF MSHRs, Alike, Moved

LEMMA MSHRShared ==
  ASSUME NEW S, NEW ways, NEW m \in MSHRs(S, ways), NEW k \in BOOLEAN, NEW n, Shared(n, m, k)
  PROVE  n \in MSHRs(S, ways) /\ Alike(n, m) /\ n.bus = m.bus
<1>1. m = [valid |-> m.valid, main |-> m.main, coal |-> m.coal, war |-> m.war, miss |-> m.miss,
                     way |-> m.way, pend |-> m.pend, writes |-> m.writes, lock |-> m.lock, bus |-> m.bus,
                     sh |-> m.sh, releasing |-> m.releasing]
  BY DEF MSHRs
<1>2. /\ m.valid \in BOOLEAN /\ m.main \in S \cup {NoRequest} /\ m.coal \in Seq(S) /\ m.war \in BOOLEAN
      /\ m.miss \in 0 .. 2 /\ m.way \in ways /\ m.pend \in Kinds /\ m.writes \in BOOLEAN /\ m.lock \in BOOLEAN
      /\ m.bus \in {"none", "snooped", "issued", "replied"} /\ m.sh \in BOOLEAN /\ m.releasing \in BOOLEAN
      /\ (m.valid <=> m.main # NoRequest) /\ (m.valid \/ m.coal = <<>>)
  BY DEF MSHRs
<1> QED BY <1>1, <1>2 DEF MSHRs, Alike, Shared

LEMMA MSHRPlaced ==
  ASSUME NEW S, NEW ways, NEW m \in MSHRs(S, ways), NEW w \in ways, NEW k \in BOOLEAN,
         NEW n, Placed(n, m, w, k)
  PROVE  n \in MSHRs(S, ways) /\ Alike(n, m) /\ n.bus = m.bus
<1>1. m = [valid |-> m.valid, main |-> m.main, coal |-> m.coal, war |-> m.war, miss |-> m.miss,
                     way |-> m.way, pend |-> m.pend, writes |-> m.writes, lock |-> m.lock, bus |-> m.bus,
                     sh |-> m.sh, releasing |-> m.releasing]
  BY DEF MSHRs
<1>2. /\ m.valid \in BOOLEAN /\ m.main \in S \cup {NoRequest} /\ m.coal \in Seq(S) /\ m.war \in BOOLEAN
      /\ m.miss \in 0 .. 2 /\ m.way \in ways /\ m.pend \in Kinds /\ m.writes \in BOOLEAN /\ m.lock \in BOOLEAN
      /\ m.bus \in {"none", "snooped", "issued", "replied"} /\ m.sh \in BOOLEAN /\ m.releasing \in BOOLEAN
      /\ (m.valid <=> m.main # NoRequest) /\ (m.valid \/ m.coal = <<>>)
  BY DEF MSHRs
<1> QED BY <1>1, <1>2 DEF MSHRs, Alike, Placed

LEMMA MSHRWrites ==
  ASSUME NEW S, NEW ways, NEW m \in MSHRs(S, ways), NEW g \in BOOLEAN
  PROVE  /\ [m EXCEPT !.writes = g] \in MSHRs(S, ways) /\ Alike([m EXCEPT !.writes = g], m)
         /\ [m EXCEPT !.writes = g].bus = m.bus
<1>1. m = [valid |-> m.valid, main |-> m.main, coal |-> m.coal, war |-> m.war, miss |-> m.miss,
                     way |-> m.way, pend |-> m.pend, writes |-> m.writes, lock |-> m.lock, bus |-> m.bus,
                     sh |-> m.sh, releasing |-> m.releasing]
  BY DEF MSHRs
<1>2. /\ m.valid \in BOOLEAN /\ m.main \in S \cup {NoRequest} /\ m.coal \in Seq(S) /\ m.war \in BOOLEAN
      /\ m.miss \in 0 .. 2 /\ m.way \in ways /\ m.pend \in Kinds /\ m.writes \in BOOLEAN /\ m.lock \in BOOLEAN
      /\ m.bus \in {"none", "snooped", "issued", "replied"} /\ m.sh \in BOOLEAN /\ m.releasing \in BOOLEAN
      /\ (m.valid <=> m.main # NoRequest) /\ (m.valid \/ m.coal = <<>>)
  BY DEF MSHRs
<1> QED BY <1>1, <1>2 DEF MSHRs, Alike

\* One MSHR of the second level changes.
LEMMA OneMSHR2 ==
  ASSUME NEW p \in Programs, L2Type(p), NEW x \in Lines, NEW n \in MSHRs(OfLine(p, x), 1 .. Ways2), NEW M,
         M = [l2.mshr EXCEPT ![x] = n]
  PROVE  /\ M = [y \in Lines |-> M[y]] /\ \A y \in Lines : M[y] \in MSHRs(OfLine(p, y), 1 .. Ways2)
         /\ M[x] = n /\ \A y \in Lines : y # x => M[y] = l2.mshr[y]
<1> DEFINE f == l2.mshr
<1>1. f = [y \in Lines |-> f[y]] /\ \A y \in Lines : f[y] \in MSHRs(OfLine(p, y), 1 .. Ways2)
  BY DEF L2Type
<1> HIDE DEF f
<1>2. M = [f EXCEPT ![x] = n]
  BY DEF f
<1>3. M = [y \in Lines |-> M[y]] /\ M[x] = n /\ \A y \in Lines : y # x => M[y] = f[y]
  BY <1>1, <1>2
<1>4. \A y \in Lines : M[y] \in MSHRs(OfLine(p, y), 1 .. Ways2)
  BY <1>1, <1>3
<1> QED BY <1>3, <1>4 DEF f

\* A step of the second level that only moves requests within it.
SameInL2(p) ==
  \A i \in DOMAIN p, w \in BOOLEAN :
    AtL2(p, i, w)' + InL2(p, i, w)' + InData(p, i, w)' = AtL2(p, i, w) + InL2(p, i, w) + InData(p, i, w)

LEMMA Level2Keeps ==
  ASSUME NEW p \in Programs, Inv(p), l1' = l1, done' = done, L2Type(p)', RestType(p)', BusLife(p)', SameInL2(p)
  PROVE  Inv(p)'
<1>1. L1Type(p) /\ L2Type(p)
  BY InvParts
<1>2. /\ L1Type(p)' /\ \A i \in DOMAIN p, w \in BOOLEAN : AtL1(p, i, w)' = AtL1(p, i, w)
      /\ SameReplies(p) /\ SameFlushes(p)
  BY <1>1, UnchangedL1 DEF SameReplies, SameFlushes
<1>3. SameMSHRs
  BY DEF SameMSHRs, SameMains
<1>4. Numbers(p) /\ Numbers(p)'
  BY <1>1, <1>2, NumbersNext
<1>5. SameBelow(p)
  <2> SUFFICES ASSUME NEW i \in DOMAIN p, NEW w \in BOOLEAN PROVE Below(p, i, w)' = Below(p, i, w)
    BY DEF SameBelow
  <2> DEFINE a == AtL1(p, i, w)
             b == AtL2(p, i, w)
             d == InL2(p, i, w)
             e == InData(p, i, w)
             bb == AtL2(p, i, w)'
             dd == InL2(p, i, w)'
             ee == InData(p, i, w)'
  <2>1. /\ a \in Nat /\ b \in Nat /\ d \in Nat /\ e \in Nat /\ bb \in Nat /\ dd \in Nat /\ ee \in Nat
        /\ bb + dd + ee = b + d + e
    BY <1>4 DEF Numbers, SameInL2
  <2>2. Below(p, i, w) = a + b + d + e /\ Below(p, i, w)' = a + bb + dd + ee
    BY <1>2 DEF Below
  <2> HIDE DEF a, b, d, e, bb, dd, ee
  <2> QED BY <2>1, <2>2
<1> QED BY <1>2, <1>3, <1>5, BelowKeeps

\* The bus does not take part in the step either.
LEMMA QuietBusKeeps ==
  ASSUME NEW p \in Programs, Inv(p), l1' = l1, bus' = bus, done' = done, NEW q, NEW d, NEW W, NEW M,
         L2Fits(p, q, l2.reply, l2.cohe, d, W, M), L2Becomes(q, l2.reply, l2.cohe, d, W, M),
         SameFills(p), SameLives, SameInL2(p)
  PROVE  Inv(p)'
<1>1. RestType(p) /\ BusLife(p)
  BY InvParts
<1>2. L2Type(p)' /\ l2'.reply = l2.reply /\ l2'.cohe = l2.cohe
  BY L2Kept
<1>3. BusLife(p)'
  BY <1>1, <1>2, BusLifeKept
<1>4. RestType(p)'
  BY <1>1, UnchangedRest
<1> QED BY <1>2, <1>3, <1>4, Level2Keeps

LEMMA HeadOfL2 ==
  ASSUME NEW p \in Programs, L2Type(p), l2.req # <<>>
  PROVE  /\ Head(l2.req) \in Requests(p) \cup WriteBacks /\ Tail(l2.req) \in Seq(Requests(p) \cup WriteBacks)
         /\ Head(l2.req).kind # "WBACK" => Head(l2.req) \in Requests(p)
         /\ Head(l2.req).kind = "WBACK" => Head(l2.req) \in WriteBacks
<1>1. l2.req \in Seq(Requests(p) \cup WriteBacks)
  BY DEF L2Type
<1>2. Head(l2.req) \in Requests(p) \cup WriteBacks /\ Tail(l2.req) \in Seq(Requests(p) \cup WriteBacks)
  BY <1>1
<1> QED BY <1>2, RequestKinds

\* The first request changes in its queue, and counts as before.
LEMMA HeadChangesL2 ==
  ASSUME NEW p \in Programs, L2Type(p), l2.req # <<>>, NEW s \in Requests(p), Head(l2.req) \in Requests(p),
         s.id = Head(l2.req).id, s.l1mshr = Head(l2.req).l1mshr, l2'.req = [l2.req EXCEPT ![1] = s]
  PROVE  /\ [l2.req EXCEPT ![1] = s] \in Seq(Requests(p) \cup WriteBacks)
         /\ \A i \in DOMAIN p, w \in BOOLEAN : AtL2(p, i, w)' = AtL2(p, i, w)
<1> DEFINE q == l2.req
           S == Requests(p) \cup WriteBacks
           t == [q EXCEPT ![1] = s]
<1>1. q \in Seq(S) /\ q # <<>> /\ s \in S
  BY DEF L2Type
<1>2. /\ 1 \in 1 .. Len(q) /\ Head(q) = q[1] /\ t \in Seq(S) /\ Len(t) = Len(q) /\ t[1] = s
      /\ \A k \in 1 .. Len(q) : k # 1 => t[k] = q[k]
  <2> HIDE DEF S
  <2> QED BY <1>1
<1>3. ASSUME NEW i \in DOMAIN p, NEW w \in BOOLEAN PROVE AtL2(p, i, w)' = AtL2(p, i, w)
  <2> DEFINE P == Holding(p, i, w)
  <2>1. s \in P <=> q[1] \in P
    BY <1>2, OneRequest
  <2>2. Count(t, P) = Count(q, P)
    <3> HIDE DEF P, t, q
    <3>1. \A k \in 1 .. Len(t) : t[k] \in P <=> q[k] \in P
      BY <1>2, <2>1
    <3> QED BY <1>2, <3>1, CountSame
  <2>3. AtL2(p, i, w) = Count(q, P) /\ AtL2(p, i, w)' = Count(t, P)
    BY DEF AtL2
  <2> QED BY <2>2, <2>3
<1> QED BY <1>2, <1>3

LEMMA HeadShared ==
  ASSUME NEW p \in Programs, L2Type(p), l2.req # <<>>, Head(l2.req) \in Requests(p), NEW h \in BOOLEAN
  PROVE  LET s == [Head(l2.req) EXCEPT !.progress = 1, !.sh = h]
         IN /\ Head2(1, h) = [l2.req EXCEPT ![1] = s]
            /\ s \in Requests(p) /\ s.id = Head(l2.req).id /\ s.l1mshr = Head(l2.req).l1mshr
<1> DEFINE q == l2.req
           r == Head(q)
           s == [r EXCEPT !.progress = 1, !.sh = h]
           S == Requests(p) \cup WriteBacks
<1>1. q \in Seq(S) /\ q # <<>>
  BY DEF L2Type
<1>2. r = q[1] /\ 1 \in DOMAIN q
  BY <1>1
<1>3. s \in Requests(p) /\ s.id = r.id /\ s.l1mshr = r.l1mshr
  <2>1. r \in Requests(p) /\ 1 \in 0 .. 1
    OBVIOUS
  <2> HIDE DEF r
  <2>2. s \in Requests(p)
    BY <2>1, RequestChanged
  <2>3. r = [id |-> r.id, kind |-> r.kind, line |-> r.line, cache |-> r.cache,
             progress |-> r.progress, l1mshr |-> r.l1mshr, sh |-> r.sh]
    BY <2>1, RequestShape
  <2>4. s.id = r.id /\ s.l1mshr = r.l1mshr
    BY <2>3
  <2> QED BY <2>2, <2>4
<1>4. Head2(1, h) = [q EXCEPT ![1] = s]
  <2>1. Head2(1, h) = [q EXCEPT ![1] = [[q[1] EXCEPT !.progress = 1] EXCEPT !.sh = h]]
    BY <1>1, <1>2 DEF Head2
  <2>2. s = [[q[1] EXCEPT !.progress = 1] EXCEPT !.sh = h]
    BY <1>2
  <2> QED BY <2>1, <2>2
<1> QED BY <1>3, <1>4

LEMMA WBack2Keeps ==
  ASSUME NEW p \in Programs, Inv(p), WBack2
  PROVE  Inv(p)'
<1>1. L1Type(p) /\ L2Type(p)
  BY InvParts
<1>2. /\ l2.req # <<>> /\ Head(l2.req).kind = "WBACK" /\ l1' = l1 /\ bus' = bus /\ done' = done
      /\ l2' = [l2 EXCEPT !.req = Tail(@), !.data = Append(@, Out)]
  BY DEF WBack2, Fresh
<1>3. /\ l2 = [req |-> l2.req, reply |-> l2.reply, cohe |-> l2.cohe, data |-> l2.data, ways |-> l2.ways,
               mshr |-> l2.mshr]
      /\ L2Fits(p, l2.req, l2.reply, l2.cohe, l2.data, l2.ways, l2.mshr)
  BY <1>1, L2Shape
<1>4. L2Becomes(Tail(l2.req), l2.reply, l2.cohe, Append(l2.data, Out), l2.ways, l2.mshr)
  BY <1>2, <1>3 DEF L2Becomes
<1>5. l2'.req = Tail(l2.req) /\ l2'.data = Append(l2.data, Out) /\ l2'.mshr = l2.mshr
  BY <1>4 DEF L2Becomes
<1>6. Head(l2.req) \in WriteBacks /\ Tail(l2.req) \in Seq(Requests(p) \cup WriteBacks)
  BY <1>1, <1>2, HeadOfL2
<1>7. Out \in DataItems(p)
  BY DataItemTypes
<1>8. /\ Append(l2.data, Out) \in Seq(DataItems(p))
      /\ \A i \in DOMAIN p, w \in BOOLEAN : InData(p, i, w)' = InData(p, i, w) + One(Out, Answers(p, i, w))
      /\ \A x \in Lines : Count(l2'.data, Fills(p, x)) = Count(l2.data, Fills(p, x)) + One(Out, Fills(p, x))
  BY <1>1, <1>5, <1>7, JoinsData
<1>9. L2Fits(p, Tail(l2.req), l2.reply, l2.cohe, Append(l2.data, Out), l2.ways, l2.mshr)
  BY <1>3, <1>6, <1>8 DEF L2Fits
<1>10. SameFills(p) /\ SameLives
  <2>1. \A x \in Lines : Count(l2.data, Fills(p, x)) \in Nat /\ One(Out, Fills(p, x)) = 0
    <3>1. l2.data \in Seq(DataItems(p))
      BY <1>3 DEF L2Fits
    <3> QED BY <3>1, CountType, DataItemTypes
  <2>2. SameFills(p)
    BY <1>8, <2>1 DEF SameFills
  <2> QED BY <1>5, <2>2 DEF SameLives
<1>11. SameInL2(p)
  <2> SUFFICES ASSUME NEW i \in DOMAIN p, NEW w \in BOOLEAN
               PROVE  AtL2(p, i, w)' + InL2(p, i, w)' + InData(p, i, w)' = AtL2(p, i, w) + InL2(p, i, w) + InData(p, i, w)
    BY DEF SameInL2
  <2>1. AtL2(p, i, w)' + One(Head(l2.req), Holding(p, i, w)) = AtL2(p, i, w)
    BY <1>1, <1>2, <1>5, HeadLeavesL2
  <2>2. One(Head(l2.req), Holding(p, i, w)) = 0 /\ One(Out, Answers(p, i, w)) = 0
    <3>1. Head(l2.req) \notin Holding(p, i, w)
      BY <1>6, OneRequest
    <3> QED BY <3>1, DataItemTypes DEF One
  <2>3. L2Type(p)'
    BY <1>4, <1>9, L2Kept
  <2>4. AtL2(p, i, w) \in Nat /\ InL2(p, i, w) \in Nat /\ InData(p, i, w) \in Nat /\ AtL2(p, i, w)' \in Nat
    <3>1. L1Type(p)'
      BY <1>1, <1>2, UnchangedL1
    <3> QED BY <1>1, <2>3, <3>1, NumbersNext DEF Numbers
  <2>5. InL2(p, i, w)' = InL2(p, i, w)
    BY <1>5, SameL2
  <2>6. AtL2(p, i, w)' = AtL2(p, i, w) /\ InData(p, i, w)' = InData(p, i, w)
    BY <1>8, <2>1, <2>2, <2>4
  <2> QED BY <2>5, <2>6
<1> QED BY <1>2, <1>4, <1>9, <1>10, <1>11, QuietBusKeeps

LEMMA StallWAR2Keeps ==
  ASSUME NEW p \in Programs, Inv(p), StallWAR2
  PROVE  Inv(p)'
<1> DEFINE x == Head(l2.req).line
           b == TRUE
           n == [l2.mshr[x] EXCEPT !.war = b]
           M == [l2.mshr EXCEPT ![x] = n]
<1>1. L1Type(p) /\ L2Type(p)
  BY InvParts
<1>2. /\ l2.req # <<>> /\ Access(Head(l2.req).kind) /\ l1' = l1 /\ bus' = bus /\ done' = done
      /\ l2' = [l2 EXCEPT !.mshr = M]
  BY DEF StallWAR2, Fresh
<1>3. /\ l2 = [req |-> l2.req, reply |-> l2.reply, cohe |-> l2.cohe, data |-> l2.data, ways |-> l2.ways,
               mshr |-> l2.mshr]
      /\ L2Fits(p, l2.req, l2.reply, l2.cohe, l2.data, l2.ways, l2.mshr)
  BY <1>1, L2Shape
<1>4. x \in Lines
  BY <1>1, <1>2, HeadOfL2, RequestType DEF Access
<1>5. b \in BOOLEAN
  OBVIOUS
<1> HIDE DEF x, b
<1>6. n \in MSHRs(OfLine(p, x), 1 .. Ways2) /\ Alike(n, l2.mshr[x]) /\ n.bus = l2.mshr[x].bus
  <2>1. l2.mshr[x] \in MSHRs(OfLine(p, x), 1 .. Ways2)
    BY <1>3, <1>4 DEF L2Fits
  <2> DEFINE m == l2.mshr[x]
             S == OfLine(p, x)
             ways == 1 .. Ways2
  <2>2. m \in MSHRs(S, ways) /\ n = [m EXCEPT !.war = b]
    BY <2>1
  <2> HIDE DEF m, S, ways, n
  <2>3. n \in MSHRs(S, ways) /\ Alike(n, m)
    BY <1>5, <2>2, MSHRChanged
  <2>4. n.bus = m.bus
    BY <2>2 DEF MSHRs
  <2> QED BY <2>3, <2>4 DEF m, S, ways
<1> HIDE DEF n
<1>7. /\ M = [y \in Lines |-> M[y]] /\ \A y \in Lines : M[y] \in MSHRs(OfLine(p, y), 1 .. Ways2)
      /\ M[x] = n /\ \A y \in Lines : y # x => M[y] = l2.mshr[y]
  BY <1>1, <1>4, <1>6, OneMSHR2
<1> HIDE DEF M
<1>8. L2Becomes(l2.req, l2.reply, l2.cohe, l2.data, l2.ways, M)
  BY <1>2, <1>3 DEF L2Becomes
<1>9. l2'.req = l2.req /\ l2'.data = l2.data /\ l2'.mshr = M
  BY <1>8 DEF L2Becomes
<1>10. L2Fits(p, l2.req, l2.reply, l2.cohe, l2.data, l2.ways, M)
  BY <1>3, <1>7 DEF L2Fits
<1>11. SameFills(p) /\ SameLives /\ \A y \in Lines : l2'.mshr[y].main = l2.mshr[y].main /\ l2'.mshr[y].coal = l2.mshr[y].coal
  BY <1>6, <1>7, <1>9 DEF SameFills, SameLives, Alike
<1>12. SameInL2(p)
  BY <1>9, <1>11, SameL2 DEF SameInL2
<1> QED BY <1>2, <1>8, <1>10, <1>11, <1>12, QuietBusKeeps

LEMMA Hit2Keeps ==
  ASSUME NEW p \in Programs, Inv(p), Hit2
  PROVE  Inv(p)'
<1> DEFINE r == Head(l2.req)
           v == WayOf(l2.ways, r.line)
           h == ~Private(l2.ways[v].state)
           t == Head2(1, h)
           W == [l2.ways EXCEPT ![v].state = IF r.kind # "READ" THEN "PR_DY" ELSE @]
           s == [r EXCEPT !.progress = 1, !.sh = h]
<1>1. L1Type(p) /\ L2Type(p)
  BY InvParts
<1>2. /\ l2.req # <<>> /\ Access(r.kind) /\ l1' = l1 /\ bus' = bus /\ done' = done
      /\ l2' = [l2 EXCEPT !.req = t, !.ways = W]
  BY DEF Hit2, Fresh
<1>3. /\ l2 = [req |-> l2.req, reply |-> l2.reply, cohe |-> l2.cohe, data |-> l2.data, ways |-> l2.ways,
               mshr |-> l2.mshr]
      /\ L2Fits(p, l2.req, l2.reply, l2.cohe, l2.data, l2.ways, l2.mshr)
  BY <1>1, L2Shape
<1>4. r \in Requests(p)
  BY <1>1, <1>2, HeadOfL2 DEF Access
<1>5. h \in BOOLEAN
  BY DEF Private
<1>6. W \in [1 .. Ways2 -> Tags]
  <2>1. l2.ways \in [1 .. Ways2 -> Tags]
    BY <1>3 DEF L2Fits
  <2>2. v \in 1 .. Ways2
    BY <2>1, WaysType, HierarchyAssumption
  <2> HIDE DEF v, r
  <2> QED BY <2>1, <2>2 DEF Tags
<1> HIDE DEF W, h
<1>7. t = [l2.req EXCEPT ![1] = s] /\ s \in Requests(p) /\ s.id = Head(l2.req).id /\ s.l1mshr = Head(l2.req).l1mshr
  BY <1>1, <1>2, <1>4, <1>5, HeadShared
<1> HIDE DEF t, s
<1>8. L2Becomes(t, l2.reply, l2.cohe, l2.data, W, l2.mshr)
  BY <1>2, <1>3 DEF L2Becomes
<1>9. l2'.req = t /\ l2'.data = l2.data /\ l2'.mshr = l2.mshr
  BY <1>8 DEF L2Becomes
<1>10. /\ t \in Seq(Requests(p) \cup WriteBacks)
       /\ \A i \in DOMAIN p, w \in BOOLEAN : AtL2(p, i, w)' = AtL2(p, i, w)
  BY <1>1, <1>2, <1>4, <1>7, <1>9, HeadChangesL2
<1>11. L2Fits(p, t, l2.reply, l2.cohe, l2.data, W, l2.mshr)
  BY <1>3, <1>6, <1>10 DEF L2Fits
<1>12. SameFills(p) /\ SameLives
  BY <1>9 DEF SameFills, SameLives
<1>13. SameInL2(p)
  BY <1>9, <1>10, SameL2 DEF SameInL2
<1> QED BY <1>2, <1>8, <1>11, <1>12, <1>13, QuietBusKeeps

LEMMA Send2Keeps ==
  ASSUME NEW p \in Programs, Inv(p), Send2
  PROVE  Inv(p)'
<1> DEFINE r == Head(l2.req)
           d == [kind |-> "REPLY", r |-> r]
<1>1. L1Type(p) /\ L2Type(p)
  BY InvParts
<1>2. /\ l2.req # <<>> /\ l1' = l1 /\ bus' = bus /\ done' = done /\ r.progress = 1
      /\ l2' = [l2 EXCEPT !.req = Tail(@), !.data = Append(@, d)]
  BY DEF Send2
<1>3. /\ l2 = [req |-> l2.req, reply |-> l2.reply, cohe |-> l2.cohe, data |-> l2.data, ways |-> l2.ways,
               mshr |-> l2.mshr]
      /\ L2Fits(p, l2.req, l2.reply, l2.cohe, l2.data, l2.ways, l2.mshr)
  BY <1>1, L2Shape
<1>4. L2Becomes(Tail(l2.req), l2.reply, l2.cohe, Append(l2.data, d), l2.ways, l2.mshr)
  BY <1>2, <1>3 DEF L2Becomes
<1>5. l2'.req = Tail(l2.req) /\ l2'.data = Append(l2.data, d) /\ l2'.mshr = l2.mshr
  BY <1>4 DEF L2Becomes
<1>6. r \in Requests(p) /\ Tail(l2.req) \in Seq(Requests(p) \cup WriteBacks)
  <2>1. r \in Requests(p) \cup WriteBacks /\ Tail(l2.req) \in Seq(Requests(p) \cup WriteBacks)
    BY <1>1, <1>2, HeadOfL2
  <2>2. r \notin WriteBacks
    BY <1>2 DEF WriteBacks
  <2> QED BY <2>1, <2>2
<1>7. /\ d \in DataItems(p) /\ \A i \in DOMAIN p, w \in BOOLEAN : One(d, Answers(p, i, w)) = One(r, Holding(p, i, w))
      /\ \A x \in Lines : One(d, Fills(p, x)) = 0
  BY <1>6, DataItemTypes
<1> HIDE DEF d
<1>8. /\ Append(l2.data, d) \in Seq(DataItems(p))
      /\ \A i \in DOMAIN p, w \in BOOLEAN : InData(p, i, w)' = InData(p, i, w) + One(d, Answers(p, i, w))
      /\ \A x \in Lines : Count(l2'.data, Fills(p, x)) = Count(l2.data, Fills(p, x)) + One(d, Fills(p, x))
  BY <1>1, <1>5, <1>7, JoinsData
<1>9. L2Fits(p, Tail(l2.req), l2.reply, l2.cohe, Append(l2.data, d), l2.ways, l2.mshr)
  BY <1>3, <1>6, <1>8 DEF L2Fits
<1>10. SameFills(p) /\ SameLives
  <2>1. \A x \in Lines : Count(l2.data, Fills(p, x)) \in Nat
    <3>1. l2.data \in Seq(DataItems(p))
      BY <1>3 DEF L2Fits
    <3> QED BY <3>1, CountType
  <2>2. SameFills(p)
    BY <1>7, <1>8, <2>1 DEF SameFills
  <2> QED BY <1>5, <2>2 DEF SameLives
<1>11. SameInL2(p)
  <2> SUFFICES ASSUME NEW i \in DOMAIN p, NEW w \in BOOLEAN
               PROVE  AtL2(p, i, w)' + InL2(p, i, w)' + InData(p, i, w)' = AtL2(p, i, w) + InL2(p, i, w) + InData(p, i, w)
    BY DEF SameInL2
  <2> DEFINE a == AtL2(p, i, w)'
             b == InData(p, i, w)'
             o == One(r, Holding(p, i, w))
             e == InData(p, i, w)
             f == InL2(p, i, w)
  <2>1. a + o = AtL2(p, i, w)
    BY <1>1, <1>2, <1>5, HeadLeavesL2
  <2>2. b = e + o
    BY <1>7, <1>8
  <2>3. a \in Nat /\ e \in Nat /\ f \in Nat /\ o \in Nat
    <3>1. L2Type(p)'
      BY <1>4, <1>9, L2Kept
    <3>2. L1Type(p)'
      BY <1>1, <1>2, UnchangedL1
    <3> QED BY <1>1, <3>1, <3>2, NumbersNext, OneType DEF Numbers
  <2>4. InL2(p, i, w)' = f
    BY <1>5, SameL2
  <2> HIDE DEF a, b, o, e, f
  <2>5. a + f + b = a + o + f + e
    BY <2>2, <2>3
  <2> QED BY <2>1, <2>4, <2>5 DEF a, b, o, e, f
<1> QED BY <1>2, <1>4, <1>9, <1>10, <1>11, QuietBusKeeps

\* The first request moves on into an MSHR.
LEMMA HeadMovesInL2 ==
  ASSUME NEW p \in Programs, L1Type(p), L2Type(p), l1' = l1, L2Type(p)', l2.req # <<>>, l2'.req = Tail(l2.req),
         l2'.data = l2.data,
         \A i \in DOMAIN p, w \in BOOLEAN : InL2(p, i, w)' = InL2(p, i, w) + One(Head(l2.req), Holding(p, i, w))
  PROVE  SameInL2(p)
<1> SUFFICES ASSUME NEW i \in DOMAIN p, NEW w \in BOOLEAN
             PROVE  AtL2(p, i, w)' + InL2(p, i, w)' + InData(p, i, w)' = AtL2(p, i, w) + InL2(p, i, w) + InData(p, i, w)
  BY DEF SameInL2
<1> DEFINE a == AtL2(p, i, w)'
           o == One(Head(l2.req), Holding(p, i, w))
           e == InData(p, i, w)
           f == InL2(p, i, w)
<1>1. a + o = AtL2(p, i, w)
  BY HeadLeavesL2
<1>2. InL2(p, i, w)' = f + o
  OBVIOUS
<1>3. a \in Nat /\ e \in Nat /\ f \in Nat /\ o \in Nat
  <2>1. L1Type(p)'
    BY UnchangedL1
  <2> QED BY <2>1, NumbersNext, OneType DEF Numbers
<1>4. InData(p, i, w)' = e
  BY SameL2
<1> HIDE DEF a, o, e, f
<1>5. a + (f + o) + e = (a + o) + f + e
  BY <1>3
<1> QED BY <1>1, <1>2, <1>4, <1>5 DEF a, o, e, f

LEMMA New2Keeps ==
  ASSUME NEW p \in Programs, Inv(p), New2
  PROVE  Inv(p)'
<1> DEFINE r == Head(l2.req)
           miss == Miss(l2.ways, r.line)
           v == WayOf(l2.ways, r.line)
           lock == miss = 0
           writes == r.kind # "READ"
           n == [NoMSHR EXCEPT !.valid = TRUE, !.main = r, !.miss = miss, !.way = v, !.lock = lock, !.writes = writes]
           M == [l2.mshr EXCEPT ![r.line] = n]
<1>1. L1Type(p) /\ L2Type(p) /\ BusLife(p)
  BY InvParts
<1>2. /\ l2.req # <<>> /\ l1' = l1 /\ bus' = bus /\ done' = done /\ Access(r.kind) /\ ~l2.mshr[r.line].valid
      /\ l2' = [l2 EXCEPT !.req = Tail(@), !.mshr = M]
  BY DEF New2, Fresh
<1>3. /\ l2 = [req |-> l2.req, reply |-> l2.reply, cohe |-> l2.cohe, data |-> l2.data, ways |-> l2.ways,
               mshr |-> l2.mshr]
      /\ L2Fits(p, l2.req, l2.reply, l2.cohe, l2.data, l2.ways, l2.mshr)
  BY <1>1, L2Shape
<1>4. r \in Requests(p) /\ Tail(l2.req) \in Seq(Requests(p) \cup WriteBacks)
  BY <1>1, <1>2, HeadOfL2 DEF Access
<1>5. r.line \in Lines /\ r \in OfLine(p, r.line) /\ r # NoRequest
  BY <1>4, RequestType DEF OfLine
<1> HIDE DEF r
<1>6. n \in MSHRs(OfLine(p, r.line), 1 .. Ways2) /\ n.main = r /\ n.valid /\ n.coal = <<>> /\ n.bus = "none"
  <2>1. l2.ways \in [1 .. Ways2 -> Tags]
    BY <1>3 DEF L2Fits
  <2>2. miss \in 0 .. 2 /\ v \in 1 .. Ways2 /\ lock \in BOOLEAN /\ writes \in BOOLEAN
    BY <2>1, WaysType, HierarchyAssumption
  <2>3. Taken2(n, r, miss, v, lock, writes)
    BY DEF Taken2
  <2> DEFINE S == OfLine(p, r.line)
             ways == 1 .. Ways2
  <2>4. r \in S /\ v \in ways
    BY <1>5, <2>2
  <2> HIDE DEF n, miss, v, lock, writes, S, ways
  <2>5. n \in MSHRs(S, ways) /\ n.main = r /\ n.valid /\ n.coal = <<>> /\ n.bus = "none"
    <3>1. PICK k \in BOOLEAN, o \in BOOLEAN : Taken2(n, r, miss, v, k, o)
      BY <2>2, <2>3
    <3> QED BY <1>5, <2>2, <2>4, <3>1, MSHRNew2
  <2> QED BY <2>5 DEF S, ways
<1> HIDE DEF n
<1>7. /\ M = [y \in Lines |-> M[y]] /\ \A y \in Lines : M[y] \in MSHRs(OfLine(p, y), 1 .. Ways2)
      /\ M[r.line] = n /\ \A y \in Lines : y # r.line => M[y] = l2.mshr[y]
  BY <1>1, <1>5, <1>6, OneMSHR2
<1> HIDE DEF M
<1>8. L2Becomes(Tail(l2.req), l2.reply, l2.cohe, l2.data, l2.ways, M)
  BY <1>2, <1>3 DEF L2Becomes
<1>9. l2'.req = Tail(l2.req) /\ l2'.data = l2.data /\ l2'.mshr = M
  BY <1>8 DEF L2Becomes
<1>10. L2Fits(p, Tail(l2.req), l2.reply, l2.cohe, l2.data, l2.ways, M)
  BY <1>3, <1>4, <1>7 DEF L2Fits
<1>11. SameFills(p) /\ SameLives
  <2>1. \A y \in Lines : l2.mshr[y].bus # "none" => l2.mshr[y].valid
    BY <1>1 DEF BusLife
  <2> QED BY <1>2, <1>5, <1>6, <1>7, <1>9, <2>1 DEF SameFills, SameLives
<1>12. \A i \in DOMAIN p, w \in BOOLEAN : InL2(p, i, w)' = InL2(p, i, w) + One(r, Holding(p, i, w))
  <2>1. OtherMSHRs2(r.line)
    BY <1>7, <1>9 DEF OtherMSHRs2
  <2>2. l2'.mshr[r.line].main = r /\ l2'.mshr[r.line].coal = <<>>
    BY <1>6, <1>7, <1>9
  <2> QED BY <1>1, <1>2, <1>4, <2>1, <2>2, NewInL2
<1>13. L2Type(p)'
  BY <1>8, <1>10, L2Kept
<1>14. SameInL2(p)
  BY <1>1, <1>2, <1>9, <1>12, <1>13, HeadMovesInL2 DEF r
<1> QED BY <1>2, <1>8, <1>10, <1>11, <1>14, QuietBusKeeps

LEMMA Coalesce2Keeps ==
  ASSUME NEW p \in Programs, Inv(p), Coalesce2
  PROVE  Inv(p)'
<1> DEFINE r == Head(l2.req)
           more == Append(l2.mshr[r.line].coal, r)
           g == FALSE
           n == [l2.mshr[r.line] EXCEPT !.coal = more, !.writes = g]
           M == [l2.mshr EXCEPT ![r.line] = n]
<1>1. L1Type(p) /\ L2Type(p)
  BY InvParts
<1>2. /\ l2.req # <<>> /\ l1' = l1 /\ bus' = bus /\ done' = done /\ Access(r.kind) /\ l2.mshr[r.line].valid
      /\ l2' = [l2 EXCEPT !.req = Tail(@), !.mshr[r.line].coal = Append(@, r), !.mshr[r.line].writes = FALSE]
  BY Zenon DEF Coalesce2, Fresh, Joins, JoinsPurged
<1>3. /\ l2 = [req |-> l2.req, reply |-> l2.reply, cohe |-> l2.cohe, data |-> l2.data, ways |-> l2.ways,
               mshr |-> l2.mshr]
      /\ L2Fits(p, l2.req, l2.reply, l2.cohe, l2.data, l2.ways, l2.mshr)
  BY <1>1, L2Shape
<1>4. r \in Requests(p) /\ Tail(l2.req) \in Seq(Requests(p) \cup WriteBacks)
  BY <1>1, <1>2, HeadOfL2 DEF Access
<1>5. r.line \in Lines /\ r \in OfLine(p, r.line)
  BY <1>4, RequestType DEF OfLine
<1> HIDE DEF r
<1>6. L2Becomes(Tail(l2.req), l2.reply, l2.cohe, l2.data, l2.ways, M)
  <2>1. l2.mshr = [y \in Lines |-> l2.mshr[y]]
    BY <1>3 DEF L2Fits
  <2>2. l2'.mshr = M /\ l2'.req = Tail(l2.req)
    BY <1>2, <1>3, <1>5, <2>1
  <2> QED BY <1>2, <1>3, <2>2 DEF L2Becomes
<1>7. n \in MSHRs(OfLine(p, r.line), 1 .. Ways2) /\ n.main = l2.mshr[r.line].main /\ n.valid
      /\ n.bus = l2.mshr[r.line].bus /\ n.coal = Append(l2.mshr[r.line].coal, r)
  <2> DEFINE m == l2.mshr[r.line]
             u == [m EXCEPT !.coal = Append(m.coal, r)]
             S == OfLine(p, r.line)
             ways == 1 .. Ways2
  <2>1. m \in MSHRs(S, ways) /\ m.valid /\ r \in S
    BY <1>2, <1>3, <1>5 DEF L2Fits
  <2>2. Joined(u, m, r)
    BY DEF Joined
  <2>3. n = [u EXCEPT !.writes = g] /\ g \in BOOLEAN
    OBVIOUS
  <2> HIDE DEF m, u, S, ways, g, n
  <2>4. u \in MSHRs(S, ways) /\ u.main = m.main /\ u.valid /\ u.bus = m.bus /\ u.coal = Append(m.coal, r)
    BY <2>1, <2>2, MSHRJoined
  <2>5. n \in MSHRs(S, ways) /\ Alike(n, u) /\ n.bus = u.bus
    BY <2>3, <2>4, MSHRWrites
  <2>6. n.main = m.main /\ n.valid /\ n.bus = m.bus /\ n.coal = Append(m.coal, r)
    <3>1. n.valid = u.valid
      BY <2>5 DEF Alike
    <3> QED BY <2>4, <2>5, <3>1 DEF Alike
  <2> QED BY <2>5, <2>6 DEF m, S, ways
<1> HIDE DEF n
<1>8. /\ M = [y \in Lines |-> M[y]] /\ \A y \in Lines : M[y] \in MSHRs(OfLine(p, y), 1 .. Ways2)
      /\ M[r.line] = n /\ \A y \in Lines : y # r.line => M[y] = l2.mshr[y]
  BY <1>1, <1>5, <1>7, OneMSHR2
<1> HIDE DEF M
<1>9. l2'.req = Tail(l2.req) /\ l2'.data = l2.data /\ l2'.mshr = M
  BY <1>6 DEF L2Becomes
<1>10. L2Fits(p, Tail(l2.req), l2.reply, l2.cohe, l2.data, l2.ways, M)
  BY <1>3, <1>4, <1>8 DEF L2Fits
<1>11. SameFills(p) /\ SameLives
  BY Zenon, <1>5, <1>7, <1>8, <1>9 DEF SameFills, SameLives
<1>12. \A i \in DOMAIN p, w \in BOOLEAN : InL2(p, i, w)' = InL2(p, i, w) + One(r, Holding(p, i, w))
  <2>1. OtherMSHRs2(r.line)
    BY <1>8, <1>9 DEF OtherMSHRs2
  <2>2. l2'.mshr[r.line].main = l2.mshr[r.line].main /\ l2'.mshr[r.line].coal = Append(l2.mshr[r.line].coal, r)
    BY Zenon, <1>7, <1>8, <1>9
  <2> QED BY Zenon, <1>1, <1>4, <2>1, <2>2, JoinsInL2
<1>13. L2Type(p)'
  BY <1>6, <1>10, L2Kept
<1>14. SameInL2(p)
  BY Zenon, <1>1, <1>2, <1>9, <1>12, <1>13, HeadMovesInL2 DEF r
<1> QED BY <1>2, <1>6, <1>10, <1>11, <1>14, QuietBusKeeps


-----------------------------------------------------------------------------
\* A step of the second level that the first level sees, at most, as an invalidation.
Quiet1(p) == L1Type(p)' /\ SameAtL1(p) /\ SameReplies(p) /\ SameFlushes(p) /\ SameMSHRs

LEMMA Level2MovesKeep ==
  ASSUME NEW p \in Programs, Inv(p), Quiet1(p), done' = done, L2Type(p)', RestType(p)', BusLife(p)', SameInL2(p)
  PROVE  Inv(p)'
<1>1. L1Type(p) /\ L2Type(p)
  BY InvParts
<1>2. /\ L1Type(p)' /\ \A i \in DOMAIN p, w \in BOOLEAN : AtL1(p, i, w)' = AtL1(p, i, w)
      /\ SameReplies(p) /\ SameFlushes(p) /\ SameMSHRs
  BY DEF Quiet1, SameAtL1
<1>3. Numbers(p) /\ Numbers(p)'
  BY <1>1, <1>2, NumbersNext
<1>4. SameBelow(p)
  <2> SUFFICES ASSUME NEW i \in DOMAIN p, NEW w \in BOOLEAN PROVE Below(p, i, w)' = Below(p, i, w)
    BY DEF SameBelow
  <2> DEFINE a == AtL1(p, i, w)
             b == AtL2(p, i, w)
             d == InL2(p, i, w)
             e == InData(p, i, w)
             bb == AtL2(p, i, w)'
             dd == InL2(p, i, w)'
             ee == InData(p, i, w)'
  <2>1. /\ a \in Nat /\ b \in Nat /\ d \in Nat /\ e \in Nat /\ bb \in Nat /\ dd \in Nat /\ ee \in Nat
        /\ bb + dd + ee = b + d + e
    BY <1>3 DEF Numbers, SameInL2
  <2>2. Below(p, i, w) = a + b + d + e /\ Below(p, i, w)' = a + bb + dd + ee
    BY <1>2 DEF Below
  <2> HIDE DEF a, b, d, e, bb, dd, ee
  <2> QED BY <2>1, <2>2
<1> QED BY <1>2, <1>4, BelowKeeps

LEMMA Quiet1Same ==
  ASSUME NEW p \in Programs, L1Type(p), l1' = l1
  PROVE  Quiet1(p)
<1>1. /\ L1Type(p)' /\ \A i \in DOMAIN p, w \in BOOLEAN : AtL1(p, i, w)' = AtL1(p, i, w)
      /\ SameReplies(p) /\ SameFlushes(p)
  BY UnchangedL1 DEF SameReplies, SameFlushes
<1> QED BY <1>1 DEF Quiet1, SameAtL1, SameMSHRs, SameMains

\* A message that carries no flush counts for nothing.
Plain(p, e) == e \in Messages(p) /\ e.kind = "COHE" /\ e.flush = NoRequest

LEMMA PlainType ==
  ASSUME NEW p \in Programs, NEW e, Plain(p, e)
  PROVE  /\ \A i \in DOMAIN p : One(e, FlushesOf(p, i)) = 0
         /\ \A x : One(e, RepliesOf(p, x)) = 0
<1>1. e.flush.id = 0 /\ e.kind = "COHE"
  BY DEF Plain, NoRequest
<1>2. \A i \in DOMAIN p : e \notin FlushesOf(p, i)
  BY <1>1, ProgramType DEF FlushesOf
<1>3. \A x : e \notin RepliesOf(p, x)
  BY <1>1 DEF RepliesOf
<1> QED BY <1>2, <1>3 DEF One

LEMMA Told ==
  ASSUME NEW p \in Programs, L1Type(p), NEW d \in Messages(p), NEW e \in Messages(p), l1' = ToBoth(d, e)
  PROVE  /\ L1Type(p)' /\ SameAtL1(p) /\ SameMSHRs
         /\ l1'["D"].down = Append(l1["D"].down, d) /\ l1'["I"].down = Append(l1["I"].down, e)
<1> DEFINE D == [c \in Caches |-> IF c = "D" THEN Append(l1["D"].down, d) ELSE Append(l1["I"].down, e)]
<1>1. \A c \in Caches : c = "D" \/ c = "I"
  BY DEF Caches
<1>2. "D" \in Caches /\ "I" \in Caches
  BY DEF Caches
<1>3. Append(l1["D"].down, d) \in Seq(Messages(p)) /\ Append(l1["I"].down, e) \in Seq(Messages(p))
  BY <1>2, JoinsDown
<1>4. \A c \in Caches : D[c] \in Seq(Messages(p))
  BY <1>1, <1>3
<1>5. DownBecomes(D)
  <2>1. ASSUME NEW c \in Caches
        PROVE  l1'[c] = [req |-> l1[c].req, down |-> D[c], ways |-> l1[c].ways, mshr |-> l1[c].mshr]
    <3>1. l1[c] = [req |-> l1[c].req, down |-> l1[c].down, ways |-> l1[c].ways, mshr |-> l1[c].mshr]
      BY L1Shape
    <3>2. CASE c = "D"
      <4>1. l1'[c] = [l1[c] EXCEPT !.down = Append(l1["D"].down, d)]
        BY <3>2 DEF ToBoth, Tell
      <4> QED BY <3>1, <3>2, <4>1
    <3>3. CASE c = "I"
      <4>1. l1'[c] = [l1[c] EXCEPT !.down = Append(l1["I"].down, e)]
        BY <3>3 DEF ToBoth, Tell
      <4> QED BY <3>1, <3>3, <4>1
    <3> QED BY <1>1, <3>2, <3>3
  <2>2. l1' = [c \in Caches |-> l1'[c]]
    BY DEF ToBoth
  <2> HIDE DEF D
  <2> QED BY <2>1, <2>2 DEF DownBecomes
<1>6. D["D"] = Append(l1["D"].down, d) /\ D["I"] = Append(l1["I"].down, e)
  BY <1>2
<1> HIDE DEF D
<1>7. /\ L1Type(p)'
      /\ \A c \in Caches : /\ l1'[c].req = l1[c].req /\ l1'[c].down = D[c]
                           /\ l1'[c].ways = l1[c].ways /\ l1'[c].mshr = l1[c].mshr
  BY <1>4, <1>5, DownKept
<1>8. SameAtL1(p) /\ SameMSHRs
  BY <1>7, SameL1 DEF SameAtL1, SameMSHRs, SameMains
<1> QED BY <1>2, <1>6, <1>7, <1>8

LEMMA Quiet1Told ==
  ASSUME NEW p \in Programs, L1Type(p), NEW d, NEW e, Plain(p, d), Plain(p, e), l1' = ToBoth(d, e)
  PROVE  Quiet1(p)
<1>1. d \in Messages(p) /\ e \in Messages(p)
  BY DEF Plain
<1>2. /\ L1Type(p)' /\ SameAtL1(p) /\ SameMSHRs
      /\ l1'["D"].down = Append(l1["D"].down, d) /\ l1'["I"].down = Append(l1["I"].down, e)
  BY <1>1, Told
<1>3. "D" \in Caches /\ "I" \in Caches /\ \A c \in Caches : c = "D" \/ c = "I"
  BY DEF Caches
<1>4. \A c \in Caches : l1[c].down \in Seq(Messages(p))
  BY DEF L1Type
<1>5. SameFlushes(p)
  <2> SUFFICES ASSUME NEW i \in DOMAIN p PROVE InFlush(p, i)' = InFlush(p, i)
    BY DEF SameFlushes
  <2>1. Count(Append(l1["D"].down, d), FlushesOf(p, i)) = Count(l1["D"].down, FlushesOf(p, i)) + One(d, FlushesOf(p, i))
    BY <1>1, <1>3, JoinsDown
  <2>2. Count(l1["D"].down, FlushesOf(p, i)) \in Nat /\ One(d, FlushesOf(p, i)) = 0
    BY <1>3, <1>4, CountType, PlainType
  <2> QED BY <1>2, <2>1, <2>2 DEF InFlush
<1>6. SameReplies(p)
  <2> SUFFICES ASSUME NEW c \in Caches, NEW x \in Lines PROVE ReplyCount(p, c, x)' = ReplyCount(p, c, x)
    BY DEF SameReplies
  <2> DEFINE P == RepliesOf(p, x)
  <2>1. PICK f \in Messages(p) : l1'[c].down = Append(l1[c].down, f) /\ One(f, P) = 0
    BY <1>1, <1>2, <1>3, PlainType
  <2>2. Count(Append(l1[c].down, f), P) = Count(l1[c].down, P) + One(f, P)
    BY <2>1, JoinsDown
  <2>3. Count(l1[c].down, P) \in Nat
    BY <1>4, CountType
  <2>4. ReplyCount(p, c, x) = Count(l1[c].down, P) /\ ReplyCount(p, c, x)' = Count(Append(l1[c].down, f), P)
    BY <2>1 DEF ReplyCount
  <2> QED BY <2>1, <2>2, <2>3, <2>4
<1> QED BY <1>2, <1>5, <1>6 DEF Quiet1

\* The bus changes, the accesses do not.
LEMMA BusChanged ==
  ASSUME NEW p \in Programs, RestType(p), done' = done,
         bus' \in [remote : [Lines -> {"none", "shared", "owned"}], snoops : Nat, asked : SUBSET Lines]
  PROVE  RestType(p)'
BY DEF RestType

LEMMA OnBus ==
  ASSUME NEW p \in Programs, L2Type(p), NEW x \in Lines
  PROVE  /\ \A s \in Snoops : One(s, OwnSnoops(x)) = IF s.line = x /\ s.kind = "own" THEN 1 ELSE 0
         /\ \A r \in Replies : One(r, BusReplies(x)) = IF r.line = x THEN 1 ELSE 0
         /\ Count(l2.cohe, OwnSnoops(x)) \in Nat /\ Count(l2.reply, BusReplies(x)) \in Nat
         /\ Count(l2.data, Fills(p, x)) \in Nat
<1>1. l2.cohe \in Seq(Snoops) /\ l2.reply \in Seq(Replies) /\ l2.data \in Seq(DataItems(p))
  BY DEF L2Type
<1>2. Count(l2.cohe, OwnSnoops(x)) \in Nat
  BY <1>1, CountType
<1>3. Count(l2.reply, BusReplies(x)) \in Nat
  BY <1>1, CountType
<1>4. Count(l2.data, Fills(p, x)) \in Nat
  BY <1>1, CountType
<1>5. \A s \in Snoops : s \in OwnSnoops(x) <=> s.line = x /\ s.kind = "own"
  BY DEF OwnSnoops
<1>6. \A r \in Replies : r \in BusReplies(x) <=> r.line = x
  BY DEF BusReplies
<1> QED BY <1>2, <1>3, <1>4, <1>5, <1>6 DEF One

\* The life of one MSHR of the second level, and of the others.
Loads(p, y) == Count(l2.reply, BusReplies(y)) + Count(l2.data, Fills(p, y))
LineLife(p, y) ==
  /\ Count(l2.cohe, OwnSnoops(y)) = IF l2.mshr[y].bus = "snooped" THEN 1 ELSE 0
  /\ Loads(p, y) = IF l2.mshr[y].bus = "replied" THEN 1 ELSE 0
  /\ l2.mshr[y].bus # "none" => l2.mshr[y].valid
OtherLives(p, x) ==
  \A y \in Lines : y # x =>
    /\ Count(l2'.cohe, OwnSnoops(y)) = Count(l2.cohe, OwnSnoops(y)) /\ Loads(p, y)' = Loads(p, y)
    /\ l2'.mshr[y].bus = l2.mshr[y].bus /\ (l2.mshr[y].valid => l2'.mshr[y].valid)

LEMMA LifeOfLines ==
  ASSUME NEW p \in Programs, BusLife(p)
  PROVE  /\ \A y \in Lines : LineLife(p, y)
         /\ \A x \in Lines : LineLife(p, x)' /\ OtherLives(p, x) => BusLife(p)'
<1>1. \A y \in Lines : LineLife(p, y)
  BY DEF LineLife, Loads, BusLife
<1>2. ASSUME NEW x \in Lines, LineLife(p, x)', OtherLives(p, x) PROVE BusLife(p)'
  <2>1. ASSUME NEW y \in Lines PROVE LineLife(p, y)'
    <3>1. CASE y = x
      BY <1>2, <3>1
    <3>2. CASE y # x
      <4>1. LineLife(p, y)
        BY <1>1
      <4> QED BY <1>2, <3>2, <4>1 DEF LineLife, OtherLives
    <3> QED BY <3>1, <3>2
  <2> QED BY <2>1 DEF BusLife, LineLife, Loads
<1> QED BY <1>1, <1>2

LEMMA BusIssueKeeps ==
  ASSUME NEW p \in Programs, Inv(p), NEW x \in Lines, BusIssue(x)
  PROVE  Inv(p)'
<1> DEFINE s == [line |-> x, kind |-> "own"]
           b == "snooped"
           n == [l2.mshr[x] EXCEPT !.bus = b]
           M == [l2.mshr EXCEPT ![x] = n]
           h == Append(l2.cohe, s)
<1>1. L1Type(p) /\ L2Type(p) /\ BusLife(p) /\ RestType(p)
  BY InvParts
<1>2. /\ l1' = l1 /\ bus' = bus /\ done' = done /\ l2.mshr[x].valid /\ l2.mshr[x].bus = "none"
      /\ l2' = [l2 EXCEPT !.mshr = M, !.cohe = h]
  BY DEF BusIssue
<1>3. /\ l2 = [req |-> l2.req, reply |-> l2.reply, cohe |-> l2.cohe, data |-> l2.data, ways |-> l2.ways,
               mshr |-> l2.mshr]
      /\ L2Fits(p, l2.req, l2.reply, l2.cohe, l2.data, l2.ways, l2.mshr)
  BY <1>1, L2Shape
<1>4. s \in Snoops /\ s.line = x /\ s.kind = "own"
  BY DEF Snoops
<1> HIDE DEF s
<1>5. n \in MSHRs(OfLine(p, x), 1 .. Ways2) /\ Alike(n, l2.mshr[x]) /\ n.bus = "snooped"
  <2> DEFINE m == l2.mshr[x]
             S == OfLine(p, x)
             ways == 1 .. Ways2
  <2>1. m \in MSHRs(S, ways) /\ b \in {"none", "snooped", "issued", "replied"} /\ Moved(n, m, b)
    BY <1>3 DEF L2Fits, Moved
  <2> HIDE DEF m, S, ways, n, b
  <2>2. n \in MSHRs(S, ways) /\ Alike(n, m) /\ n.bus = b
    BY <2>1, MSHROnBus
  <2> QED BY <2>2 DEF m, S, ways, b
<1> HIDE DEF n
<1>6. /\ M = [y \in Lines |-> M[y]] /\ \A y \in Lines : M[y] \in MSHRs(OfLine(p, y), 1 .. Ways2)
      /\ M[x] = n /\ \A y \in Lines : y # x => M[y] = l2.mshr[y]
  BY <1>1, <1>5, OneMSHR2
<1> HIDE DEF M
<1>7. L2Becomes(l2.req, l2.reply, h, l2.data, l2.ways, M)
  BY <1>2, <1>3 DEF L2Becomes
<1>8. l2'.req = l2.req /\ l2'.data = l2.data /\ l2'.mshr = M /\ l2'.cohe = h /\ l2'.reply = l2.reply
  BY <1>7 DEF L2Becomes
<1>9. h \in Seq(Snoops) /\ \A y \in Lines : Count(h, OwnSnoops(y)) = Count(l2.cohe, OwnSnoops(y)) + One(s, OwnSnoops(y))
  <2>1. l2.cohe \in Seq(Snoops)
    BY <1>3 DEF L2Fits
  <2> QED BY <1>4, <2>1, CountAppend
<1>10. L2Fits(p, l2.req, l2.reply, h, l2.data, l2.ways, M)
  BY <1>3, <1>6, <1>9 DEF L2Fits
<1>11. L2Type(p)'
  BY <1>7, <1>10, L2Kept
<1>12. LineLife(p, x)' /\ OtherLives(p, x)
  <2>1. \A y \in Lines : Count(l2.cohe, OwnSnoops(y)) \in Nat /\ One(s, OwnSnoops(y)) = IF x = y THEN 1 ELSE 0
    BY <1>1, <1>4, OnBus
  <2>2. LineLife(p, x)
    BY <1>1, LifeOfLines
  <2>3. OtherLives(p, x)
    BY <1>6, <1>8, <1>9, <2>1 DEF OtherLives, Loads
  <2>4. LineLife(p, x)'
    <3>1. Count(l2'.cohe, OwnSnoops(x)) = 1
      BY <1>2, <1>8, <1>9, <2>1, <2>2 DEF LineLife
    <3>2. Loads(p, x)' = 0
      BY <1>2, <1>8, <2>2 DEF LineLife, Loads
    <3>3. l2'.mshr[x].bus = "snooped" /\ l2'.mshr[x].valid
      BY <1>2, <1>5, <1>6, <1>8 DEF Alike
    <3> QED BY <3>1, <3>2, <3>3 DEF LineLife
  <2> QED BY <2>3, <2>4
<1>13. BusLife(p)'
  BY <1>1, <1>12, LifeOfLines
<1>14. SameInL2(p)
  <2>1. \A y \in Lines : l2'.mshr[y].main = l2.mshr[y].main /\ l2'.mshr[y].coal = l2.mshr[y].coal
    BY <1>5, <1>6, <1>8 DEF Alike
  <2> QED BY <1>8, <2>1, SameL2 DEF SameInL2
<1>15. RestType(p)'
  BY <1>1, <1>2, UnchangedRest
<1> QED BY <1>2, <1>11, <1>13, <1>14, <1>15, Level2Keeps

LEMMA BusReplyKeeps ==
  ASSUME NEW p \in Programs, Inv(p), NEW x \in Lines, BusReply(x)
  PROVE  Inv(p)'
<1> DEFINE g == FALSE
           s == [line |-> x, progress |-> 0, wrb |-> g]
           b == "replied"
           n == [l2.mshr[x] EXCEPT !.bus = b]
           M == [l2.mshr EXCEPT ![x] = n]
           h == Append(l2.reply, s)
<1>1. L1Type(p) /\ L2Type(p) /\ BusLife(p) /\ RestType(p)
  BY InvParts
<1>2. /\ l1' = l1 /\ bus' = bus /\ done' = done /\ l2.mshr[x].bus = "issued"
      /\ l2' = [l2 EXCEPT !.mshr = M, !.reply = h]
  BY DEF BusReply
<1>3. /\ l2 = [req |-> l2.req, reply |-> l2.reply, cohe |-> l2.cohe, data |-> l2.data, ways |-> l2.ways,
               mshr |-> l2.mshr]
      /\ L2Fits(p, l2.req, l2.reply, l2.cohe, l2.data, l2.ways, l2.mshr)
  BY <1>1, L2Shape
<1>4. s \in Replies /\ s.line = x
  BY DEF Replies
<1> HIDE DEF s, g
<1>5. n \in MSHRs(OfLine(p, x), 1 .. Ways2) /\ Alike(n, l2.mshr[x]) /\ n.bus = "replied"
  <2> DEFINE m == l2.mshr[x]
             S == OfLine(p, x)
             ways == 1 .. Ways2
  <2>1. m \in MSHRs(S, ways) /\ b \in {"none", "snooped", "issued", "replied"} /\ Moved(n, m, b)
    BY <1>3 DEF L2Fits, Moved
  <2> HIDE DEF m, S, ways, n, b
  <2>2. n \in MSHRs(S, ways) /\ Alike(n, m) /\ n.bus = b
    BY <2>1, MSHROnBus
  <2> QED BY <2>2 DEF m, S, ways, b
<1> HIDE DEF n
<1>6. /\ M = [y \in Lines |-> M[y]] /\ \A y \in Lines : M[y] \in MSHRs(OfLine(p, y), 1 .. Ways2)
      /\ M[x] = n /\ \A y \in Lines : y # x => M[y] = l2.mshr[y]
  BY <1>1, <1>5, OneMSHR2
<1> HIDE DEF M
<1>7. L2Becomes(l2.req, h, l2.cohe, l2.data, l2.ways, M)
  BY <1>2, <1>3 DEF L2Becomes
<1>8. l2'.req = l2.req /\ l2'.data = l2.data /\ l2'.mshr = M /\ l2'.cohe = l2.cohe /\ l2'.reply = h
  BY <1>7 DEF L2Becomes
<1>9. h \in Seq(Replies) /\ \A y \in Lines : Count(h, BusReplies(y)) = Count(l2.reply, BusReplies(y)) + One(s, BusReplies(y))
  <2>1. l2.reply \in Seq(Replies)
    BY <1>3 DEF L2Fits
  <2> QED BY <1>4, <2>1, CountAppend
<1>10. L2Fits(p, l2.req, h, l2.cohe, l2.data, l2.ways, M)
  BY <1>3, <1>6, <1>9 DEF L2Fits
<1>11. L2Type(p)'
  BY <1>7, <1>10, L2Kept
<1>12. LineLife(p, x)' /\ OtherLives(p, x)
  <2>1. \A y \in Lines : /\ Count(l2.reply, BusReplies(y)) \in Nat /\ Count(l2.data, Fills(p, y)) \in Nat
                         /\ One(s, BusReplies(y)) = IF x = y THEN 1 ELSE 0
    BY <1>1, <1>4, OnBus
  <2>2. LineLife(p, x)
    BY <1>1, LifeOfLines
  <2>3. ASSUME NEW y \in Lines PROVE Loads(p, y)' = Loads(p, y) + IF x = y THEN 1 ELSE 0
    BY <1>8, <1>9, <2>1 DEF Loads
  <2>4. OtherLives(p, x)
    <3>1. \A y \in Lines : Loads(p, y) \in Nat
      BY <2>1 DEF Loads
    <3> QED BY <1>6, <1>8, <2>3, <3>1 DEF OtherLives
  <2>5. LineLife(p, x)'
    <3>1. Count(l2'.cohe, OwnSnoops(x)) = 0
      BY <1>2, <1>8, <2>2 DEF LineLife
    <3>2. Loads(p, x)' = 1
      BY <1>2, <2>2, <2>3 DEF LineLife
    <3>3. l2'.mshr[x].bus = "replied" /\ l2'.mshr[x].valid
      BY <1>2, <1>5, <1>6, <1>8, <2>2 DEF Alike, LineLife
    <3> QED BY <3>1, <3>2, <3>3 DEF LineLife
  <2> QED BY <2>4, <2>5
<1>13. BusLife(p)'
  BY <1>1, <1>12, LifeOfLines
<1>14. SameInL2(p)
  <2>1. \A y \in Lines : l2'.mshr[y].main = l2.mshr[y].main /\ l2'.mshr[y].coal = l2.mshr[y].coal
    BY <1>5, <1>6, <1>8 DEF Alike
  <2> QED BY <1>8, <2>1, SameL2 DEF SameInL2
<1>15. RestType(p)'
  BY <1>1, <1>2, UnchangedRest
<1> QED BY <1>2, <1>11, <1>13, <1>14, <1>15, Level2Keeps

LEMMA SnoopKeeps ==
  ASSUME NEW p \in Programs, Inv(p), NEW x \in Lines, NEW kind \in {"READ_SH", "READ_OWN"}, Snoop(x, kind)
  PROVE  Inv(p)'
<1> DEFINE s == [line |-> x, kind |-> kind]
           h == Append(l2.cohe, s)
<1>1. L1Type(p) /\ L2Type(p) /\ BusLife(p) /\ RestType(p)
  BY InvParts
<1>2. /\ l1' = l1 /\ bus' = [bus EXCEPT !.snoops = @ - 1] /\ done' = done /\ bus.snoops > 0
      /\ l2' = [l2 EXCEPT !.cohe = h]
  BY DEF Snoop
<1>3. /\ l2 = [req |-> l2.req, reply |-> l2.reply, cohe |-> l2.cohe, data |-> l2.data, ways |-> l2.ways,
               mshr |-> l2.mshr]
      /\ L2Fits(p, l2.req, l2.reply, l2.cohe, l2.data, l2.ways, l2.mshr)
  BY <1>1, L2Shape
<1>4. s \in Snoops /\ s.line = x /\ s.kind # "own"
  BY DEF Snoops
<1> HIDE DEF s
<1>5. L2Becomes(l2.req, l2.reply, h, l2.data, l2.ways, l2.mshr)
  BY <1>2, <1>3 DEF L2Becomes
<1>6. l2'.req = l2.req /\ l2'.data = l2.data /\ l2'.mshr = l2.mshr /\ l2'.cohe = h /\ l2'.reply = l2.reply
  BY <1>5 DEF L2Becomes
<1>7. h \in Seq(Snoops) /\ \A y \in Lines : Count(h, OwnSnoops(y)) = Count(l2.cohe, OwnSnoops(y)) + One(s, OwnSnoops(y))
  <2>1. l2.cohe \in Seq(Snoops)
    BY <1>3 DEF L2Fits
  <2> QED BY <1>4, <2>1, CountAppend
<1>8. L2Fits(p, l2.req, l2.reply, h, l2.data, l2.ways, l2.mshr)
  BY <1>3, <1>7 DEF L2Fits
<1>9. L2Type(p)'
  BY <1>5, <1>8, L2Kept
<1>10. BusLife(p)'
  <2>1. \A y \in Lines : Count(l2.cohe, OwnSnoops(y)) \in Nat /\ One(s, OwnSnoops(y)) = 0
    BY <1>1, <1>4, OnBus
  <2>2. \A y \in Lines : LineLife(p, y)
    BY <1>1, LifeOfLines
  <2>3. OtherLives(p, x)
    BY <1>6, <1>7, <2>1 DEF OtherLives, Loads
  <2>4. LineLife(p, x)'
    BY <1>6, <1>7, <2>1, <2>2 DEF LineLife, Loads
  <2> QED BY <1>1, <2>3, <2>4, LifeOfLines
<1>11. SameInL2(p)
  BY <1>6, SameL2 DEF SameInL2
<1>12. RestType(p)'
  <2>1. bus \in [remote : [Lines -> {"none", "shared", "owned"}], snoops : Nat, asked : SUBSET Lines]
    BY <1>1 DEF RestType
  <2>2. bus.snoops - 1 \in Nat
    BY <1>2, <2>1
  <2>3. bus' \in [remote : [Lines -> {"none", "shared", "owned"}], snoops : Nat, asked : SUBSET Lines]
    BY <1>2, <2>1, <2>2
  <2> QED BY <1>1, <1>2, <2>3, BusChanged
<1> QED BY <1>2, <1>9, <1>10, <1>11, <1>12, Level2Keeps

LEMMA OwnCohe2Keeps ==
  ASSUME NEW p \in Programs, Inv(p), OwnCohe2
  PROVE  Inv(p)'
<1>0. PICK x \in Lines : x = Head(l2.cohe).line
  <2>1. l2.cohe \in Seq(Snoops) /\ l2.cohe # <<>>
    BY InvParts DEF L2Type, OwnCohe2
  <2>2. Head(l2.cohe) \in Snoops
    BY <2>1
  <2> QED BY Zenon, <2>2 DEF Snoops
<1> DEFINE s == Head(l2.cohe)
           reads == l2.mshr[x].main.kind = "READ" /\ l2.mshr[x].miss # 0
           remote == bus.remote[x]
           b == "issued"
           k == reads /\ remote # "none"
           n == [l2.mshr[x] EXCEPT !.bus = b, !.sh = k]
           M == [l2.mshr EXCEPT ![x] = n]
           h == Tail(l2.cohe)
<1>1. L1Type(p) /\ L2Type(p) /\ BusLife(p) /\ RestType(p)
  BY Zenon, InvParts
<1>2. /\ l1' = l1 /\ done' = done /\ l2.cohe # <<>> /\ s.kind = "own"
      /\ l2' = [l2 EXCEPT !.cohe = Tail(@), !.mshr[x].bus = b, !.mshr[x].sh = k]
      /\ bus' = [bus EXCEPT !.remote[x] = IF k THEN "shared" ELSE "none"]
  BY <1>0 DEF OwnCohe2
<1>3. /\ l2 = [req |-> l2.req, reply |-> l2.reply, cohe |-> l2.cohe, data |-> l2.data, ways |-> l2.ways,
               mshr |-> l2.mshr]
      /\ L2Fits(p, l2.req, l2.reply, l2.cohe, l2.data, l2.ways, l2.mshr)
  BY <1>1, L2Shape
<1>4. /\ s \in Snoops /\ h \in Seq(Snoops)
      /\ \A y \in Lines : Count(l2.cohe, OwnSnoops(y)) = One(s, OwnSnoops(y)) + Count(h, OwnSnoops(y))
      /\ \A y \in Lines : Count(h, OwnSnoops(y)) \in Nat
  <2>1. l2.cohe \in Seq(Snoops)
    BY <1>3 DEF L2Fits
  <2>2. s \in Snoops /\ h \in Seq(Snoops) /\ \A P : Count(l2.cohe, P) = One(s, P) + Count(h, P)
    BY <1>2, <2>1, CountTail
  <2>3. \A P : Count(h, P) \in Nat
    BY <2>2, CountType
  <2> QED BY <2>2, <2>3
<1>5. x \in Lines /\ s.line = x
  BY <1>0
<1>6. k \in BOOLEAN
  OBVIOUS
<1>7. RestType(p)'
  <2>1. bus \in [remote : [Lines -> {"none", "shared", "owned"}], snoops : Nat, asked : SUBSET Lines]
    BY <1>1 DEF RestType
  <2> HIDE DEF k
  <2>2. bus' \in [remote : [Lines -> {"none", "shared", "owned"}], snoops : Nat, asked : SUBSET Lines]
    BY <1>2, <1>5, <2>1
  <2> QED BY <1>1, <1>2, <2>2, BusChanged
<1> HIDE DEF k, b
<1>8. L2Becomes(l2.req, l2.reply, h, l2.data, l2.ways, M)
  <2>1. l2.mshr = [y \in Lines |-> l2.mshr[y]]
    BY <1>3 DEF L2Fits
  <2>2. l2'.mshr = M /\ l2'.cohe = h
    BY <1>2, <1>3, <1>5, <2>1
  <2> QED BY <1>2, <1>3, <2>2 DEF L2Becomes
<1>9. n \in MSHRs(OfLine(p, x), 1 .. Ways2) /\ Alike(n, l2.mshr[x]) /\ n.bus = "issued"
  <2> DEFINE m == l2.mshr[x]
             u == [m EXCEPT !.bus = b]
             S == OfLine(p, x)
             ways == 1 .. Ways2
  <2>1. m \in MSHRs(S, ways) /\ b \in {"none", "snooped", "issued", "replied"} /\ Moved(u, m, b)
    BY <1>3, <1>5 DEF L2Fits, Moved, b
  <2>2. PICK o \in BOOLEAN : Shared(n, u, o)
    BY <1>6 DEF Shared
  <2> HIDE DEF m, u, S, ways, n
  <2>3. u \in MSHRs(S, ways) /\ Alike(u, m) /\ u.bus = b
    BY <2>1, MSHROnBus
  <2>4. n \in MSHRs(S, ways) /\ Alike(n, u) /\ n.bus = u.bus
    BY <2>2, <2>3, MSHRShared
  <2> QED BY <2>3, <2>4 DEF m, S, ways, b, Alike
<1> HIDE DEF n
<1>10. /\ M = [y \in Lines |-> M[y]] /\ \A y \in Lines : M[y] \in MSHRs(OfLine(p, y), 1 .. Ways2)
       /\ M[x] = n /\ \A y \in Lines : y # x => M[y] = l2.mshr[y]
  BY <1>1, <1>5, <1>9, OneMSHR2
<1> HIDE DEF M
<1>11. l2'.req = l2.req /\ l2'.data = l2.data /\ l2'.mshr = M /\ l2'.cohe = h /\ l2'.reply = l2.reply
  BY <1>8 DEF L2Becomes
<1>12. L2Fits(p, l2.req, l2.reply, h, l2.data, l2.ways, M)
  BY <1>3, <1>4, <1>10 DEF L2Fits
<1>13. L2Type(p)'
  BY <1>8, <1>12, L2Kept
<1>14. BusLife(p)'
  <2>1. \A y \in Lines : Count(l2.cohe, OwnSnoops(y)) \in Nat /\ One(s, OwnSnoops(y)) = IF x = y THEN 1 ELSE 0
    BY <1>1, <1>2, <1>4, <1>5, OnBus
  <2>2. LineLife(p, x)
    BY <1>1, <1>5, LifeOfLines
  <2>3. OtherLives(p, x)
    BY <1>4, <1>10, <1>11, <2>1 DEF OtherLives, Loads
  <2>4. l2.mshr[x].bus = "snooped" /\ Count(h, OwnSnoops(x)) = 0 /\ l2.mshr[x].valid
    <3>1. Count(l2.cohe, OwnSnoops(x)) = 1 + Count(h, OwnSnoops(x)) /\ Count(h, OwnSnoops(x)) \in Nat
      BY <1>4, <1>5, <2>1
    <3>2. l2.mshr[x].bus = "snooped"
      BY <2>2, <3>1 DEF LineLife
    <3> QED BY <2>2, <3>1, <3>2 DEF LineLife
  <2>5. LineLife(p, x)'
    <3>1. Loads(p, x)' = 0
      BY <1>11, <2>2, <2>4 DEF LineLife, Loads
    <3>2. l2'.mshr[x].bus = "issued" /\ l2'.mshr[x].valid
      BY <1>5, <1>9, <1>10, <1>11, <2>4 DEF Alike
    <3>3. Count(l2'.cohe, OwnSnoops(x)) = 0
      BY <1>11, <2>4
    <3> HIDE DEF h
    <3> QED BY <3>1, <3>2, <3>3 DEF LineLife
  <2> QED BY <1>1, <1>5, <2>3, <2>5, LifeOfLines
<1>15. SameInL2(p)
  <2>1. \A y \in Lines : l2'.mshr[y].main = l2.mshr[y].main /\ l2'.mshr[y].coal = l2.mshr[y].coal
    BY <1>9, <1>10, <1>11 DEF Alike
  <2> QED BY <1>11, <2>1, SameL2 DEF SameInL2
<1> QED BY <1>2, <1>7, <1>13, <1>14, <1>15, Level2Keeps

\* A message to the first level: an invalidation, a share, or a flush.
Message(e, x, to, own, flush, dirty) ==
  e = [kind |-> "COHE", line |-> x, sh |-> FALSE, to |-> to, own |-> own, flush |-> flush, dirty |-> dirty,
       stuck |-> FALSE, wrb |-> NoLine]

LEMMA MessageType ==
  ASSUME NEW p \in Programs, NEW e, NEW x \in AnyLine, NEW to \in {"INVALIDATE", "SHARED"},
         NEW own \in BOOLEAN, NEW flush \in Requests(p) \cup {NoRequest}, NEW dirty \in BOOLEAN,
         Message(e, x, to, own, flush, dirty)
  PROVE  e \in Messages(p) /\ e.kind = "COHE" /\ e.flush = flush
<1> DEFINE g == FALSE
<1>1. e = [kind |-> "COHE", line |-> x, sh |-> g, to |-> to, own |-> own, flush |-> flush, dirty |-> dirty,
       stuck |-> g, wrb |-> NoLine] /\ g \in BOOLEAN /\ NoLine \in AnyLine
  BY DEF Message, AnyLine
<1> HIDE DEF g
<1>2. e.kind = "COHE" /\ e.flush = flush
  BY <1>1
<1> QED BY <1>1, <1>2 DEF Messages

\* One way of the second level changes its state.
LEMMA WayChanged ==
  ASSUME NEW n \in Nat \ {0}, NEW ways \in [1 .. n -> Tags], NEW v \in 1 .. n,
         NEW s \in {"INVALID", "SH_CL", "PR_CL", "PR_DY"}
  PROVE  [ways EXCEPT ![v].state = s] \in [1 .. n -> Tags]
BY DEF Tags

LEMMA Cohe2Keeps ==
  ASSUME NEW p \in Programs, Inv(p), Cohe2
  PROVE  Inv(p)'
<1>0. PICK x \in Lines : x = Head(l2.cohe).line
  <2>1. l2.cohe \in Seq(Snoops) /\ l2.cohe # <<>>
    BY InvParts DEF L2Type, Cohe2
  <2>2. Head(l2.cohe) \in Snoops
    BY <2>1
  <2> QED BY <2>2 DEF Snoops
<1> DEFINE s == Head(l2.cohe)
           h == Tail(l2.cohe)
           old == State(l2.ways, x)
           to == IF s.kind = "READ_SH" THEN "SHARED" ELSE "INVALIDATE"
           dirty == old = "PR_DY"
           e == [NoMessage EXCEPT !.line = x, !.to = to, !.dirty = dirty]
           new == IF to = "SHARED" THEN "SH_CL" ELSE "INVALID"
           W == IF old = "INVALID" THEN l2.ways ELSE [l2.ways EXCEPT ![WayOf(l2.ways, x)].state = new]
<1>1. L1Type(p) /\ L2Type(p) /\ BusLife(p) /\ RestType(p)
  BY InvParts
<1>2. /\ done' = done /\ l2.cohe # <<>> /\ s.kind # "own"
      /\ l2' = [l2 EXCEPT !.cohe = h, !.ways = W]
      /\ \/ bus' = Answered(x, to) /\ l1' = l1
         \/ bus' = [bus EXCEPT !.asked = @ \cup {x}] /\ l1' = ToBoth(e, e)
  BY <1>0 DEF Cohe2
<1>3. /\ l2 = [req |-> l2.req, reply |-> l2.reply, cohe |-> l2.cohe, data |-> l2.data, ways |-> l2.ways,
               mshr |-> l2.mshr]
      /\ L2Fits(p, l2.req, l2.reply, l2.cohe, l2.data, l2.ways, l2.mshr)
  BY <1>1, L2Shape
<1>4. /\ s \in Snoops /\ h \in Seq(Snoops)
      /\ \A y \in Lines : Count(l2.cohe, OwnSnoops(y)) = One(s, OwnSnoops(y)) + Count(h, OwnSnoops(y))
      /\ \A y \in Lines : Count(h, OwnSnoops(y)) \in Nat
  <2>1. l2.cohe \in Seq(Snoops)
    BY <1>3 DEF L2Fits
  <2>2. s \in Snoops /\ h \in Seq(Snoops) /\ \A P : Count(l2.cohe, P) = One(s, P) + Count(h, P)
    BY <1>2, <2>1, CountTail
  <2>3. \A P : Count(h, P) \in Nat
    BY <2>2, CountType
  <2> QED BY <2>2, <2>3
<1>5. W \in [1 .. Ways2 -> Tags]
  <2>1. l2.ways \in [1 .. Ways2 -> Tags] /\ WayOf(l2.ways, x) \in 1 .. Ways2
    BY <1>3, WaysType, HierarchyAssumption DEF L2Fits
  <2>2. new \in {"INVALID", "SH_CL", "PR_CL", "PR_DY"}
    OBVIOUS
  <2> HIDE DEF new, old
  <2> QED BY <2>1, <2>2, WayChanged, HierarchyAssumption
<1>6. Plain(p, e)
  <2>1. x \in AnyLine /\ to \in {"INVALIDATE", "SHARED"}
    BY DEF AnyLine
  <2> DEFINE g == FALSE
             o == NoMessage
  <2>2. o = [kind |-> "COHE", line |-> NoLine, sh |-> g, to |-> "INVALIDATE", own |-> g,
             flush |-> NoRequest, dirty |-> g, stuck |-> g, wrb |-> NoLine]
    BY DEF NoMessage
  <2>3. g \in BOOLEAN
    OBVIOUS
  <2>4. PICK d \in BOOLEAN : d = dirty
    OBVIOUS
  <2>5. Message(e, x, to, g, NoRequest, d)
    <3>1. e = [o EXCEPT !.line = x, !.to = to, !.dirty = d]
      BY <2>4
    <3> HIDE DEF to, dirty, g, o, e
    <3>2. e = [kind |-> "COHE", line |-> x, sh |-> g, to |-> to, own |-> g, flush |-> NoRequest, dirty |-> d,
               stuck |-> g, wrb |-> NoLine]
      BY <2>2, <3>1
    <3> QED BY <3>2 DEF Message, g
  <2> HIDE DEF g, e, to, dirty
  <2>6. e \in Messages(p) /\ e.kind = "COHE" /\ e.flush = NoRequest
    BY Zenon, <2>1, <2>3, <2>5, MessageType
  <2> QED BY <2>6 DEF Plain
<1>7. Quiet1(p)
  <2>1. CASE l1' = l1
    BY <1>1, <2>1, Quiet1Same
  <2>2. CASE l1' = ToBoth(e, e)
    <3> HIDE DEF e
    <3> QED BY <1>1, <1>6, <2>2, Quiet1Told
  <2> QED BY <1>2, <2>1, <2>2
<1>8. RestType(p)'
  <2>1. bus \in [remote : [Lines -> {"none", "shared", "owned"}], snoops : Nat, asked : SUBSET Lines]
    BY <1>1 DEF RestType
  <2>2. RemoteAfter(to) \in {"none", "shared", "owned"}
    BY DEF RemoteAfter
  <2> DEFINE o == RemoteAfter(to)
  <2>3. Answered(x, to) = [bus EXCEPT !.asked = @ \ {x}, !.remote[x] = o]
    BY DEF Answered
  <2> HIDE DEF o
  <2>4. [bus EXCEPT !.asked = @ \ {x}, !.remote[x] = o]
          \in [remote : [Lines -> {"none", "shared", "owned"}], snoops : Nat, asked : SUBSET Lines]
    BY <2>1, <2>2 DEF o
  <2>5. [bus EXCEPT !.asked = @ \cup {x}]
          \in [remote : [Lines -> {"none", "shared", "owned"}], snoops : Nat, asked : SUBSET Lines]
    BY <2>1
  <2>6. bus' \in [remote : [Lines -> {"none", "shared", "owned"}], snoops : Nat, asked : SUBSET Lines]
    BY <1>2, <2>3, <2>4, <2>5
  <2> QED BY <1>1, <1>2, <2>6, BusChanged
<1> HIDE DEF W
<1>9. L2Becomes(l2.req, l2.reply, h, l2.data, W, l2.mshr)
  BY <1>2, <1>3 DEF L2Becomes
<1>10. l2'.req = l2.req /\ l2'.data = l2.data /\ l2'.mshr = l2.mshr /\ l2'.cohe = h /\ l2'.reply = l2.reply
  BY <1>9 DEF L2Becomes
<1>11. L2Fits(p, l2.req, l2.reply, h, l2.data, W, l2.mshr)
  BY <1>3, <1>4, <1>5 DEF L2Fits
<1>12. L2Type(p)'
  BY <1>9, <1>11, L2Kept
<1>13. BusLife(p)'
  <2>1. \A y \in Lines : One(s, OwnSnoops(y)) = 0
    BY <1>1, <1>2, <1>4, OnBus
  <2>2. \A y \in Lines : Count(l2.cohe, OwnSnoops(y)) = Count(h, OwnSnoops(y))
    BY <1>4, <2>1
  <2>3. LineLife(p, x)
    BY <1>1, LifeOfLines
  <2> HIDE DEF h
  <2>4. OtherLives(p, x)
    BY <1>10, <2>2 DEF OtherLives, Loads
  <2>5. LineLife(p, x)'
    BY <1>10, <2>2, <2>3 DEF LineLife, Loads
  <2> QED BY <1>1, <2>4, <2>5, LifeOfLines
<1>14. SameInL2(p)
  BY <1>10, SameL2 DEF SameInL2
<1> QED BY <1>2, <1>7, <1>8, <1>12, <1>13, <1>14, Level2MovesKeep

\* The first reply from the bus goes on.
GoesOn(t, q, u) == t = [q EXCEPT ![1] = u]
Forwarded(t, q, g, h) == t = [q EXCEPT ![1].progress = g, ![1].wrb = h]
Emptied(t, q, h) == t = [q EXCEPT ![1].wrb = h]

LEMMA ReplyGoesOn ==
  ASSUME NEW q \in Seq(Replies), q # <<>>, NEW u \in Replies, u.line = Head(q).line, NEW t, GoesOn(t, q, u)
  PROVE  t \in Seq(Replies) /\ \A y : Count(t, BusReplies(y)) = Count(q, BusReplies(y))
<1>1. /\ 1 \in 1 .. Len(q) /\ Head(q) = q[1] /\ q[1] \in Replies /\ t \in Seq(Replies) /\ Len(t) = Len(q) /\ t[1] = u
      /\ \A k \in 1 .. Len(q) : k # 1 => t[k] = q[k]
  BY DEF GoesOn
<1>2. ASSUME NEW y PROVE Count(t, BusReplies(y)) = Count(q, BusReplies(y))
  <2>1. u \in BusReplies(y) <=> q[1] \in BusReplies(y)
    BY <1>1 DEF BusReplies
  <2> DEFINE P == BusReplies(y)
  <2> HIDE DEF P
  <2>2. Len(t) = Len(q) /\ \A k \in 1 .. Len(t) : t[k] \in P <=> q[k] \in P
    BY <1>1, <2>1 DEF P
  <2>3. Count(t, P) = Count(q, P)
    BY <2>2, CountSame
  <2> QED BY <2>3 DEF P
<1> QED BY <1>1, <1>2

LEMMA ReplyChanged ==
  ASSUME NEW q \in Seq(Replies), q # <<>>, NEW g \in 0 .. 3, NEW h \in BOOLEAN, NEW t,
         Forwarded(t, q, g, h) \/ Emptied(t, q, h)
  PROVE  t \in Seq(Replies) /\ \A y : Count(t, BusReplies(y)) = Count(q, BusReplies(y))
<1> DEFINE r == q[1]
<1>1. r \in Replies /\ 1 \in DOMAIN q /\ Head(q) = r
  OBVIOUS
<1>2. r = [line |-> r.line, progress |-> r.progress, wrb |-> r.wrb] /\ r.line \in Lines /\ r.progress \in 0 .. 3
  BY <1>1 DEF Replies
<1>3. CASE Forwarded(t, q, g, h)
  <2> DEFINE w == [r EXCEPT !.progress = g]
             u == [w EXCEPT !.wrb = h]
  <2>1. GoesOn(t, q, u)
    BY <1>1, <1>3 DEF Forwarded, GoesOn
  <2>2. u \in Replies /\ u.line = Head(q).line
    <3> HIDE DEF r
    <3>2. w = [line |-> r.line, progress |-> g, wrb |-> r.wrb]
      BY <1>2
    <3> HIDE DEF w
    <3>1. u = [line |-> r.line, progress |-> g, wrb |-> h]
      BY <3>2
    <3> HIDE DEF u
    <3> QED BY <1>1, <1>2, <3>1 DEF Replies
  <2> HIDE DEF u
  <2> QED BY <2>1, <2>2, ReplyGoesOn
<1>4. CASE Emptied(t, q, h)
  <2> DEFINE u == [r EXCEPT !.wrb = h]
  <2>1. GoesOn(t, q, u)
    BY <1>1, <1>4 DEF Emptied, GoesOn
  <2>2. u \in Replies /\ u.line = Head(q).line
    <3> HIDE DEF r
    <3>1. u = [line |-> r.line, progress |-> r.progress, wrb |-> h]
      BY <1>2
    <3> HIDE DEF u
    <3> QED BY <1>1, <1>2, <3>1 DEF Replies
  <2> HIDE DEF u
  <2> QED BY <2>1, <2>2, ReplyGoesOn
<1> QED BY <1>3, <1>4

\* The bus keeps its counts when only the replies in it go on.
LEMMA LivesKept ==
  ASSUME NEW p \in Programs, BusLife(p), l2'.cohe = l2.cohe, SameFills(p), SameLives,
         \A y \in Lines : Count(l2'.reply, BusReplies(y)) = Count(l2.reply, BusReplies(y))
  PROVE  BusLife(p)'
<1> SUFFICES ASSUME NEW y \in Lines PROVE LineLife(p, y)'
  BY DEF BusLife, LineLife, Loads
<1>1. LineLife(p, y)
  BY LifeOfLines
<1>2. Loads(p, y)' = Loads(p, y)
  BY Zenon DEF Loads, SameFills
<1> QED BY <1>1, <1>2 DEF LineLife, SameLives

LEMMA Reply2Keeps ==
  ASSUME NEW p \in Programs, Inv(p), Reply2
  PROVE  Inv(p)'
<1>1. L1Type(p) /\ L2Type(p) /\ BusLife(p) /\ RestType(p)
  BY InvParts
<1>2. l2.reply \in Seq(Replies) /\ l2.reply # <<>> /\ Head(l2.reply) \in Replies
  <2>1. l2.reply \in Seq(Replies)
    BY Zenon, <1>1 DEF L2Type
  <2>2. l2.reply # <<>>
    BY Zenon DEF Reply2
  <2> QED BY <2>1, <2>2
<1>3. PICK x \in Lines : x = Head(l2.reply).line
  BY Zenon, <1>2 DEF Replies
<1>4. /\ l2 = [req |-> l2.req, reply |-> l2.reply, cohe |-> l2.cohe, data |-> l2.data, ways |-> l2.ways,
               mshr |-> l2.mshr]
      /\ L2Fits(p, l2.req, l2.reply, l2.cohe, l2.data, l2.ways, l2.mshr)
  BY Zenon, <1>1, L2Shape
<1> DEFINE m == l2.mshr[x]
           g == FALSE
           old(w) == l2.ways[w]
           evicts(w) == m.miss # 0 /\ old(w).state # "INVALID"
           e(w) == [NoMessage EXCEPT !.line = old(w).tag, !.own = TRUE]
           n(w) == IF m.miss = 0 THEN [l2.ways[w] EXCEPT !.state = "PR_DY"]
                   ELSE [tag |-> x, state |-> IF m.writes THEN "PR_DY" ELSE IF m.sh THEN "SH_CL" ELSE "PR_CL"]
<1> DEFINE z == Head(l2.reply).line
           Body(w) ==
             LET k == l2.mshr[z]
                 o == l2.ways[w]
                 out == k.miss # 0 /\ o.state # "INVALID"
                 d == [NoMessage EXCEPT !.line = o.tag, !.own = TRUE]
             IN /\ l2' = [l2 EXCEPT !.ways[w] = IF k.miss = 0 THEN [@ EXCEPT !.state = "PR_DY"]
                                   ELSE [tag |-> z, state |-> IF k.writes THEN "PR_DY"
                                                              ELSE IF k.sh THEN "SH_CL" ELSE "PR_CL"],
                                    !.mshr[z].way = w, !.mshr[z].lock = FALSE,
                                    !.reply[1].progress = IF out THEN 2 ELSE 3,
                                    !.reply[1].wrb = out /\ o.state = "PR_DY"]
                /\ l1' = IF out THEN ToBoth(d, d) ELSE l1
<1>5. /\ bus' = bus /\ done' = done
      /\ \E w \in IF l2.mshr[z].miss = 2 THEN Victims(l2.ways, Locked) ELSE {l2.mshr[z].way} : Body(w)
  BY Zenon DEF Reply2
<1>6. m \in MSHRs(OfLine(p, x), 1 .. Ways2) /\ m.way \in 1 .. Ways2 /\ l2.ways \in [1 .. Ways2 -> Tags]
      /\ l2.mshr = [y \in Lines |-> l2.mshr[y]]
  BY Zenon, <1>4 DEF L2Fits, MSHRs
<1>7. PICK v \in 1 .. Ways2 :
           /\ l2' = [l2 EXCEPT !.ways[v] = n(v), !.mshr[x].way = v, !.mshr[x].lock = FALSE,
                               !.reply[1].progress = IF evicts(v) THEN 2 ELSE 3,
                               !.reply[1].wrb = evicts(v) /\ old(v).state = "PR_DY"]
           /\ l1' = IF evicts(v) THEN ToBoth(e(v), e(v)) ELSE l1
  <2>1. Victims(l2.ways, Locked) \subseteq 1 .. Ways2
    BY <1>6, WaysType, HierarchyAssumption
  <2>2. (IF m.miss = 2 THEN Victims(l2.ways, Locked) ELSE {m.way}) \subseteq 1 .. Ways2
    BY <1>6, <2>1
  <2>3. PICK w \in 1 .. Ways2 : Body(w)
    <3>1. z = x
      BY Zenon, <1>3
    <3> HIDE DEF Body, z
    <3> QED BY <1>5, <2>2, <3>1
  <2> QED BY Zenon, <1>3, <2>3
<1>8. PICK f \in 0 .. 3, b \in BOOLEAN :
           l2' = [l2 EXCEPT !.ways[v] = n(v), !.mshr[x].way = v, !.mshr[x].lock = g,
                            !.reply[1].progress = f, !.reply[1].wrb = b]
  <2> DEFINE f == IF evicts(v) THEN 2 ELSE 3
             b == evicts(v) /\ old(v).state = "PR_DY"
  <2>1. f \in 0 .. 3 /\ b \in BOOLEAN
    OBVIOUS
  <2>2. l2' = [l2 EXCEPT !.ways[v] = n(v), !.mshr[x].way = v, !.mshr[x].lock = g,
                         !.reply[1].progress = f, !.reply[1].wrb = b]
    BY <1>7
  <2> HIDE DEF f, b
  <2> QED BY Zenon, <2>1, <2>2
<1>9. Quiet1(p)
  <2>1. CASE ~evicts(v)
    BY <1>1, <1>7, <2>1, Quiet1Same
  <2>2. CASE evicts(v)
    <3> DEFINE d == e(v)
               a == old(v).tag
               o == NoMessage
               no == FALSE
               own == TRUE
    <3>1. a \in AnyLine /\ own \in BOOLEAN /\ no \in BOOLEAN
      BY <1>6 DEF Tags
    <3>2. o = [kind |-> "COHE", line |-> NoLine, sh |-> no, to |-> "INVALIDATE", own |-> no,
               flush |-> NoRequest, dirty |-> no, stuck |-> no, wrb |-> NoLine]
      BY DEF NoMessage
    <3>3. Message(d, a, "INVALIDATE", own, NoRequest, no)
      <4>1. d = [o EXCEPT !.line = a, !.own = own]
        OBVIOUS
      <4> HIDE DEF d, a, o, no, own
      <4>2. d = [kind |-> "COHE", line |-> a, sh |-> no, to |-> "INVALIDATE", own |-> own,
                 flush |-> NoRequest, dirty |-> no, stuck |-> no, wrb |-> NoLine]
        BY <3>2, <4>1
      <4> QED BY <4>2 DEF Message, no
    <3>4. l1' = ToBoth(d, d)
      BY <1>7, <2>2
    <3> HIDE DEF d, a, o, no, own
    <3>5. d \in Messages(p) /\ d.kind = "COHE" /\ d.flush = NoRequest
      BY <3>1, <3>3, MessageType
    <3>6. Plain(p, d)
      BY <3>5 DEF Plain
    <3> QED BY <1>1, <3>4, <3>6, Quiet1Told
  <2> QED BY <2>1, <2>2
<1> DEFINE u == [l2.mshr[x] EXCEPT !.way = v, !.lock = g]
           M == [l2.mshr EXCEPT ![x] = u]
           W == [l2.ways EXCEPT ![v] = n(v)]
           T == [l2.reply EXCEPT ![1].progress = f, ![1].wrb = b]
<1>10. W \in [1 .. Ways2 -> Tags]
  <2>1. n(v) \in Tags
    BY Zenon, <1>6 DEF Tags, AnyLine
  <2> HIDE DEF n
  <2> QED BY <1>6, <2>1
<1>11. T \in Seq(Replies) /\ \A y : Count(T, BusReplies(y)) = Count(l2.reply, BusReplies(y))
  <2>1. Forwarded(T, l2.reply, f, b)
    BY DEF Forwarded
  <2> HIDE DEF T
  <2> QED BY <1>2, <2>1, ReplyChanged
<1>12. L2Becomes(l2.req, T, l2.cohe, l2.data, W, M)
  <2> HIDE DEF n, g
  <2>1. l2'.mshr = M
    BY <1>4, <1>6, <1>8
  <2>2. l2'.reply = T
    BY <1>4, <1>8
  <2>3. l2'.ways = W
    BY <1>4, <1>8
  <2>4. /\ l2' = [req |-> l2'.req, reply |-> l2'.reply, cohe |-> l2'.cohe, data |-> l2'.data, ways |-> l2'.ways,
                  mshr |-> l2'.mshr]
        /\ l2'.req = l2.req /\ l2'.cohe = l2.cohe /\ l2'.data = l2.data
    BY <1>4, <1>8
  <2> HIDE DEF M, T, W
  <2> QED BY <2>1, <2>2, <2>3, <2>4 DEF L2Becomes
<1>13. u \in MSHRs(OfLine(p, x), 1 .. Ways2) /\ Alike(u, l2.mshr[x]) /\ u.bus = l2.mshr[x].bus
  <2> DEFINE S == OfLine(p, x)
             ways == 1 .. Ways2
  <2>1. m \in MSHRs(S, ways) /\ g \in BOOLEAN /\ Placed(u, m, v, g) /\ v \in ways
    BY <1>6 DEF Placed
  <2> HIDE DEF m, u, S, ways, g
  <2>2. u \in MSHRs(S, ways) /\ Alike(u, m) /\ u.bus = m.bus
    BY <2>1, MSHRPlaced
  <2> QED BY <2>2 DEF m, S, ways
<1> HIDE DEF u, W, T
<1>14. /\ M = [y \in Lines |-> M[y]] /\ \A y \in Lines : M[y] \in MSHRs(OfLine(p, y), 1 .. Ways2)
       /\ M[x] = u /\ \A y \in Lines : y # x => M[y] = l2.mshr[y]
  BY <1>1, <1>13, OneMSHR2
<1> HIDE DEF M
<1>15. l2'.req = l2.req /\ l2'.data = l2.data /\ l2'.mshr = M /\ l2'.cohe = l2.cohe /\ l2'.reply = T
  BY <1>12 DEF L2Becomes
<1>16. L2Fits(p, l2.req, T, l2.cohe, l2.data, W, M)
  BY <1>4, <1>10, <1>11, <1>14 DEF L2Fits
<1>17. L2Type(p)'
  BY <1>12, <1>16, L2Kept
<1>18. BusLife(p)'
  <2>1. SameLives /\ SameFills(p)
    BY <1>13, <1>14, <1>15 DEF SameLives, SameFills, Alike
  <2>2. \A y \in Lines : Count(l2'.reply, BusReplies(y)) = Count(l2.reply, BusReplies(y))
    BY <1>11, <1>15
  <2> QED BY <1>1, <1>15, <2>1, <2>2, LivesKept
<1>19. SameInL2(p)
  <2>1. \A y \in Lines : l2'.mshr[y].main = l2.mshr[y].main /\ l2'.mshr[y].coal = l2.mshr[y].coal
    BY <1>13, <1>14, <1>15 DEF Alike
  <2> QED BY <1>15, <2>1, SameL2 DEF SameInL2
<1>20. RestType(p)'
  BY Zenon, <1>1, <1>5, UnchangedRest
<1> QED BY Zenon, <1>5, <1>9, <1>17, <1>18, <1>19, <1>20, Level2MovesKeep

\* The write of a victim and the fill of the line that replaces it.
Write2Out ==
  /\ l2' = [l2 EXCEPT !.reply[1].wrb = FALSE, !.data = Append(@, Out)] /\ UNCHANGED <<l1, bus, done>>
  /\ l2.reply # <<>>
Write2Fill ==
  /\ l2' = [l2 EXCEPT !.reply = Tail(@), !.mshr[Head(l2.reply).line].releasing = TRUE,
                      !.data = Append(@, [kind |-> "FILL", r |-> l2.mshr[Head(l2.reply).line].main])]
  /\ UNCHANGED <<l1, bus, done>> /\ l2.reply # <<>>

LEMMA Write2OutKeeps ==
  ASSUME NEW p \in Programs, Inv(p), Write2Out
  PROVE  Inv(p)'
<1> DEFINE g == FALSE
           T == [l2.reply EXCEPT ![1].wrb = g]
           d == Append(l2.data, Out)
<1>1. L1Type(p) /\ L2Type(p) /\ BusLife(p) /\ RestType(p)
  BY InvParts
<1>2. /\ l1' = l1 /\ bus' = bus /\ done' = done /\ l2.reply # <<>>
      /\ l2' = [l2 EXCEPT !.reply[1].wrb = g, !.data = Append(@, Out)]
  BY DEF Write2Out
<1>3. /\ l2 = [req |-> l2.req, reply |-> l2.reply, cohe |-> l2.cohe, data |-> l2.data, ways |-> l2.ways,
               mshr |-> l2.mshr]
      /\ L2Fits(p, l2.req, l2.reply, l2.cohe, l2.data, l2.ways, l2.mshr)
  BY <1>1, L2Shape
<1>4. g \in BOOLEAN
  OBVIOUS
<1> HIDE DEF g
<1>5. L2Becomes(l2.req, T, l2.cohe, d, l2.ways, l2.mshr)
  BY <1>2, <1>3 DEF L2Becomes
<1>6. T \in Seq(Replies) /\ \A y : Count(T, BusReplies(y)) = Count(l2.reply, BusReplies(y))
  <2>1. Emptied(T, l2.reply, g)
    BY DEF Emptied
  <2>2. l2.reply \in Seq(Replies)
    BY <1>3 DEF L2Fits
  <2>3. 0 \in 0 .. 3
    OBVIOUS
  <2> HIDE DEF T
  <2> QED BY <1>2, <1>4, <2>1, <2>2, <2>3, ReplyChanged
<1> HIDE DEF T
<1>7. l2'.req = l2.req /\ l2'.data = d /\ l2'.mshr = l2.mshr /\ l2'.cohe = l2.cohe /\ l2'.reply = T
  BY <1>5 DEF L2Becomes
<1>8. Out \in DataItems(p)
  BY DataItemTypes
<1>9. /\ d \in Seq(DataItems(p))
      /\ \A i \in DOMAIN p, w \in BOOLEAN : InData(p, i, w)' = InData(p, i, w) + One(Out, Answers(p, i, w))
      /\ \A x \in Lines : Count(l2'.data, Fills(p, x)) = Count(l2.data, Fills(p, x)) + One(Out, Fills(p, x))
  BY <1>1, <1>7, <1>8, JoinsData
<1>10. L2Fits(p, l2.req, T, l2.cohe, d, l2.ways, l2.mshr)
  BY <1>3, <1>6, <1>9 DEF L2Fits
<1>11. L2Type(p)'
  BY <1>5, <1>10, L2Kept
<1>12. BusLife(p)'
  <2>1. SameFills(p)
    BY <1>1, <1>9, DataItemTypes, OnBus DEF SameFills
  <2>2. SameLives
    BY <1>7 DEF SameLives
  <2>3. \A y \in Lines : Count(l2'.reply, BusReplies(y)) = Count(l2.reply, BusReplies(y))
    BY <1>6, <1>7
  <2> QED BY <1>1, <1>7, <2>1, <2>2, <2>3, LivesKept
<1>13. SameInL2(p)
  <2> SUFFICES ASSUME NEW i \in DOMAIN p, NEW w \in BOOLEAN
               PROVE  AtL2(p, i, w)' + InL2(p, i, w)' + InData(p, i, w)' = AtL2(p, i, w) + InL2(p, i, w) + InData(p, i, w)
    BY DEF SameInL2
  <2>1. InData(p, i, w)' = InData(p, i, w)
    BY <1>1, <1>9, DataItemTypes, CountsType
  <2>2. AtL2(p, i, w)' = AtL2(p, i, w) /\ InL2(p, i, w)' = InL2(p, i, w)
    BY <1>7, SameL2
  <2> QED BY <2>1, <2>2
<1>14. RestType(p)'
  BY <1>1, <1>2, UnchangedRest
<1> QED BY <1>2, <1>11, <1>12, <1>13, <1>14, Level2Keeps

LEMMA Write2FillKeeps ==
  ASSUME NEW p \in Programs, Inv(p), Write2Fill
  PROVE  Inv(p)'
<1>0. PICK x \in Lines : x = Head(l2.reply).line
  <2>1. l2.reply \in Seq(Replies) /\ l2.reply # <<>>
    BY InvParts DEF L2Type, Write2Fill
  <2>2. Head(l2.reply) \in Replies
    BY <2>1
  <2> QED BY <2>2 DEF Replies
<1> DEFINE s == Head(l2.reply)
           T == Tail(l2.reply)
           g == TRUE
           r == l2.mshr[x].main
           f == [kind |-> "FILL", r |-> r]
           d == Append(l2.data, f)
           n == [l2.mshr[x] EXCEPT !.releasing = g]
           M == [l2.mshr EXCEPT ![x] = n]
<1>1. L1Type(p) /\ L2Type(p) /\ BusLife(p) /\ RestType(p)
  BY InvParts
<1>2. /\ l1' = l1 /\ bus' = bus /\ done' = done /\ l2.reply # <<>>
      /\ l2' = [l2 EXCEPT !.reply = T, !.mshr = M, !.data = d]
  BY <1>0 DEF Write2Fill
<1>3. /\ l2 = [req |-> l2.req, reply |-> l2.reply, cohe |-> l2.cohe, data |-> l2.data, ways |-> l2.ways,
               mshr |-> l2.mshr]
      /\ L2Fits(p, l2.req, l2.reply, l2.cohe, l2.data, l2.ways, l2.mshr)
  BY <1>1, L2Shape
<1>4. /\ s \in Replies /\ T \in Seq(Replies) /\ s.line = x
      /\ \A y \in Lines : Count(l2.reply, BusReplies(y)) = One(s, BusReplies(y)) + Count(T, BusReplies(y))
      /\ \A y \in Lines : Count(T, BusReplies(y)) \in Nat
  <2>1. l2.reply \in Seq(Replies)
    BY <1>3 DEF L2Fits
  <2>2. s \in Replies /\ T \in Seq(Replies) /\ \A P : Count(l2.reply, P) = One(s, P) + Count(T, P)
    BY <1>2, <2>1, CountTail
  <2>3. \A P : Count(T, P) \in Nat
    BY <2>2, CountType
  <2> QED BY <1>0, <2>2, <2>3
<1>5. \A y \in Lines : /\ Count(l2.data, Fills(p, y)) \in Nat /\ Count(l2.reply, BusReplies(y)) \in Nat
                       /\ One(s, BusReplies(y)) = IF x = y THEN 1 ELSE 0
  BY <1>1, <1>4, OnBus
<1>6. LineLife(p, x)
  BY <1>1, LifeOfLines
<1>7. l2.mshr[x].bus = "replied" /\ l2.mshr[x].valid
  <2>1. Count(l2.reply, BusReplies(x)) = 1 + Count(T, BusReplies(x)) /\ Count(T, BusReplies(x)) \in Nat
    BY <1>4, <1>5
  <2>2. Loads(p, x) # 0
    <3> DEFINE a == Count(l2.reply, BusReplies(x))
               b == Count(T, BusReplies(x))
               e == Count(l2.data, Fills(p, x))
    <3>1. a = 1 + b /\ b \in Nat /\ e \in Nat /\ Loads(p, x) = a + e
      BY <1>5, <2>1 DEF Loads
    <3> HIDE DEF a, b, e
    <3> QED BY <3>1
  <2>3. l2.mshr[x].bus = "replied"
    BY <1>6, <2>2 DEF LineLife
  <2> QED BY <1>6, <2>3 DEF LineLife
<1>8. l2.mshr[x] \in MSHRs(OfLine(p, x), 1 .. Ways2) /\ r \in OfLine(p, x)
  <2>1. l2.mshr[x] \in MSHRs(OfLine(p, x), 1 .. Ways2)
    BY <1>3 DEF L2Fits
  <2> QED BY <1>7, <2>1 DEF MSHRs
<1>9. r \in Requests(p) /\ r.line = x
  BY <1>8 DEF OfLine
<1>10. n \in MSHRs(OfLine(p, x), 1 .. Ways2) /\ Alike(n, l2.mshr[x]) /\ n.bus = l2.mshr[x].bus
  <2> DEFINE m == l2.mshr[x]
             S == OfLine(p, x)
             ways == 1 .. Ways2
  <2>1. m \in MSHRs(S, ways) /\ g \in BOOLEAN /\ n = [m EXCEPT !.releasing = g]
    BY <1>8
  <2> HIDE DEF m, S, ways, n, g
  <2>2. n \in MSHRs(S, ways) /\ Alike(n, m)
    BY <2>1, MSHRChanged
  <2>3. n.bus = m.bus
    BY <2>1 DEF MSHRs
  <2> QED BY <2>2, <2>3 DEF m, S, ways
<1> HIDE DEF n, g
<1>11. /\ f \in DataItems(p) /\ \A i \in DOMAIN p, w \in BOOLEAN : One(f, Answers(p, i, w)) = 0
       /\ \A y \in Lines : One(f, Fills(p, y)) = IF x = y THEN 1 ELSE 0
  <2> HIDE DEF r
  <2> QED BY <1>9, DataItemTypes
<1> HIDE DEF f
<1>12. /\ M = [y \in Lines |-> M[y]] /\ \A y \in Lines : M[y] \in MSHRs(OfLine(p, y), 1 .. Ways2)
       /\ M[x] = n /\ \A y \in Lines : y # x => M[y] = l2.mshr[y]
  BY <1>1, <1>10, OneMSHR2
<1> HIDE DEF M
<1>13. L2Becomes(l2.req, T, l2.cohe, d, l2.ways, M)
  BY <1>2, <1>3 DEF L2Becomes
<1>14. l2'.req = l2.req /\ l2'.data = d /\ l2'.mshr = M /\ l2'.cohe = l2.cohe /\ l2'.reply = T
  BY <1>13 DEF L2Becomes
<1>15. /\ d \in Seq(DataItems(p))
       /\ \A i \in DOMAIN p, w \in BOOLEAN : InData(p, i, w)' = InData(p, i, w) + One(f, Answers(p, i, w))
       /\ \A y \in Lines : Count(l2'.data, Fills(p, y)) = Count(l2.data, Fills(p, y)) + One(f, Fills(p, y))
  BY <1>1, <1>11, <1>14, JoinsData
<1>16. L2Fits(p, l2.req, T, l2.cohe, d, l2.ways, M)
  BY <1>3, <1>4, <1>12, <1>15 DEF L2Fits
<1>17. L2Type(p)'
  BY <1>13, <1>16, L2Kept
<1>18. BusLife(p)'
  <2>1. ASSUME NEW y \in Lines PROVE Loads(p, y)' = Loads(p, y)
    <3> DEFINE a == Count(l2.reply, BusReplies(y))
               b == Count(T, BusReplies(y))
               e == Count(l2.data, Fills(p, y))
               o == IF x = y THEN 1 ELSE 0
    <3>1. a = o + b /\ b \in Nat /\ e \in Nat /\ o \in Nat /\ Loads(p, y) = a + e
      BY <1>4, <1>5 DEF Loads
    <3>2. Loads(p, y)' = b + (e + o)
      BY <1>11, <1>14, <1>15 DEF Loads
    <3> HIDE DEF a, b, e, o
    <3> QED BY <3>1, <3>2
  <2>2. SameLives
    BY <1>10, <1>12, <1>14 DEF SameLives, Alike
  <2>3. \A y \in Lines : LineLife(p, y)
    BY <1>1, LifeOfLines
  <2>4. ASSUME NEW y \in Lines PROVE LineLife(p, y)'
    <3>1. l2'.mshr[y].bus = l2.mshr[y].bus /\ (l2.mshr[y].valid => l2'.mshr[y].valid) /\ l2'.cohe = l2.cohe
      BY <1>14, <2>2 DEF SameLives
    <3> QED BY <2>1, <2>3, <3>1 DEF LineLife
  <2> QED BY <2>4 DEF BusLife, LineLife, Loads
<1>19. SameInL2(p)
  <2> SUFFICES ASSUME NEW i \in DOMAIN p, NEW w \in BOOLEAN
               PROVE  AtL2(p, i, w)' + InL2(p, i, w)' + InData(p, i, w)' = AtL2(p, i, w) + InL2(p, i, w) + InData(p, i, w)
    BY DEF SameInL2
  <2>1. InData(p, i, w)' = InData(p, i, w)
    BY <1>1, <1>11, <1>15, CountsType
  <2>2. \A y \in Lines : l2'.mshr[y].main = l2.mshr[y].main /\ l2'.mshr[y].coal = l2.mshr[y].coal
    BY <1>10, <1>12, <1>14 DEF Alike
  <2>3. AtL2(p, i, w)' = AtL2(p, i, w) /\ InL2(p, i, w)' = InL2(p, i, w)
    BY <1>14, <2>2, SameL2
  <2> QED BY <2>1, <2>3
<1>20. RestType(p)'
  BY <1>1, <1>2, UnchangedRest
<1> QED BY <1>2, <1>17, <1>18, <1>19, <1>20, Level2Keeps

LEMMA Write2Keeps ==
  ASSUME NEW p \in Programs, Inv(p), Write2
  PROVE  Inv(p)'
<1>1. Write2Out \/ Write2Fill
  BY Zenon DEF Write2, Write2Out, Write2Fill
<1> QED BY <1>1, Write2OutKeeps, Write2FillKeeps

\* A reply in the queue of a first-level cache has an MSHR, and is its only one.
Awaited(p, c, x) ==
  LET i == l1[c].mshr[x].main.id
  IN /\ l1[c].mshr[x].valid /\ i \in DOMAIN p /\ p[i].cache = c /\ p[i].line = x
     /\ ReplyCount(p, c, x) = 1 /\ Below(p, i, Waited) = 0

LEMMA ReplyHasMSHR ==
  ASSUME NEW p \in Programs, Inv(p), NEW c \in Caches, NEW k \in 1 .. Len(l1[c].down), l1[c].down[k].kind = "REPLY"
  PROVE  LET x == l1[c].down[k].line
         IN x \in Lines /\ l1[c].down[k] \in RepliesOf(p, x) /\ Awaited(p, c, x)
<1> DEFINE q == l1[c].down
           x == q[k].line
           m == l1[c].mshr[x]
           i == m.main.id
<1>1. L1Type(p) /\ L2Type(p) /\ MSHRCarried(p) /\ Waited \in BOOLEAN
  BY InvParts
<1>2. q \in Seq(Messages(p))
  BY <1>1 DEF L1Type
<1>3. q[k] \in Messages(p)
  BY <1>2
<1>4. x \in Lines /\ q[k] \in RepliesOf(p, x)
  BY <1>3 DEF Messages, RepliesOf
<1>5. ReplyCount(p, c, x) \in Nat /\ ReplyCount(p, c, x) # 0
  <2> DEFINE P == RepliesOf(p, x)
  <2>1. q[k] \in P
    BY <1>4
  <2> HIDE DEF P, q
  <2>2. Count(q, P) \in Nat /\ (Count(q, P) = 0 <=> \A j \in 1 .. Len(q) : q[j] \notin P)
    BY <1>2, CountType
  <2>3. Count(q, P) # 0
    <3>1. k \in 1 .. Len(q)
      BY DEF q
    <3> QED BY <2>1, <2>2, <3>1
  <2> QED BY <2>2, <2>3 DEF ReplyCount, q, P
<1>6. m.valid
  BY <1>1, <1>4, <1>5 DEF MSHRCarried
<1>7. m.main \in Missed(p, c, x)
  <2>1. m \in MSHRs(Missed(p, c, x), 1 .. Ways1)
    BY Zenon, <1>1, <1>4 DEF L1Type
  <2> HIDE DEF m, x
  <2> QED BY <1>6, <2>1 DEF MSHRs
<1>8. m.main \in Requests(p) /\ m.main.line = x /\ m.main.cache = c
  BY Zenon, <1>7 DEF Missed
<1>9. i \in DOMAIN p /\ p[i].cache = c /\ p[i].line = x
  BY Zenon, <1>8, RequestType
<1>10. Below(p, i, Waited) \in Nat
  BY Zenon, <1>1, <1>9, NumbersNext DEF Numbers
<1>11. Below(p, i, Waited) = 1 - ReplyCount(p, c, x)
  BY Zenon, <1>1, <1>9 DEF MSHRCarried
<1>12. ReplyCount(p, c, x) = 1 /\ Below(p, i, Waited) = 0
  <2> DEFINE a == Below(p, i, Waited)
             b == ReplyCount(p, c, x)
  <2>1. a \in Nat /\ b \in Nat /\ b # 0 /\ a = 1 - b
    BY <1>5, <1>10, <1>11
  <2> HIDE DEF a, b
  <2>2. b = 1 /\ a = 0
    BY <2>1
  <2> QED BY <2>2 DEF a, b
<1> QED BY Zenon, <1>4, <1>6, <1>9, <1>12 DEF Awaited

\* A reply takes its way: the queue counts alike.
Installed(t, q, k, g, y) == t = [q EXCEPT ![k].stuck = g, ![k].wrb = y]

LEMMA ReplyInstalled ==
  ASSUME NEW p \in Programs, NEW q \in Seq(Messages(p)), NEW k \in 1 .. Len(q), q[k].kind = "REPLY",
         NEW g \in BOOLEAN, NEW y \in AnyLine, NEW t, Installed(t, q, k, g, y)
  PROVE  /\ t \in Seq(Messages(p))
         /\ \A x : Count(t, RepliesOf(p, x)) = Count(q, RepliesOf(p, x))
         /\ \A i \in DOMAIN p : Count(t, FlushesOf(p, i)) = Count(q, FlushesOf(p, i))
<1> DEFINE e == q[k]
           u == [e EXCEPT !.stuck = g]
           v == [u EXCEPT !.wrb = y]
<1>1. e \in Messages(p)
  OBVIOUS
<1>2. e = [kind |-> e.kind, line |-> e.line, sh |-> e.sh, to |-> e.to, own |-> e.own, flush |-> e.flush,
           dirty |-> e.dirty, stuck |-> e.stuck, wrb |-> e.wrb]
      /\ e.line \in Lines
  <2> HIDE DEF e
  <2> QED BY <1>1 DEF Messages, e
<1>3. t = [q EXCEPT ![k] = v]
  BY DEF Installed
<1>4. v \in Messages(p) /\ v.kind = e.kind /\ v.line = e.line
  <2> HIDE DEF e
  <2>1. u = [kind |-> e.kind, line |-> e.line, sh |-> e.sh, to |-> e.to, own |-> e.own, flush |-> e.flush,
             dirty |-> e.dirty, stuck |-> g, wrb |-> e.wrb]
    BY <1>2
  <2> HIDE DEF u
  <2>2. v = [kind |-> e.kind, line |-> e.line, sh |-> e.sh, to |-> e.to, own |-> e.own, flush |-> e.flush,
             dirty |-> e.dirty, stuck |-> g, wrb |-> y]
    BY <2>1
  <2> HIDE DEF v
  <2> QED BY <1>1, <1>2, <2>2 DEF Messages
<1> HIDE DEF v, u
<1>5. t \in Seq(Messages(p)) /\ Len(t) = Len(q) /\ t[k] = v /\ \A j \in 1 .. Len(q) : j # k => t[j] = q[j]
  BY <1>3, <1>4
<1>6. \A x : v \in RepliesOf(p, x) <=> e \in RepliesOf(p, x)
  BY <1>1, <1>4 DEF RepliesOf
<1>7. \A i \in DOMAIN p : v \notin FlushesOf(p, i) /\ e \notin FlushesOf(p, i)
  BY <1>4 DEF FlushesOf
<1>8. \A P : (v \in P <=> e \in P) => Count(t, P) = Count(q, P)
  <2> SUFFICES ASSUME NEW P, v \in P <=> e \in P PROVE Count(t, P) = Count(q, P)
    OBVIOUS
  <2>1. Len(t) = Len(q) /\ \A j \in 1 .. Len(t) : t[j] \in P <=> q[j] \in P
    BY Zenon, <1>5
  <2> QED BY <2>1, CountSame
<1> QED BY <1>5, <1>6, <1>7, <1>8

\* A reply that has to wait for room: its line is in its way.
LEMMA Wait1Keeps ==
  ASSUME NEW p \in Programs, Inv(p), NEW c \in Caches, NEW i \in 1 .. Len(l1[c].down),
         l1[c].down[i].kind = "REPLY", NEW v \in 1 .. Ways1, NEW line \in Tags, NEW y0 \in AnyLine,
         Wait1(c, i, v, line, y0), bus' = bus
  PROVE  Inv(p)'
<1>1. L1Type(p) /\ L2Type(p) /\ BusLife(p) /\ RestType(p)
  BY InvParts
<1>2. /\ l1 = [e \in Caches |-> l1[e]]
      /\ l1[c] = [req |-> l1[c].req, down |-> l1[c].down, ways |-> l1[c].ways, mshr |-> l1[c].mshr]
      /\ L1Fits(p, c, l1[c].req, l1[c].down, l1[c].ways, l1[c].mshr)
  BY <1>1, L1Shape
<1>3. l1[c].down \in Seq(Messages(p)) /\ l1[c].ways \in [1 .. Ways1 -> Tags]
      /\ l1[c].mshr = [y \in Lines |-> l1[c].mshr[y]]
  BY <1>2 DEF L1Fits
<1>5. PICK x \in Lines : x = l1[c].down[i].line
  BY Zenon, ReplyHasMSHR
<1> DEFINE m == l1[c].mshr[x]
           g == TRUE
<1>6. m \in MSHRs(Missed(p, c, x), 1 .. Ways1)
  BY Zenon, <1>2 DEF L1Fits
<1>7. /\ done' = done /\ l2' = l2
      /\ l1' = [l1 EXCEPT ![c].ways[v] = line, ![c].mshr[x].way = v, ![c].down[i].stuck = g,
                          ![c].down[i].wrb = y0]
  BY Zenon, <1>5 DEF Wait1
<1> DEFINE u == [l1[c].mshr[x] EXCEPT !.way = v]
           M == [l1[c].mshr EXCEPT ![x] = u]
           W == [l1[c].ways EXCEPT ![v] = line]
           T == [l1[c].down EXCEPT ![i].stuck = g, ![i].wrb = y0]
<1>9. g \in BOOLEAN
  OBVIOUS
<1> HIDE DEF g
<1>10. W \in [1 .. Ways1 -> Tags]
  BY Zenon, <1>3
<1>same. l2' = l2 /\ bus' = bus
  BY Zenon, <1>7
<1>11. l1'[c] = [req |-> l1[c].req, down |-> T, ways |-> W, mshr |-> M]
       /\ l1' = [e \in Caches |-> l1'[e]] /\ \A e \in Caches : e # c => l1'[e] = l1[e]
  <2> DEFINE y == y0
             o == line
  <2>1. l1' = [l1 EXCEPT ![c].ways[v] = o, ![c].mshr[x].way = v, ![c].down[i].stuck = g, ![c].down[i].wrb = y]
    BY Zenon, <1>7
  <2> HIDE DEF o, y
  <2> DEFINE s1 == [l1 EXCEPT ![c].ways[v] = o]
             s2 == [s1 EXCEPT ![c].mshr[x].way = v]
             s3 == [s2 EXCEPT ![c].down[i].stuck = g]
             s4 == [s3 EXCEPT ![c].down[i].wrb = y]
             T1 == [l1[c].down EXCEPT ![i].stuck = g]
             X == [req |-> l1[c].req, down |-> l1[c].down, ways |-> l1[c].ways, mshr |-> l1[c].mshr]
  <2>2. l1' = s4
    BY <2>1
  <2>3. s1 = [e \in Caches |-> s1[e]] /\ (\A e \in Caches : e # c => s1[e] = l1[e])
        /\ s1[c] = [X EXCEPT !.ways = W]
    BY <1>2 DEF o
  <2>3a. s1[c] = [req |-> l1[c].req, down |-> l1[c].down, ways |-> W, mshr |-> l1[c].mshr]
    BY <2>3
  <2> HIDE DEF s1
  <2>4. s2 = [e \in Caches |-> s2[e]] /\ (\A e \in Caches : e # c => s2[e] = l1[e])
        /\ s2[c] = [req |-> l1[c].req, down |-> l1[c].down, ways |-> W, mshr |-> M]
    BY <2>3, <2>3a
  <2> HIDE DEF s2
  <2>5. s3 = [e \in Caches |-> s3[e]] /\ (\A e \in Caches : e # c => s3[e] = l1[e])
        /\ s3[c] = [req |-> l1[c].req, down |-> T1, ways |-> W, mshr |-> M]
    <3> DEFINE R == s2[c]
               d == l1[c].down
    <3>1. R = [req |-> l1[c].req, down |-> d, ways |-> W, mshr |-> M]
      BY <2>4
    <3>2. s3 = [e \in Caches |-> s3[e]] /\ (\A e \in Caches : e # c => s3[e] = l1[e])
          /\ s3[c] = [R EXCEPT !.down[i].stuck = g]
      BY <2>4
    <3> HIDE DEF R, s3, d, W, M
    <3>3. [R EXCEPT !.down[i].stuck = g] = [req |-> l1[c].req, down |-> [d EXCEPT ![i].stuck = g], ways |-> W, mshr |-> M]
      BY <3>1
    <3> QED BY <3>2, <3>3 DEF d
  <2> HIDE DEF s3
  <2>6. s4 = [e \in Caches |-> s4[e]] /\ (\A e \in Caches : e # c => s4[e] = l1[e])
        /\ s4[c] = [req |-> l1[c].req, down |-> [T1 EXCEPT ![i].wrb = y], ways |-> W, mshr |-> M]
    <3> DEFINE R == s3[c]
    <3> HIDE DEF T1, W, M
    <3>1. R = [req |-> l1[c].req, down |-> T1, ways |-> W, mshr |-> M]
      BY <2>5
    <3>2. s4 = [e \in Caches |-> s4[e]] /\ (\A e \in Caches : e # c => s4[e] = l1[e])
          /\ s4[c] = [R EXCEPT !.down[i].wrb = y]
      BY <2>5
    <3> HIDE DEF R, s4
    <3>3. [R EXCEPT !.down[i].wrb = y] = [req |-> l1[c].req, down |-> [T1 EXCEPT ![i].wrb = y], ways |-> W, mshr |-> M]
      BY <3>1
    <3> QED BY <3>2, <3>3
  <2>7. [T1 EXCEPT ![i].wrb = y] = T
    BY DEF y
  <2> HIDE DEF s4, W, M, T, T1
  <2> QED BY Zenon, <2>2, <2>6, <2>7
<1>12. u \in MSHRs(Missed(p, c, x), 1 .. Ways1) /\ Alike(u, l1[c].mshr[x])
  <2> DEFINE S == Missed(p, c, x)
             ways == 1 .. Ways1
  <2>1. m \in MSHRs(S, ways) /\ v \in ways /\ u = [m EXCEPT !.way = v]
    BY <1>6
  <2> HIDE DEF m, u, S, ways
  <2>2. u \in MSHRs(S, ways) /\ Alike(u, m)
    BY <2>1, MSHRChanged
  <2> QED BY <2>2 DEF m, S, ways
<1> HIDE DEF u
<1>13. /\ M = [y \in Lines |-> M[y]] /\ \A y \in Lines : M[y] \in MSHRs(Missed(p, c, y), 1 .. Ways1)
       /\ \A y \in Lines : Alike(M[y], l1[c].mshr[y])
  <2> DEFINE f == l1[c].mshr
  <2>1. f = [y \in Lines |-> f[y]] /\ \A y \in Lines : f[y] \in MSHRs(Missed(p, c, y), 1 .. Ways1)
    BY <1>2 DEF L1Fits
  <2> HIDE DEF f
  <2>2. M = [f EXCEPT ![x] = u] /\ Alike(u, f[x])
    BY <1>12 DEF f
  <2>3. M = [y \in Lines |-> M[y]] /\ M[x] = u /\ \A y \in Lines : y # x => M[y] = f[y]
    BY <2>1, <2>2
  <2>4. \A y \in Lines : M[y] \in MSHRs(Missed(p, c, y), 1 .. Ways1) /\ Alike(M[y], f[y])
    BY <1>12, <2>1, <2>2, <2>3 DEF Alike
  <2> QED BY <2>3, <2>4 DEF f
<1>14. /\ T \in Seq(Messages(p))
       /\ \A y : Count(T, RepliesOf(p, y)) = Count(l1[c].down, RepliesOf(p, y))
       /\ \A j \in DOMAIN p : Count(T, FlushesOf(p, j)) = Count(l1[c].down, FlushesOf(p, j))
  <2> DEFINE b == y0
             q == l1[c].down
  <2>1. Installed(T, q, i, g, b) /\ b \in AnyLine /\ q \in Seq(Messages(p)) /\ i \in 1 .. Len(q) /\ q[i].kind = "REPLY"
    BY Zenon, <1>3 DEF Installed
  <2> HIDE DEF b, T, q
  <2>2. /\ T \in Seq(Messages(p))
        /\ \A y : Count(T, RepliesOf(p, y)) = Count(q, RepliesOf(p, y))
        /\ \A j \in DOMAIN p : Count(T, FlushesOf(p, j)) = Count(q, FlushesOf(p, j))
    BY <1>9, <2>1, ReplyInstalled
  <2> QED BY Zenon, <2>2 DEF q
<1> HIDE DEF W, M, T
<1>15. L1Becomes(c, l1[c].req, T, W, M)
  BY <1>11 DEF L1Becomes
<1>16. L1Fits(p, c, l1[c].req, T, W, M)
  BY <1>2, <1>10, <1>13, <1>14 DEF L1Fits
<1>17. /\ L1Type(p)' /\ l1'[c].req = l1[c].req /\ l1'[c].down = T /\ l1'[c].mshr = M
       /\ \A e \in Caches : e # c => l1'[e] = l1[e]
  BY <1>1, <1>15, <1>16, L1Kept
<1>18. SameMSHRs
  BY <1>13, <1>17 DEF SameMSHRs, SameMains, Alike
<1>19. SameReplies(p) /\ SameFlushes(p)
  <2>1. \A e \in Caches, y \in Lines : ReplyCount(p, e, y)' = ReplyCount(p, e, y)
    BY <1>14, <1>17 DEF ReplyCount
  <2>2. \A j \in DOMAIN p : InFlush(p, j)' = InFlush(p, j)
    <3>1. "D" \in Caches
      BY DEF Caches
    <3> QED BY <1>14, <1>17, <3>1 DEF InFlush
  <2> QED BY <2>1, <2>2 DEF SameReplies, SameFlushes
<1>20. SameBelow(p)
  <2>1. \A j \in DOMAIN p, w \in BOOLEAN : AtL1(p, j, w)' = AtL1(p, j, w)
    <3>1. \A e \in Caches : l1'[e].req = l1[e].req
      BY <1>17
    <3> QED BY <3>1, SameL1
  <2>2. \A j \in DOMAIN p, w \in BOOLEAN :
          AtL2(p, j, w)' = AtL2(p, j, w) /\ InL2(p, j, w)' = InL2(p, j, w) /\ InData(p, j, w)' = InData(p, j, w)
    BY <1>1, <1>same, UnchangedL2
  <2> QED BY <2>1, <2>2 DEF SameBelow, Below
<1>21. L2Type(p)' /\ BusLife(p)' /\ RestType(p)'
  BY <1>1, <1>7, <1>same, UnchangedL2, UnchangedRest
<1> QED BY Zenon, <1>7, <1>17, <1>18, <1>19, <1>20, <1>21, BelowKeeps

\* An MSHR of the first level holds the accesses that its reply performs, and no other.
LEMMA PerformedByReply ==
  ASSUME NEW p \in Programs, L1Type(p), NEW c \in Caches, NEW x \in Lines, l1[c].mshr[x].valid, NEW j \in DOMAIN p
  PROVE  LET ids == {l1[c].mshr[x].main.id} \cup Ids(l1[c].mshr[x].coal)
         IN /\ j \in ids => p[j].cache = c /\ p[j].line = x
            /\ p[j].cache = c /\ p[j].line = x => (InMSHR(p, j) = 0 <=> j \notin ids)
<1> DEFINE m == l1[c].mshr[x]
           S == Missed(p, c, x)
           q == m.coal
           P == OfAccess(p, j)
<1>1. m.main \in S /\ q \in Seq(S)
  <2>1. m \in MSHRs(S, 1 .. Ways1) /\ m.valid
    BY DEF L1Type
  <2> HIDE DEF m, S
  <2> QED BY <2>1 DEF MSHRs
<1>2. \A r \in S : r \in Requests(p) /\ r.line = x /\ r.cache = c /\ r.line = p[r.id].line /\ r.cache = p[r.id].cache
  BY RequestType DEF Missed
<1>3. \A r \in S : r \in P <=> r.id = j
  BY <1>2, OneAccess
<1> HIDE DEF S
<1>4. ASSUME j \in {m.main.id} \cup Ids(q) PROVE p[j].cache = c /\ p[j].line = x
  <2>1. CASE j = m.main.id
    BY <1>1, <1>2, <2>1
  <2>2. CASE j \in Ids(q)
    <3> HIDE DEF m, q
    <3>1. PICK k \in DOMAIN q : j = q[k].id
      BY <2>2 DEF Ids
    <3>2. q[k] \in S
      BY <1>1, <3>1
    <3> QED BY <1>2, <3>1, <3>2
  <2> QED BY <1>4, <2>1, <2>2
<1>5. Count(q, P) \in Nat /\ (Count(q, P) = 0 <=> \A k \in 1 .. Len(q) : q[k] \notin P)
  <2> HIDE DEF q, P
  <2> QED BY <1>1, CountType
<1>6. (\A k \in 1 .. Len(q) : q[k] \notin P) <=> j \notin Ids(q)
  <2> HIDE DEF q
  <2>1. DOMAIN q = 1 .. Len(q) /\ \A k \in 1 .. Len(q) : q[k] \in S
    BY <1>1
  <2>2. \A k \in 1 .. Len(q) : q[k] \in P <=> q[k].id = j
    BY <1>3, <2>1
  <2> QED BY <2>1, <2>2 DEF Ids
<1>7. One(m.main, P) \in Nat /\ (One(m.main, P) = 0 <=> j # m.main.id)
  <2>1. m.main \in P <=> m.main.id = j
    BY <1>1, <1>3
  <2> HIDE DEF m, P
  <2> QED BY <2>1, OneType
<1>8. ASSUME p[j].cache = c, p[j].line = x PROVE InMSHR(p, j) = 0 <=> j \notin {m.main.id} \cup Ids(q)
  <2>1. InMSHR(p, j) = One(m.main, P) + Count(q, P)
    BY <1>8 DEF InMSHR
  <2> HIDE DEF P, q, m
  <2> QED BY <1>5, <1>6, <1>7, <2>1
<1> QED BY <1>4, <1>8

\* A victim of the first level joins the requests of the second: it is no access.
LEMMA VictimLeaves ==
  ASSUME NEW p \in Programs, L2Type(p), BusLife(p), NEW y \in AnyLine,
         l2' = IF y = NoLine THEN l2
               ELSE [l2 EXCEPT !.req = Append(@, [NoRequest EXCEPT !.kind = "WBACK", !.line = y])]
  PROVE  /\ L2Type(p)' /\ BusLife(p)'
         /\ \A i \in DOMAIN p, w \in BOOLEAN :
              AtL2(p, i, w)' = AtL2(p, i, w) /\ InL2(p, i, w)' = InL2(p, i, w) /\ InData(p, i, w)' = InData(p, i, w)
<1>1. CASE y = NoLine
  BY <1>1, UnchangedL2
<1>2. CASE y # NoLine
  <2> DEFINE r == [NoRequest EXCEPT !.kind = "WBACK", !.line = y]
             q == Append(l2.req, r)
             g == FALSE
  <2>1. r \in WriteBacks
    <3>1. NoRequest = [id |-> 0, kind |-> "none", line |-> NoLine, cache |-> "D", progress |-> 0, l1mshr |-> g,
                       sh |-> g] /\ g \in BOOLEAN /\ ~g
      BY DEF NoRequest
    <3> HIDE DEF g
    <3> DEFINE o == NoRequest
               s == [o EXCEPT !.kind = "WBACK"]
    <3>3. o = [id |-> 0, kind |-> "none", line |-> NoLine, cache |-> "D", progress |-> 0, l1mshr |-> g, sh |-> g]
      BY <3>1
    <3>4. r = [s EXCEPT !.line = y]
      OBVIOUS
    <3> HIDE DEF o, r
    <3>5. s = [id |-> 0, kind |-> "WBACK", line |-> NoLine, cache |-> "D", progress |-> 0, l1mshr |-> g, sh |-> g]
      BY <3>3
    <3> HIDE DEF s
    <3>2. r = [id |-> 0, kind |-> "WBACK", line |-> y, cache |-> "D", progress |-> 0, l1mshr |-> g, sh |-> g]
      BY <3>4, <3>5
    <3> HIDE DEF r
    <3> QED BY <3>1, <3>2 DEF WriteBacks, AnyRequest, Kinds, Caches
  <2>2. /\ l2 = [req |-> l2.req, reply |-> l2.reply, cohe |-> l2.cohe, data |-> l2.data, ways |-> l2.ways,
                 mshr |-> l2.mshr]
        /\ L2Fits(p, l2.req, l2.reply, l2.cohe, l2.data, l2.ways, l2.mshr)
    BY L2Shape
  <2>3. l2' = [l2 EXCEPT !.req = q]
    BY <1>2
  <2> HIDE DEF r
  <2>4. L2Becomes(q, l2.reply, l2.cohe, l2.data, l2.ways, l2.mshr)
    BY <2>2, <2>3 DEF L2Becomes
  <2>5. l2'.req = q /\ l2'.reply = l2.reply /\ l2'.cohe = l2.cohe /\ l2'.data = l2.data /\ l2'.mshr = l2.mshr
    BY <2>4 DEF L2Becomes
  <2>6. q \in Seq(Requests(p) \cup WriteBacks)
        /\ \A i \in DOMAIN p, w \in BOOLEAN : AtL2(p, i, w)' = AtL2(p, i, w) + One(r, Holding(p, i, w))
    BY <2>1, <2>5, JoinsL2
  <2>7. L2Fits(p, q, l2.reply, l2.cohe, l2.data, l2.ways, l2.mshr)
    BY <2>2, <2>6 DEF L2Fits
  <2>8. L2Type(p)'
    BY <2>4, <2>7, L2Kept
  <2>9. BusLife(p)'
    <3>1. SameFills(p) /\ SameLives
      BY <2>5 DEF SameFills, SameLives
    <3> QED BY <2>5, <3>1, BusLifeKept
  <2>10. ASSUME NEW i \in DOMAIN p, NEW w \in BOOLEAN PROVE AtL2(p, i, w)' = AtL2(p, i, w)
    <3>1. One(r, Holding(p, i, w)) = 0
      BY <2>1, OneRequest, OneType
    <3>2. AtL2(p, i, w) \in Nat
      <4>1. l2.req \in Seq(Requests(p) \cup WriteBacks)
        BY DEF L2Type
      <4> QED BY <4>1, CountType DEF AtL2
    <3> QED BY <2>6, <3>1, <3>2
  <2>11. \A i \in DOMAIN p, w \in BOOLEAN : InL2(p, i, w)' = InL2(p, i, w) /\ InData(p, i, w)' = InData(p, i, w)
    BY <2>5, SameL2
  <2> QED BY <2>8, <2>9, <2>10, <2>11
<1> QED BY <1>1, <1>2

\* A reply that is over: its victim leaves, its accesses are performed.
LEMMA Release1Keeps ==
  ASSUME NEW p \in Programs, Inv(p), NEW c \in Caches, NEW i \in 1 .. Len(l1[c].down),
         l1[c].down[i].kind = "REPLY", NEW v \in 1 .. Ways1, NEW line \in Tags, NEW y0 \in AnyLine,
         Release1(c, i, v, line, y0), bus' = bus
  PROVE  Inv(p)'
<1>1. /\ L1Type(p) /\ L2Type(p) /\ RestType(p) /\ BusLife(p) /\ MSHRCarried(p) /\ AccessHeld(p) /\ ~done.fault
      /\ Waited \in BOOLEAN /\ Alone \in BOOLEAN
  BY InvParts
<1>2. /\ l1 = [e \in Caches |-> l1[e]]
      /\ l1[c] = [req |-> l1[c].req, down |-> l1[c].down, ways |-> l1[c].ways, mshr |-> l1[c].mshr]
      /\ L1Fits(p, c, l1[c].req, l1[c].down, l1[c].ways, l1[c].mshr)
  BY <1>1, L1Shape
<1>3. l1[c].down \in Seq(Messages(p)) /\ l1[c].ways \in [1 .. Ways1 -> Tags]
      /\ l1[c].mshr = [y \in Lines |-> l1[c].mshr[y]]
  BY <1>2 DEF L1Fits
<1>5. PICK x \in Lines : x = l1[c].down[i].line
  BY Zenon, ReplyHasMSHR
<1> DEFINE k == l1[c].down[i]
           m == l1[c].mshr[x]
           a == m.main.id
           ids == {m.main.id} \cup Ids(m.coal)
<1>6. /\ k \in RepliesOf(p, x) /\ m.valid /\ a \in DOMAIN p /\ p[a].cache = c /\ p[a].line = x
      /\ ReplyCount(p, c, x) = 1 /\ Below(p, a, Waited) = 0
  <2>2. l1[c].down[i] \in RepliesOf(p, l1[c].down[i].line) /\ Awaited(p, c, l1[c].down[i].line)
    BY ReplyHasMSHR
  <2>3. k \in RepliesOf(p, x) /\ Awaited(p, c, x)
    BY Zenon, <1>5, <2>2
  <2> QED BY <2>3 DEF Awaited
<1> DEFINE T == Without(l1[c].down, i)
           n == IF m.pend # "none" /\ line.state # "INVALID" THEN Invalid ELSE line
           W == [l1[c].ways EXCEPT ![v] = n]
           M == [l1[c].mshr EXCEPT ![x] = NoMSHR]
<1>8. /\ done' = Perform(ids) /\ bus' = bus
      /\ l1' = [l1 EXCEPT ![c].down = T, ![c].mshr[x] = NoMSHR, ![c].ways[v] = n]
      /\ l2' = IF y0 = NoLine THEN l2
               ELSE [l2 EXCEPT !.req = Append(@, [NoRequest EXCEPT !.kind = "WBACK", !.line = y0])]
  BY Zenon, <1>5 DEF Release1
<1>9. /\ k \in Messages(p) /\ T \in Seq(Messages(p))
      /\ \A P : /\ Count(l1[c].down, P) = Count(T, P) + One(k, P)
                /\ Count(T, P) \in Nat
  BY <1>1, LeavesDown
<1>10. n \in Tags
  <2>1. Invalid \in Tags
    BY DEF Invalid, Tags, AnyLine
  <2> QED BY <2>1
<1>11. W \in [1 .. Ways1 -> Tags]
  <2> HIDE DEF n
  <2> QED BY <1>3, <1>10
<1>12. /\ M = [y \in Lines |-> M[y]] /\ \A y \in Lines : M[y] \in MSHRs(Missed(p, c, y), 1 .. Ways1)
       /\ M[x] = NoMSHR /\ \A y \in Lines : y # x => M[y] = l1[c].mshr[y]
  <2> DEFINE f == l1[c].mshr
  <2>1. f = [y \in Lines |-> f[y]] /\ \A y \in Lines : f[y] \in MSHRs(Missed(p, c, y), 1 .. Ways1)
    BY <1>2 DEF L1Fits
  <2>2. M = [f EXCEPT ![x] = NoMSHR]
    OBVIOUS
  <2>3. NoMSHR \in MSHRs(Missed(p, c, x), 1 .. Ways1)
    <3>1. Missed(p, c, x) \in SUBSET Requests(p)
      BY DEF Missed
    <3> QED BY <3>1, MSHRsType, HierarchyAssumption
  <2> HIDE DEF f, M
  <2>4. M = [y \in Lines |-> M[y]] /\ M[x] = NoMSHR /\ \A y \in Lines : y # x => M[y] = f[y]
    BY <2>1, <2>2
  <2>5. \A y \in Lines : M[y] \in MSHRs(Missed(p, c, y), 1 .. Ways1)
    BY <2>1, <2>3, <2>4
  <2> QED BY <2>4, <2>5 DEF f
<1>13. L1Becomes(c, l1[c].req, T, W, M)
  <2> HIDE DEF T, n
  <2>1. l1'[c] = [req |-> l1[c].req, down |-> T, ways |-> W, mshr |-> M]
    BY <1>2, <1>8
  <2>2. l1' = [e \in Caches |-> l1'[e]] /\ \A e \in Caches : e # c => l1'[e] = l1[e]
    BY <1>2, <1>8
  <2> HIDE DEF W, M
  <2> QED BY <2>1, <2>2 DEF L1Becomes
<1> HIDE DEF T, W, M
<1>14. L1Fits(p, c, l1[c].req, T, W, M)
  BY <1>2, <1>9, <1>11, <1>12 DEF L1Fits
<1>15. /\ L1Type(p)' /\ l1'[c].req = l1[c].req /\ l1'[c].down = T /\ l1'[c].mshr = M
       /\ \A e \in Caches : e # c => l1'[e] = l1[e]
  BY <1>1, <1>13, <1>14, L1Kept
<1>16. /\ L2Type(p)' /\ BusLife(p)'
       /\ \A j \in DOMAIN p, w \in BOOLEAN :
            AtL2(p, j, w)' = AtL2(p, j, w) /\ InL2(p, j, w)' = InL2(p, j, w) /\ InData(p, j, w)' = InData(p, j, w)
  BY Zenon, <1>1, <1>8, VictimLeaves
<1>17. /\ RestType(p)' /\ done'.fault = done.fault /\ Issued' = Issued
       /\ \A j \in DOMAIN p : done'.count[j] = done.count[j] + One(j, ids)
  BY Zenon, <1>1, <1>8, Performed
<1>18. \A j \in DOMAIN p, w \in BOOLEAN : Below(p, j, w)' = Below(p, j, w)
  <2>1. \A j \in DOMAIN p, w \in BOOLEAN : AtL1(p, j, w)' = AtL1(p, j, w)
    <3>1. \A e \in Caches : l1'[e].req = l1[e].req
      BY <1>15
    <3> QED BY <3>1, SameL1
  <2> QED BY <1>16, <2>1 DEF Below
<1>19. \A j \in DOMAIN p : InMSHR(p, j)' = IF p[j].cache = c /\ p[j].line = x THEN 0 ELSE InMSHR(p, j)
  <2>1. l1'[c].mshr[x] = NoMSHR /\ OtherMSHRs1(c, x)
    BY <1>12, <1>15 DEF OtherMSHRs1
  <2> QED BY <1>1, <2>1, FreedInL1
<1>20. \A j \in DOMAIN p : InFlush(p, j)' = InFlush(p, j)
  <2> SUFFICES ASSUME NEW j \in DOMAIN p PROVE InFlush(p, j)' = InFlush(p, j)
    OBVIOUS
  <2>1. One(k, FlushesOf(p, j)) = 0
    <3>1. k \notin FlushesOf(p, j)
      BY <1>6 DEF FlushesOf, RepliesOf
    <3> QED BY <3>1 DEF One
  <2>2. Count(l1[c].down, FlushesOf(p, j)) = Count(T, FlushesOf(p, j))
    BY <1>9, <2>1
  <2>3. CASE c = "D"
    BY <1>15, <2>2, <2>3 DEF InFlush
  <2>4. CASE c # "D"
    <3>1. "D" \in Caches
      BY DEF Caches
    <3> QED BY <1>15, <2>4, <3>1 DEF InFlush
  <2> QED BY <2>3, <2>4
<1>21. /\ ReplyCount(p, c, x)' = 0
       /\ \A e \in Caches, y \in Lines : e # c \/ y # x => ReplyCount(p, e, y)' = ReplyCount(p, e, y)
  <2>1. ReplyCount(p, c, x)' = 0
    <3>1. One(k, RepliesOf(p, x)) = 1
      BY <1>6 DEF One
    <3>2. Count(l1[c].down, RepliesOf(p, x)) = Count(T, RepliesOf(p, x)) + One(k, RepliesOf(p, x))
          /\ Count(T, RepliesOf(p, x)) \in Nat
      BY <1>9
    <3> QED BY <1>6, <1>15, <3>1, <3>2 DEF ReplyCount
  <2>2. ASSUME NEW e \in Caches, NEW y \in Lines, e # c PROVE ReplyCount(p, e, y)' = ReplyCount(p, e, y)
    BY <1>15, <2>2 DEF ReplyCount
  <2>3. ASSUME NEW y \in Lines, y # x PROVE ReplyCount(p, c, y)' = ReplyCount(p, c, y)
    <3>1. One(k, RepliesOf(p, y)) = 0
      <4>1. k \notin RepliesOf(p, y)
        BY <1>6, <2>3 DEF RepliesOf
      <4> QED BY <4>1 DEF One
    <3>2. Count(l1[c].down, RepliesOf(p, y)) = Count(T, RepliesOf(p, y))
      BY <1>9, <3>1
    <3> QED BY <1>15, <3>2 DEF ReplyCount
  <2> QED BY <2>1, <2>2, <2>3
<1> HIDE DEF k, ids
<1>22. MSHRCarried(p)'
  <2>1. ASSUME NEW j \in DOMAIN p
        PROVE  Below(p, j, Waited)' = IF l1'[p[j].cache].mshr[p[j].line].main.id = j
                                      THEN 1 - ReplyCount(p, p[j].cache, p[j].line)' ELSE 0
    <3>1. p[j].cache \in Caches /\ p[j].line \in Lines /\ j # 0
      BY ProgramType
    <3>2. Below(p, j, Waited) = IF l1[p[j].cache].mshr[p[j].line].main.id = j
                                THEN 1 - ReplyCount(p, p[j].cache, p[j].line) ELSE 0
      BY <1>1 DEF MSHRCarried
    <3>3. Below(p, j, Waited)' = Below(p, j, Waited)
      BY <1>1, <1>18
    <3>4. CASE p[j].cache = c /\ p[j].line = x
      <4>1. l1'[p[j].cache].mshr[p[j].line].main.id = 0
        BY <1>12, <1>15, <3>4 DEF NoMSHR, NoRequest
      <4>2. Below(p, j, Waited) = 0
        BY <1>6, <3>2, <3>4
      <4> QED BY <3>1, <3>3, <4>1, <4>2
    <3>5. CASE ~(p[j].cache = c /\ p[j].line = x)
      <4>1. l1'[p[j].cache].mshr[p[j].line] = l1[p[j].cache].mshr[p[j].line]
        BY <1>12, <1>15, <3>1, <3>5
      <4>2. ReplyCount(p, p[j].cache, p[j].line)' = ReplyCount(p, p[j].cache, p[j].line)
        BY <1>21, <3>1, <3>5
      <4> QED BY <3>2, <3>3, <4>1, <4>2
    <3> QED BY <3>4, <3>5
  <2>2. ASSUME NEW e \in Caches, NEW y \in Lines, ~l1'[e].mshr[y].valid
        PROVE  ReplyCount(p, e, y)' = 0
    <3>1. CASE e = c /\ y = x
      BY <1>21, <3>1
    <3>2. CASE ~(e = c /\ y = x)
      <4>1. l1'[e].mshr[y] = l1[e].mshr[y]
        BY <1>12, <1>15, <3>2
      <4>2. ReplyCount(p, e, y) = 0
        BY <1>1, <2>2, <4>1 DEF MSHRCarried
      <4> QED BY <1>21, <3>2, <4>2
    <3> QED BY <3>1, <3>2
  <2> QED BY <2>1, <2>2 DEF MSHRCarried
<1>23. Numbers(p)
  BY <1>1, NumbersNext
<1>24. ASSUME NEW j \in DOMAIN p PROVE Held(p, j)' = Held(p, j)
  <2> DEFINE b == Below(p, j, Alone)
             f == InFlush(p, j)
             h == InMSHR(p, j)
             d == done.count[j]
             o == One(j, ids)
  <2>1. b \in Nat /\ f \in Nat /\ h \in Nat /\ d \in Nat /\ o \in Nat
    <3>1. d \in Nat
      BY InvParts
    <3> QED BY <1>1, <1>23, <3>1, OneType DEF Numbers
  <2>2. Held(p, j) = d + b + h + f /\ Held(p, j)' = (d + o) + b + InMSHR(p, j)' + f
    BY <1>1, <1>17, <1>18, <1>20 DEF Held
  <2>3. d + b + h + f = 1 \/ d + b + h + f = 0
    BY <1>1 DEF AccessHeld
  <2>4. (j \in ids => p[j].cache = c /\ p[j].line = x)
        /\ (p[j].cache = c /\ p[j].line = x => (h = 0 <=> j \notin ids))
    BY <1>1, <1>6, PerformedByReply DEF ids
  <2>5. h \in {0, 1}
    <3> HIDE DEF b, f, h, d
    <3> QED BY <2>1, <2>3
  <2>6. InMSHR(p, j)' + o = h
    <3>1. CASE p[j].cache = c /\ p[j].line = x
      <4>1. InMSHR(p, j)' = 0
        BY <1>19, <3>1
      <4>2. o = h
        BY <2>4, <2>5, <3>1 DEF One
      <4> QED BY <2>1, <4>1, <4>2
    <3>2. CASE ~(p[j].cache = c /\ p[j].line = x)
      <4>1. InMSHR(p, j)' = h
        BY <1>19, <3>2
      <4>2. o = 0
        BY <2>4, <3>2 DEF One
      <4> QED BY <2>1, <4>1, <4>2
    <3> QED BY <3>1, <3>2
  <2>7. InMSHR(p, j)' \in Nat
    BY <1>19, <2>1
  <2> DEFINE hh == InMSHR(p, j)'
  <2>8. hh \in Nat /\ hh + o = h /\ Held(p, j)' = (d + o) + b + hh + f
    BY <2>2, <2>6, <2>7
  <2> HIDE DEF b, f, h, d, o, hh
  <2> QED BY <2>1, <2>2, <2>8
<1>25. AccessHeld(p)'
  BY <1>1, <1>17, <1>24, HeldKept
<1> QED BY <1>1, <1>15, <1>16, <1>17, <1>22, <1>25 DEF Inv

\* The line a reply installs, and the one that leaves.
LEMMA FilledType ==
  ASSUME NEW p \in Programs, Inv(p), NEW c \in Caches, NEW i \in 1 .. Len(l1[c].down),
         l1[c].down[i].kind = "REPLY", NEW w \in 1 .. Ways1
  PROVE  /\ Filled(c, l1[c].down[i], w) \in Tags
         /\ WrittenBack(c, l1[c].down[i], w) \in AnyLine
<1>1. l1[c].ways[w] \in Tags
  <2>1. l1[c].ways \in [1 .. Ways1 -> Tags]
    BY InvParts DEF L1Type
  <2> QED BY <2>1
<1>2. l1[c].down[i].line \in Lines
  BY ReplyHasMSHR
<1> DEFINE e == l1[c].down[i]
           t == l1[c].ways[w]
<1>3. t.tag \in AnyLine /\ [t EXCEPT !.state = "PR_DY"] \in Tags
  <2> HIDE DEF t
  <2>1. t \in Tags
    BY <1>1 DEF t
  <2> QED BY <2>1 DEF Tags
<1>4. NoLine \in AnyLine /\ e.line \in AnyLine
  BY <1>2 DEF AnyLine
<1>5. \A b : [tag |-> e.line, state |-> IF b THEN "SH_CL" ELSE "PR_CL"] \in Tags
  <2> HIDE DEF e
  <2> QED BY <1>4 DEF Tags
<1>6. Filled(c, e, w) \in Tags
  <2>1. CASE l1[c].mshr[e.line].miss = 0
    BY Zenon, <1>3, <2>1 DEF Filled
  <2>2. CASE l1[c].mshr[e.line].miss # 0
    BY Zenon, <1>5, <2>2 DEF Filled
  <2> QED BY <2>1, <2>2
<1>7. WrittenBack(c, e, w) \in AnyLine
  BY Zenon, <1>3, <1>4 DEF WrittenBack
<1> QED BY <1>6, <1>7

LEMMA RepliesNext ==
  ASSUME NEW p \in Programs, Inv(p), NEW c \in Caches, NEW kind
  PROVE  \A i \in Next1(c, kind) : i \in 1 .. Len(l1[c].down) /\ l1[c].down[i].kind = kind
<1>1. l1[c].down \in Seq(Messages(p))
  BY InvParts DEF L1Type
<1> QED BY <1>1 DEF Next1

LEMMA Reply1Keeps ==
  ASSUME NEW p \in Programs, Inv(p), NEW c \in Caches, Reply1(c)
  PROVE  Inv(p)'
<1> DEFINE Taken(e) == IF l1[c].mshr[e.line].miss = 2 THEN Victims(l1[c].ways, {}) ELSE {l1[c].mshr[e.line].way}
           Call(i, e, w) ==
             LET y == WrittenBack(c, e, w)
             IN IF y # NoLine /\ Len(l2.req) >= L2_REQUEST THEN Wait1(c, i, w, Filled(c, e, w), y)
                ELSE Release1(c, i, w, Filled(c, e, w), y)
           Effect(i, e) ==
             /\ IF ~l1[c].mshr[e.line].valid THEN done' = [done EXCEPT !.fault = TRUE] /\ UNCHANGED <<l1, l2>>
                ELSE \E w \in Taken(e) : Call(i, e, w)
             /\ UNCHANGED bus
<1>1. PICK i \in 1 .. Len(l1[c].down) : l1[c].down[i].kind = "REPLY" /\ Effect(i, l1[c].down[i])
  <2>1. \E i \in Next1(c, "REPLY") : Effect(i, l1[c].down[i])
    BY Zenon DEF Reply1
  <2> HIDE DEF Effect
  <2> QED BY <2>1, RepliesNext
<1> DEFINE e == l1[c].down[i]
<1>2. e.line \in Lines /\ l1[c].mshr[e.line].valid
  BY Zenon, <1>1, ReplyHasMSHR DEF Awaited
<1>3. bus' = bus /\ \E w \in Taken(e) : Call(i, e, w)
  <2> HIDE DEF Taken, Call
  <2> QED BY Zenon, <1>1, <1>2
<1>4. Taken(e) \subseteq 1 .. Ways1
  <2>1. l1[c].ways \in [1 .. Ways1 -> Tags] /\ l1[c].mshr[e.line] \in MSHRs(Missed(p, c, e.line), 1 .. Ways1)
    BY <1>2, InvParts DEF L1Type
  <2>2. Victims(l1[c].ways, {}) \subseteq 1 .. Ways1
    BY Zenon, <2>1, WaysType, HierarchyAssumption
  <2>3. l1[c].mshr[e.line].way \in 1 .. Ways1
    BY Zenon, <2>1 DEF MSHRs
  <2> QED BY Zenon, <2>2, <2>3
<1>5. PICK w \in 1 .. Ways1 : Call(i, e, w)
  <2> HIDE DEF Taken, Call
  <2> QED BY <1>3, <1>4
<1>6. Filled(c, e, w) \in Tags /\ WrittenBack(c, e, w) \in AnyLine
  BY <1>1, FilledType
<1>7. \/ Wait1(c, i, w, Filled(c, e, w), WrittenBack(c, e, w))
      \/ Release1(c, i, w, Filled(c, e, w), WrittenBack(c, e, w))
  BY Zenon, <1>5
<1> HIDE DEF Effect, Call, Taken
<1> QED BY Zenon, <1>1, <1>3, <1>6, <1>7, Wait1Keeps, Release1Keeps

LEMMA StuckReply1Keeps ==
  ASSUME NEW p \in Programs, Inv(p), NEW c \in Caches, StuckReply1(c)
  PROVE  Inv(p)'
<1> DEFINE w(e) == l1[c].mshr[e.line].way
           Effect(i, e) == Release1(c, i, w(e), l1[c].ways[w(e)], e.wrb) /\ UNCHANGED bus
<1>1. PICK i \in 1 .. Len(l1[c].down) : l1[c].down[i].kind = "REPLY" /\ Effect(i, l1[c].down[i])
  <2>1. \E i \in Next1(c, "REPLY") : Effect(i, l1[c].down[i])
    BY Zenon DEF StuckReply1
  <2> HIDE DEF Effect
  <2> QED BY <2>1, RepliesNext
<1> DEFINE e == l1[c].down[i]
           v == w(e)
<1>2. e.line \in Lines
  BY Zenon, <1>1, ReplyHasMSHR
<1>3. /\ l1[c].ways \in [1 .. Ways1 -> Tags] /\ l1[c].mshr[e.line] \in MSHRs(Missed(p, c, e.line), 1 .. Ways1)
      /\ e \in Messages(p)
  <2>1. L1Type(p)
    BY InvParts
  <2>2. l1[c].down \in Seq(Messages(p)) /\ l1[c].ways \in [1 .. Ways1 -> Tags]
    BY <2>1 DEF L1Type
  <2>3. l1[c].mshr[e.line] \in MSHRs(Missed(p, c, e.line), 1 .. Ways1)
    BY Zenon, <1>2, <2>1 DEF L1Type
  <2>4. e \in Messages(p)
    <3> DEFINE q == l1[c].down
    <3>1. q \in Seq(Messages(p)) /\ i \in 1 .. Len(q)
      BY Zenon, <2>2
    <3> HIDE DEF q
    <3>2. q[i] \in Messages(p)
      BY <3>1
    <3> QED BY Zenon, <3>2 DEF q
  <2> QED BY Zenon, <2>2, <2>3, <2>4
<1>4. v \in 1 .. Ways1 /\ e.wrb \in AnyLine
  BY Zenon, <1>3 DEF MSHRs, Messages
<1>5. l1[c].ways[v] \in Tags
  <2> HIDE DEF v
  <2> QED BY <1>3, <1>4
<1>6. Release1(c, i, v, l1[c].ways[v], e.wrb) /\ bus' = bus
  BY Zenon, <1>1
<1> HIDE DEF v
<1> QED BY Zenon, <1>1, <1>4, <1>5, <1>6, Release1Keeps

\* The second level when the data cache answers: a line goes to memory, the first
\* reply from the bus goes on.
LEMMA OutJoins ==
  ASSUME NEW p \in Programs, L1Type(p), L2Type(p), BusLife(p), l2' = [l2 EXCEPT !.data = Append(@, Out)]
  PROVE  L2Type(p)' /\ BusLife(p)' /\ SameInL2(p)
<1> DEFINE d == Append(l2.data, Out)
<1>1. /\ l2 = [req |-> l2.req, reply |-> l2.reply, cohe |-> l2.cohe, data |-> l2.data, ways |-> l2.ways,
               mshr |-> l2.mshr]
      /\ L2Fits(p, l2.req, l2.reply, l2.cohe, l2.data, l2.ways, l2.mshr)
  BY L2Shape
<1>2. L2Becomes(l2.req, l2.reply, l2.cohe, d, l2.ways, l2.mshr)
  BY <1>1 DEF L2Becomes
<1>3. l2'.req = l2.req /\ l2'.data = d /\ l2'.mshr = l2.mshr /\ l2'.cohe = l2.cohe /\ l2'.reply = l2.reply
  BY <1>2 DEF L2Becomes
<1>4. Out \in DataItems(p)
  BY DataItemTypes
<1>5. /\ d \in Seq(DataItems(p))
      /\ \A i \in DOMAIN p, w \in BOOLEAN : InData(p, i, w)' = InData(p, i, w) + One(Out, Answers(p, i, w))
      /\ \A x \in Lines : Count(l2'.data, Fills(p, x)) = Count(l2.data, Fills(p, x)) + One(Out, Fills(p, x))
  BY <1>3, <1>4, JoinsData
<1>6. L2Fits(p, l2.req, l2.reply, l2.cohe, d, l2.ways, l2.mshr)
  BY <1>1, <1>5 DEF L2Fits
<1>7. L2Type(p)'
  BY <1>2, <1>6, L2Kept
<1>8. BusLife(p)'
  <2>1. SameFills(p)
    BY <1>5, DataItemTypes, OnBus DEF SameFills
  <2>2. SameLives
    BY <1>3 DEF SameLives
  <2> QED BY <1>3, <2>1, <2>2, BusLifeKept
<1>9. SameInL2(p)
  <2> SUFFICES ASSUME NEW i \in DOMAIN p, NEW w \in BOOLEAN
               PROVE  AtL2(p, i, w)' + InL2(p, i, w)' + InData(p, i, w)' = AtL2(p, i, w) + InL2(p, i, w) + InData(p, i, w)
    BY DEF SameInL2
  <2>1. InData(p, i, w)' = InData(p, i, w)
    BY <1>5, DataItemTypes, CountsType
  <2>2. AtL2(p, i, w)' = AtL2(p, i, w) /\ InL2(p, i, w)' = InL2(p, i, w)
    BY <1>3, SameL2
  <2> QED BY <2>1, <2>2
<1> QED BY <1>7, <1>8, <1>9

Resumes(b) == l2' = [l2 EXCEPT !.reply[1].progress = 3, !.reply[1].wrb = b]

LEMMA ReplyResumes ==
  ASSUME NEW p \in Programs, L2Type(p), BusLife(p), NEW b \in BOOLEAN, Resumes(b)
  PROVE  L2Type(p)' /\ BusLife(p)' /\ SameInL2(p)
<1> DEFINE q == l2.reply
           T == [q EXCEPT ![1].progress = 3, ![1].wrb = b]
<1>1. /\ l2 = [req |-> l2.req, reply |-> q, cohe |-> l2.cohe, data |-> l2.data, ways |-> l2.ways,
               mshr |-> l2.mshr]
      /\ L2Fits(p, l2.req, l2.reply, l2.cohe, l2.data, l2.ways, l2.mshr)
  BY L2Shape
<1>2. q \in Seq(Replies)
  BY <1>1 DEF L2Fits
<1>3. L2Becomes(l2.req, T, l2.cohe, l2.data, l2.ways, l2.mshr)
  BY <1>1 DEF L2Becomes, Resumes
<1>4. T \in Seq(Replies) /\ \A y : Count(T, BusReplies(y)) = Count(q, BusReplies(y))
  <2>1. CASE q = <<>>
    <3>1. T = q
      BY <2>1
    <3> QED BY <1>2, <3>1
  <2>2. CASE q # <<>>
    <3>1. Forwarded(T, q, 3, b) /\ 3 \in 0 .. 3
      BY DEF Forwarded
    <3> HIDE DEF T, q
    <3> QED BY <1>2, <2>2, <3>1, ReplyChanged
  <2> QED BY <2>1, <2>2
<1> HIDE DEF T
<1>5. l2'.req = l2.req /\ l2'.data = l2.data /\ l2'.mshr = l2.mshr /\ l2'.cohe = l2.cohe /\ l2'.reply = T
  BY <1>3 DEF L2Becomes
<1>6. L2Fits(p, l2.req, T, l2.cohe, l2.data, l2.ways, l2.mshr)
  BY <1>1, <1>4 DEF L2Fits
<1>7. L2Type(p)'
  BY <1>3, <1>6, L2Kept
<1>8. BusLife(p)'
  <2>1. SameFills(p) /\ SameLives
    BY <1>5 DEF SameFills, SameLives
  <2>2. \A y \in Lines : Count(l2'.reply, BusReplies(y)) = Count(l2.reply, BusReplies(y))
    BY <1>4, <1>5
  <2> QED BY <1>5, <2>1, <2>2, LivesKept
<1>9. SameInL2(p)
  BY <1>5, SameL2 DEF SameInL2
<1> QED BY <1>7, <1>8, <1>9

LEMMA SameInL2Kept ==
  ASSUME NEW p \in Programs, L2Type(p), BusLife(p), l2' = l2
  PROVE  L2Type(p)' /\ BusLife(p)' /\ SameInL2(p)
BY UnchangedL2 DEF SameInL2

\* The flush a message carries is performed, if it carries one.
LEMMA FlushType ==
  ASSUME NEW p \in Programs, NEW e \in Messages(p), e.kind = "COHE", NEW j \in DOMAIN p
  PROVE  /\ e.flush.id = 0 => One(e, FlushesOf(p, j)) = 0
         /\ One(e, FlushesOf(p, j)) = One(j, {e.flush.id})
<1>1. j # 0 /\ (e \in FlushesOf(p, j) <=> e.flush.id = j)
  BY ProgramType DEF FlushesOf
<1> QED BY <1>1 DEF One

\* A coherence message leaves the queue of a first-level cache.
MessageRead(c, i, W) == l1' = [l1 EXCEPT ![c].down = Without(@, i), ![c].ways = W]

LEMMA MessageLeaves ==
  ASSUME NEW p \in Programs, L1Type(p), NEW c \in Caches, NEW i \in 1 .. Len(l1[c].down),
         l1[c].down[i].kind = "COHE", NEW W \in [1 .. Ways1 -> Tags],
         MessageRead(c, i, W)
  PROVE  /\ L1Type(p)' /\ SameAtL1(p) /\ SameReplies(p) /\ SameMSHRs /\ l1[c].down[i] \in Messages(p)
         /\ c # "D" => SameFlushes(p)
         /\ c = "D" => \A j \in DOMAIN p : InFlush(p, j)' + One(j, {l1[c].down[i].flush.id}) = InFlush(p, j)
<1> DEFINE k == l1[c].down[i]
           T == Without(l1[c].down, i)
<1>1. /\ l1 = [e \in Caches |-> l1[e]]
      /\ l1[c] = [req |-> l1[c].req, down |-> l1[c].down, ways |-> l1[c].ways, mshr |-> l1[c].mshr]
      /\ L1Fits(p, c, l1[c].req, l1[c].down, l1[c].ways, l1[c].mshr)
  BY L1Shape
<1>2. /\ k \in Messages(p) /\ T \in Seq(Messages(p))
      /\ \A P : Count(l1[c].down, P) = Count(T, P) + One(k, P) /\ Count(T, P) \in Nat
  BY LeavesDown
<1>3. L1Becomes(c, l1[c].req, T, W, l1[c].mshr)
  <2> HIDE DEF T
  <2>1. l1' = [l1 EXCEPT ![c].down = T, ![c].ways = W]
    BY DEF T, MessageRead
  <2>2. l1'[c] = [req |-> l1[c].req, down |-> T, ways |-> W, mshr |-> l1[c].mshr]
    BY <1>1, <2>1
  <2>3. l1' = [e \in Caches |-> l1'[e]] /\ \A e \in Caches : e # c => l1'[e] = l1[e]
    BY <1>1, <2>1
  <2> QED BY <2>2, <2>3 DEF L1Becomes
<1>4. L1Fits(p, c, l1[c].req, T, W, l1[c].mshr)
  BY <1>1, <1>2 DEF L1Fits
<1> HIDE DEF T
<1>5. /\ L1Type(p)' /\ l1'[c].req = l1[c].req /\ l1'[c].down = T /\ l1'[c].mshr = l1[c].mshr
      /\ \A e \in Caches : e # c => l1'[e] = l1[e]
  BY <1>3, <1>4, L1Kept
<1>6. SameMSHRs /\ \A e \in Caches : l1'[e].req = l1[e].req
  BY <1>5 DEF SameMSHRs, SameMains
<1>7. SameAtL1(p)
  BY <1>6, SameL1 DEF SameAtL1
<1>8. SameReplies(p)
  <2> SUFFICES ASSUME NEW e \in Caches, NEW x \in Lines PROVE ReplyCount(p, e, x)' = ReplyCount(p, e, x)
    BY DEF SameReplies
  <2>1. CASE e = c
    <3>1. One(k, RepliesOf(p, x)) = 0
      BY DEF RepliesOf, One
    <3>2. Count(l1[c].down, RepliesOf(p, x)) = Count(T, RepliesOf(p, x))
      BY <1>2, <3>1
    <3> QED BY <1>5, <2>1, <3>2 DEF ReplyCount
  <2>2. CASE e # c
    BY <1>5, <2>2 DEF ReplyCount
  <2> QED BY <2>1, <2>2
<1>9. "D" \in Caches
  BY DEF Caches
<1>10. c # "D" => SameFlushes(p)
  BY <1>5, <1>9 DEF SameFlushes, InFlush
<1>11. ASSUME c = "D", NEW j \in DOMAIN p
       PROVE  InFlush(p, j)' + One(j, {k.flush.id}) = InFlush(p, j)
  <2>1. One(k, FlushesOf(p, j)) = One(j, {k.flush.id})
    BY <1>2, FlushType
  <2>2. Count(l1["D"].down, FlushesOf(p, j)) = Count(T, FlushesOf(p, j)) + One(k, FlushesOf(p, j))
    BY <1>2, <1>11
  <2> QED BY <1>5, <1>11, <2>1, <2>2 DEF InFlush
<1> QED BY <1>2, <1>5, <1>6, <1>7, <1>8, <1>10, <1>11

\* The ways of a first-level cache after a message.
LEMMA WaysAfterMessage ==
  ASSUME NEW n \in Nat \ {0}, NEW ways \in [1 .. n -> Tags], NEW e
  PROVE  After1(ways, e) \in [1 .. n -> Tags]
<1> DEFINE v == WayOf(ways, e.line)
<1>1. v \in 1 .. n
  BY WaysType
<1> HIDE DEF v
<1>2. [ways EXCEPT ![v].state = "SH_CL"] \in [1 .. n -> Tags]
  BY <1>1, WayChanged
<1>3. [ways EXCEPT ![v].state = "INVALID"] \in [1 .. n -> Tags]
  BY <1>1, WayChanged
<1>4. [ways EXCEPT ![v] = Invalid] \in [1 .. n -> Tags]
  <2>1. Invalid \in Tags
    BY DEF Invalid, Tags, AnyLine
  <2> QED BY <1>1, <2>1
<1> QED BY <1>2, <1>3, <1>4 DEF v, After1

\* A message that waits for room in the data pipe: the queue counts alike.
Waiting(t, q, k, g) == t = [q EXCEPT ![k].stuck = g, ![k].dirty = g]

LEMMA MessageStuck ==
  ASSUME NEW p \in Programs, NEW q \in Seq(Messages(p)), NEW k \in 1 .. Len(q), q[k].kind = "COHE",
         NEW g \in BOOLEAN, NEW t, Waiting(t, q, k, g)
  PROVE  /\ t \in Seq(Messages(p))
         /\ \A x : Count(t, RepliesOf(p, x)) = Count(q, RepliesOf(p, x))
         /\ \A i \in DOMAIN p : Count(t, FlushesOf(p, i)) = Count(q, FlushesOf(p, i))
<1> DEFINE e == q[k]
           u == [e EXCEPT !.stuck = g]
           v == [u EXCEPT !.dirty = g]
<1>1. e \in Messages(p)
  OBVIOUS
<1>2. e = [kind |-> e.kind, line |-> e.line, sh |-> e.sh, to |-> e.to, own |-> e.own, flush |-> e.flush,
           dirty |-> e.dirty, stuck |-> e.stuck, wrb |-> e.wrb]
  <2> HIDE DEF e
  <2> QED BY <1>1 DEF Messages, e
<1>3. t = [q EXCEPT ![k] = v]
  BY DEF Waiting
<1>4. v \in Messages(p) /\ v.kind = e.kind /\ v.flush = e.flush /\ e.kind = "COHE"
  <2> HIDE DEF e
  <2>1. u = [kind |-> e.kind, line |-> e.line, sh |-> e.sh, to |-> e.to, own |-> e.own, flush |-> e.flush,
             dirty |-> e.dirty, stuck |-> g, wrb |-> e.wrb]
    BY <1>2
  <2> HIDE DEF u
  <2>2. v = [kind |-> e.kind, line |-> e.line, sh |-> e.sh, to |-> e.to, own |-> e.own, flush |-> e.flush,
             dirty |-> g, stuck |-> g, wrb |-> e.wrb]
    BY <2>1
  <2>3. e.kind = "COHE"
    BY DEF e
  <2>4. v.kind = "COHE" /\ v.flush = e.flush
    BY <2>2, <2>3 DEF v
  <2> HIDE DEF v
  <2>5. v \in Messages(p)
    BY <1>1, <2>2, <2>3 DEF Messages
  <2> QED BY <2>3, <2>4, <2>5
<1> HIDE DEF v, u
<1>5. t \in Seq(Messages(p)) /\ Len(t) = Len(q) /\ t[k] = v /\ \A j \in 1 .. Len(q) : j # k => t[j] = q[j]
  BY <1>3, <1>4
<1>6. \A x : v \notin RepliesOf(p, x) /\ e \notin RepliesOf(p, x)
  BY <1>4 DEF RepliesOf
<1>7. \A i \in DOMAIN p : v \in FlushesOf(p, i) <=> e \in FlushesOf(p, i)
  BY <1>1, <1>4 DEF FlushesOf
<1>8. \A P : (v \in P <=> e \in P) => Count(t, P) = Count(q, P)
  <2> SUFFICES ASSUME NEW P, v \in P <=> e \in P PROVE Count(t, P) = Count(q, P)
    OBVIOUS
  <2>1. Len(t) = Len(q) /\ \A j \in 1 .. Len(t) : t[j] \in P <=> q[j] \in P
    BY Zenon, <1>5
  <2> QED BY <2>1, CountSame
<1> QED BY <1>5, <1>6, <1>7, <1>8

LEMMA StuckCohe1Keeps ==
  ASSUME NEW p \in Programs, Inv(p), NEW c \in Caches, StuckCohe1(c)
  PROVE  Inv(p)'
<1>1. L1Type(p) /\ L2Type(p) /\ RestType(p) /\ BusLife(p)
  BY InvParts
<1>2. /\ l1 = [e \in Caches |-> l1[e]]
      /\ l1[c] = [req |-> l1[c].req, down |-> l1[c].down, ways |-> l1[c].ways, mshr |-> l1[c].mshr]
      /\ L1Fits(p, c, l1[c].req, l1[c].down, l1[c].ways, l1[c].mshr)
  BY <1>1, L1Shape
<1> DEFINE Effect(i, e) ==
             l1' = [l1 EXCEPT ![c].ways = After1(@, e), ![c].down[i].stuck = TRUE, ![c].down[i].dirty = TRUE]
<1>3. PICK i \in 1 .. Len(l1[c].down) : l1[c].down[i].kind = "COHE" /\ Effect(i, l1[c].down[i])
  <2>1. \E i \in Next1(c, "COHE") : Effect(i, l1[c].down[i])
    BY Zenon DEF StuckCohe1
  <2> HIDE DEF Effect
  <2> QED BY <2>1, RepliesNext
<1>same. l2' = l2 /\ bus' = bus /\ done' = done
  BY Zenon DEF StuckCohe1
<1> DEFINE d == l1[c].down
           W == After1(l1[c].ways, d[i])
           g == TRUE
           T == [d EXCEPT ![i].stuck = g, ![i].dirty = g]
<1>4. d \in Seq(Messages(p)) /\ W \in [1 .. Ways1 -> Tags] /\ g \in BOOLEAN
  <2>1. l1[c].ways \in [1 .. Ways1 -> Tags] /\ d \in Seq(Messages(p))
    BY <1>2 DEF L1Fits
  <2> QED BY <2>1, WaysAfterMessage, HierarchyAssumption
<1>5. l1' = [l1 EXCEPT ![c].ways = W, ![c].down[i].stuck = g, ![c].down[i].dirty = g]
  BY Zenon, <1>3
<1> HIDE DEF W, g, Effect
<1>6. /\ T \in Seq(Messages(p))
      /\ \A x : Count(T, RepliesOf(p, x)) = Count(d, RepliesOf(p, x))
      /\ \A j \in DOMAIN p : Count(T, FlushesOf(p, j)) = Count(d, FlushesOf(p, j))
  <2>1. i \in 1 .. Len(d) /\ d[i].kind = "COHE"
    BY <1>3
  <2> HIDE DEF d, T
  <2>2. Waiting(T, d, i, g)
    BY DEF T, Waiting
  <2> QED BY Zenon, <1>4, <2>1, <2>2, MessageStuck
<1>7. L1Becomes(c, l1[c].req, T, W, l1[c].mshr)
  <2> DEFINE s1 == [l1 EXCEPT ![c].ways = W]
             s2 == [s1 EXCEPT ![c].down[i].stuck = g]
             s3 == [s2 EXCEPT ![c].down[i].dirty = g]
             T1 == [d EXCEPT ![i].stuck = g]
  <2>1. l1' = s3
    BY <1>5
  <2>2. s1 = [e \in Caches |-> s1[e]] /\ (\A e \in Caches : e # c => s1[e] = l1[e])
        /\ s1[c] = [req |-> l1[c].req, down |-> d, ways |-> W, mshr |-> l1[c].mshr]
    BY <1>2
  <2> HIDE DEF s1, d
  <2>3. s2 = [e \in Caches |-> s2[e]] /\ (\A e \in Caches : e # c => s2[e] = l1[e])
        /\ s2[c] = [s1[c] EXCEPT !.down[i].stuck = g]
    BY <2>2
  <2>4. s2[c] = [req |-> l1[c].req, down |-> T1, ways |-> W, mshr |-> l1[c].mshr]
    <3> DEFINE R == s1[c]
    <3>1. R = [req |-> l1[c].req, down |-> d, ways |-> W, mshr |-> l1[c].mshr]
      BY <2>2
    <3> HIDE DEF R
    <3>2. [R EXCEPT !.down[i].stuck = g] = [req |-> l1[c].req, down |-> [d EXCEPT ![i].stuck = g], ways |-> W, mshr |-> l1[c].mshr]
      BY <3>1
    <3> HIDE DEF s2
    <3> QED BY <2>3, <3>2 DEF R
  <2> HIDE DEF s2, T1
  <2>5. s3 = [e \in Caches |-> s3[e]] /\ (\A e \in Caches : e # c => s3[e] = l1[e])
        /\ s3[c] = [s2[c] EXCEPT !.down[i].dirty = g]
    BY <2>3, <2>4
  <2>6. s3[c] = [req |-> l1[c].req, down |-> [T1 EXCEPT ![i].dirty = g], ways |-> W, mshr |-> l1[c].mshr]
    <3> DEFINE R == s2[c]
    <3>1. R = [req |-> l1[c].req, down |-> T1, ways |-> W, mshr |-> l1[c].mshr]
      BY <2>4
    <3> HIDE DEF R
    <3>2. [R EXCEPT !.down[i].dirty = g] = [req |-> l1[c].req, down |-> [T1 EXCEPT ![i].dirty = g], ways |-> W, mshr |-> l1[c].mshr]
      BY <3>1
    <3> HIDE DEF s3
    <3> QED BY <2>5, <3>2 DEF R
  <2>7. [T1 EXCEPT ![i].dirty = g] = T
    BY DEF T1
  <2> HIDE DEF s3, T
  <2> QED BY <2>1, <2>5, <2>6, <2>7 DEF L1Becomes
<1> HIDE DEF T
<1>8. L1Fits(p, c, l1[c].req, T, W, l1[c].mshr)
  BY <1>2, <1>4, <1>6 DEF L1Fits
<1>9. /\ L1Type(p)' /\ l1'[c].req = l1[c].req /\ l1'[c].down = T /\ l1'[c].mshr = l1[c].mshr
      /\ \A e \in Caches : e # c => l1'[e] = l1[e]
  BY <1>1, <1>7, <1>8, L1Kept
<1>10. SameMSHRs /\ SameAtL1(p)
  <2>1. SameMSHRs /\ \A e \in Caches : l1'[e].req = l1[e].req
    BY <1>9 DEF SameMSHRs, SameMains
  <2> QED BY <2>1, SameL1 DEF SameAtL1
<1>11. SameReplies(p) /\ SameFlushes(p)
  <2>1. \A e \in Caches, x \in Lines : ReplyCount(p, e, x)' = ReplyCount(p, e, x)
    BY <1>6, <1>9 DEF ReplyCount
  <2>2. "D" \in Caches
    BY DEF Caches
  <2>3. \A j \in DOMAIN p : InFlush(p, j)' = InFlush(p, j)
    BY <1>6, <1>9, <2>2 DEF InFlush
  <2> QED BY <2>1, <2>3 DEF SameReplies, SameFlushes
<1>12. Quiet1(p)
  BY <1>9, <1>10, <1>11 DEF Quiet1
<1>13. L2Type(p)' /\ BusLife(p)' /\ SameInL2(p) /\ RestType(p)'
  BY <1>1, <1>same, SameInL2Kept, UnchangedRest
<1> QED BY <1>same, <1>12, <1>13, Level2MovesKeep

LEMMA Cohe1Keeps ==
  ASSUME NEW p \in Programs, Inv(p), NEW c \in Caches, Cohe1(c)
  PROVE  Inv(p)'
<1>1. /\ L1Type(p) /\ L2Type(p) /\ RestType(p) /\ BusLife(p) /\ MSHRCarried(p) /\ AccessHeld(p) /\ ~done.fault
      /\ Waited \in BOOLEAN /\ Alone \in BOOLEAN
  BY InvParts
<1>2. l1[c].down \in Seq(Messages(p)) /\ l1[c].ways \in [1 .. Ways1 -> Tags]
  BY <1>1 DEF L1Type
<1> DEFINE dirty(e) == Dirty1(c, e)
           W(e) == After1(l1[c].ways, e)
           Answer(e) ==
             CASE c = "I" -> UNCHANGED <<l2, bus, done>>
            [] FlushAnswer(c, e) ->
                 /\ l2' = IF dirty(e) THEN [l2 EXCEPT !.data = Append(@, Out)] ELSE l2
                 /\ done' = Perform({e.flush.id}) /\ UNCHANGED bus
            [] c = "D" /\ e.flush.id = 0 /\ e.own ->
                 l2' = Resume([e EXCEPT !.dirty = dirty(e)]) /\ UNCHANGED <<bus, done>>
            [] OTHER -> bus' = Answered(e.line, e.to) /\ UNCHANGED <<l2, done>>
           Read(i, e) == l1' = [l1 EXCEPT ![c].down = Without(@, i), ![c].ways = After1(@, e)]
<1>3. PICK i \in 1 .. Len(l1[c].down) :
        l1[c].down[i].kind = "COHE" /\ Read(i, l1[c].down[i]) /\ Answer(l1[c].down[i])
  <2>2. \E i \in Next1(c, "COHE") : Read(i, l1[c].down[i]) /\ Answer(l1[c].down[i])
    BY Zenon DEF Cohe1
  <2> HIDE DEF Read, Answer
  <2> QED BY <2>2, RepliesNext
<1> DEFINE e == l1[c].down[i]
<1>4. MessageRead(c, i, W(e))
  BY Zenon, <1>3 DEF MessageRead
<1>5. W(e) \in [1 .. Ways1 -> Tags]
  BY Zenon, <1>2, WaysAfterMessage, HierarchyAssumption
<1>6. Answer(e) /\ e.kind = "COHE" /\ i \in 1 .. Len(l1[c].down)
  BY Zenon, <1>3
<1> HIDE DEF W, Answer, Read
<1>7. /\ L1Type(p)' /\ SameAtL1(p) /\ SameReplies(p) /\ SameMSHRs /\ e \in Messages(p)
      /\ c # "D" => SameFlushes(p)
      /\ c = "D" => \A j \in DOMAIN p : InFlush(p, j)' + One(j, {e.flush.id}) = InFlush(p, j)
  BY <1>1, <1>4, <1>5, <1>6, MessageLeaves
<1>8. /\ e.flush \in Requests(p) \cup {NoRequest} /\ e.dirty \in BOOLEAN /\ e.to \in {"INVALIDATE", "SHARED"}
      /\ e.own \in BOOLEAN
  BY <1>7 DEF Messages
<1> HIDE DEF e
<1>9. dirty(e) \in BOOLEAN
  <2> DEFINE b == ~e.stuck /\ e.to = "INVALIDATE" /\ State(l1[c].ways, e.line) = "PR_DY"
  <2>1. dirty(e) = (e.dirty \/ b)
    BY DEF Dirty1
  <2>2. (e.dirty \/ b) \in BOOLEAN
    OBVIOUS
  <2> QED BY <2>1, <2>2
<1> HIDE DEF dirty
<1>10. CASE c = "I"
  <2>1. l2' = l2 /\ bus' = bus /\ done' = done
    BY <1>6, <1>10 DEF Answer, FlushAnswer
  <2>2. Quiet1(p)
    BY <1>7, <1>10 DEF Quiet1
  <2>3. L2Type(p)' /\ BusLife(p)' /\ SameInL2(p) /\ RestType(p)'
    BY <1>1, <2>1, SameInL2Kept, UnchangedRest
  <2> QED BY <2>1, <2>2, <2>3, Level2MovesKeep
<1>11. CASE c = "D" /\ e.flush.id # 0
  <2>1. /\ l2' = IF dirty(e) THEN [l2 EXCEPT !.data = Append(@, Out)] ELSE l2
        /\ done' = Perform({e.flush.id}) /\ bus' = bus
    BY <1>6, <1>11 DEF Answer, FlushAnswer
  <2>2. L2Type(p)' /\ BusLife(p)' /\ SameInL2(p)
    BY <1>1, <2>1, OutJoins, SameInL2Kept
  <2>3. /\ RestType(p)' /\ done'.fault = done.fault /\ Issued' = Issued
        /\ \A j \in DOMAIN p : done'.count[j] = done.count[j] + One(j, {e.flush.id})
    BY <1>1, <2>1, Performed
  <2>4. Numbers(p) /\ Numbers(p)'
    BY <1>1, <1>7, <2>2, NumbersNext
  <2>5. ASSUME NEW j \in DOMAIN p, NEW k \in BOOLEAN PROVE Below(p, j, k)' = Below(p, j, k)
    <3> DEFINE a == AtL1(p, j, k)
               b == AtL2(p, j, k)
               d == InL2(p, j, k)
               f == InData(p, j, k)
               bb == AtL2(p, j, k)'
               dd == InL2(p, j, k)'
               ff == InData(p, j, k)'
    <3>1. /\ a \in Nat /\ b \in Nat /\ d \in Nat /\ f \in Nat /\ bb \in Nat /\ dd \in Nat /\ ff \in Nat
          /\ bb + dd + ff = b + d + f
      BY <2>2, <2>4 DEF Numbers, SameInL2
    <3>2. Below(p, j, k) = a + b + d + f /\ Below(p, j, k)' = a + bb + dd + ff
      BY <1>7 DEF Below, SameAtL1
    <3> HIDE DEF a, b, d, f, bb, dd, ff
    <3> QED BY <3>1, <3>2
  <2>6. \A j \in DOMAIN p : InMSHR(p, j)' = InMSHR(p, j)
    BY <1>7, SameL1 DEF SameMSHRs, SameMains
  <2>7. ASSUME NEW j \in DOMAIN p PROVE Held(p, j)' = Held(p, j)
    <3> DEFINE b == Below(p, j, Alone)
               f == InFlush(p, j)
               ff == InFlush(p, j)'
               h == InMSHR(p, j)
               d == done.count[j]
               o == One(j, {e.flush.id})
    <3>1. b \in Nat /\ f \in Nat /\ ff \in Nat /\ h \in Nat /\ d \in Nat /\ o \in Nat
      <4>1. d \in Nat
        BY InvParts
      <4> QED BY <1>1, <2>4, <4>1, OneType DEF Numbers
    <3>2. ff + o = f
      BY <1>7, <1>11
    <3>3. Held(p, j) = d + b + h + f /\ Held(p, j)' = (d + o) + b + h + ff
      BY <1>1, <2>3, <2>5, <2>6 DEF Held
    <3> HIDE DEF b, f, ff, h, d, o
    <3> QED BY <3>1, <3>2, <3>3
  <2>8. SameLoad(p)
    BY <1>1, <2>5, <2>7 DEF SameLoad
  <2> QED BY <1>7, <2>2, <2>3, <2>8, MovesKeep DEF SameMSHRs
<1>12. ASSUME c = "D", e.flush.id = 0 PROVE SameFlushes(p)
  <2> SUFFICES ASSUME NEW j \in DOMAIN p PROVE InFlush(p, j)' = InFlush(p, j)
    BY DEF SameFlushes
  <2>1. InFlush(p, j)' + One(j, {e.flush.id}) = InFlush(p, j)
    BY <1>7, <1>12
  <2>2. j # 0
    BY ProgramType
  <2>3. One(j, {e.flush.id}) = 0
    BY <1>12, <2>2 DEF One
  <2>4. L1Type(p)' /\ InFlush(p, j)' \in Nat
    <3>1. l1'["D"].down \in Seq(Messages(p))
      BY <1>7 DEF L1Type, Caches
    <3>2. Count(l1'["D"].down, FlushesOf(p, j)) \in Nat
      BY <3>1, CountType
    <3> QED BY <1>7, <3>2 DEF InFlush
  <2> QED BY <2>1, <2>3, <2>4
<1>13. CASE c = "D" /\ e.flush.id = 0 /\ e.own
  <2>1. l2' = Resume([e EXCEPT !.dirty = dirty(e)]) /\ bus' = bus /\ done' = done
    BY <1>6, <1>13 DEF Answer, FlushAnswer
  <2>2. Quiet1(p)
    BY <1>7, <1>12, <1>13 DEF Quiet1
  <2>3. RestType(p)'
    BY <1>1, <2>1, UnchangedRest
  <2>4. L2Type(p)' /\ BusLife(p)' /\ SameInL2(p)
    <3> DEFINE f == [e EXCEPT !.dirty = dirty(e)]
    <3>1. f.dirty = dirty(e)
      BY <1>7 DEF Messages
    <3> HIDE DEF f
    <3>2. PICK b \in BOOLEAN : Resumes(b)
      <4> DEFINE b == l2.reply[1].wrb \/ f.dirty
      <4>1. l2' = [l2 EXCEPT !.reply[1].progress = 3, !.reply[1].wrb = @ \/ f.dirty]
        BY <2>1 DEF Resume, f
      <4>2. l2' = [l2 EXCEPT !.reply[1].progress = 3, !.reply[1].wrb = b]
        BY <4>1
      <4>3. b \in BOOLEAN
        OBVIOUS
      <4> HIDE DEF b
      <4> QED BY <4>2, <4>3 DEF Resumes
    <3> QED BY <1>1, <3>2, ReplyResumes
  <2> QED BY <2>1, <2>2, <2>3, <2>4, Level2MovesKeep
<1>14. CASE c = "D" /\ e.flush.id = 0 /\ ~e.own
  <2>1. bus' = Answered(e.line, e.to) /\ l2' = l2 /\ done' = done
    BY <1>6, <1>14 DEF Answer, FlushAnswer
  <2>2. Quiet1(p)
    BY <1>7, <1>12, <1>14 DEF Quiet1
  <2>3. L2Type(p)' /\ BusLife(p)' /\ SameInL2(p)
    BY <1>1, <2>1, SameInL2Kept
  <2>4. RestType(p)'
    <3>1. bus \in [remote : [Lines -> {"none", "shared", "owned"}], snoops : Nat, asked : SUBSET Lines]
      BY <1>1 DEF RestType
    <3>2. RemoteAfter(e.to) \in {"none", "shared", "owned"}
      BY DEF RemoteAfter
    <3>3. bus' \in [remote : [Lines -> {"none", "shared", "owned"}], snoops : Nat, asked : SUBSET Lines]
      BY <2>1, <3>1, <3>2 DEF Answered
    <3> QED BY <1>1, <2>1, <3>3, BusChanged
  <2> QED BY <2>1, <2>2, <2>3, <2>4, Level2MovesKeep
<1>15. c = "D" \/ c = "I"
  BY DEF Caches
<1> QED BY <1>8, <1>10, <1>11, <1>13, <1>14, <1>15

\* A flush message on its way to the data cache holds its access; the invalidation
\* that goes with it, or alone to the instruction cache, holds none.
LEMMA FlushTold ==
  ASSUME NEW p \in Programs, L1Type(p), NEW d \in Messages(p), d.kind = "COHE", NEW e, Plain(p, e),
         l1' = ToBoth(d, e)
  PROVE  /\ L1Type(p)' /\ SameAtL1(p) /\ SameMSHRs /\ SameReplies(p)
         /\ \A j \in DOMAIN p : InFlush(p, j)' = InFlush(p, j) + One(j, {d.flush.id})
<1>1. e \in Messages(p)
  BY DEF Plain
<1>2. /\ L1Type(p)' /\ SameAtL1(p) /\ SameMSHRs
      /\ l1'["D"].down = Append(l1["D"].down, d) /\ l1'["I"].down = Append(l1["I"].down, e)
  BY <1>1, Told
<1>3. "D" \in Caches /\ "I" \in Caches /\ \A c \in Caches : c = "D" \/ c = "I"
  BY DEF Caches
<1>4. \A c \in Caches : l1[c].down \in Seq(Messages(p))
  BY DEF L1Type
<1>5. ASSUME NEW j \in DOMAIN p PROVE InFlush(p, j)' = InFlush(p, j) + One(j, {d.flush.id})
  <2>1. Count(Append(l1["D"].down, d), FlushesOf(p, j)) = Count(l1["D"].down, FlushesOf(p, j)) + One(d, FlushesOf(p, j))
    BY <1>3, JoinsDown
  <2>2. One(d, FlushesOf(p, j)) = One(j, {d.flush.id})
    BY FlushType
  <2> QED BY <1>2, <2>1, <2>2 DEF InFlush
<1>6. SameReplies(p)
  <2> SUFFICES ASSUME NEW c \in Caches, NEW x \in Lines PROVE ReplyCount(p, c, x)' = ReplyCount(p, c, x)
    BY DEF SameReplies
  <2> DEFINE P == RepliesOf(p, x)
  <2>1. PICK f \in Messages(p) : l1'[c].down = Append(l1[c].down, f) /\ One(f, P) = 0
    <3>1. One(d, P) = 0
      BY DEF RepliesOf, One
    <3>2. One(e, P) = 0
      BY PlainType
    <3> HIDE DEF P
    <3> QED BY <1>1, <1>2, <1>3, <3>1, <3>2
  <2>2. Count(Append(l1[c].down, f), P) = Count(l1[c].down, P) + One(f, P)
    BY <2>1, JoinsDown
  <2>3. Count(l1[c].down, P) \in Nat
    BY <1>4, CountType
  <2>4. ReplyCount(p, c, x) = Count(l1[c].down, P) /\ ReplyCount(p, c, x)' = Count(Append(l1[c].down, f), P)
    BY <2>1 DEF ReplyCount
  <2> QED BY <2>1, <2>2, <2>3, <2>4
<1> QED BY <1>2, <1>5, <1>6

ToldInstruction(e) == l1' = [l1 EXCEPT !["I"] = Tell("I", e)]

LEMMA InstructionTold ==
  ASSUME NEW p \in Programs, L1Type(p), NEW e, Plain(p, e), ToldInstruction(e)
  PROVE  Quiet1(p)
<1> DEFINE T == Append(l1["I"].down, e)
<1>1. e \in Messages(p) /\ "I" \in Caches /\ "D" \in Caches /\ "D" # "I"
  BY DEF Plain, Caches
<1>2. /\ l1 = [c \in Caches |-> l1[c]]
      /\ l1["I"] = [req |-> l1["I"].req, down |-> l1["I"].down, ways |-> l1["I"].ways, mshr |-> l1["I"].mshr]
      /\ L1Fits(p, "I", l1["I"].req, l1["I"].down, l1["I"].ways, l1["I"].mshr)
  BY <1>1, L1Shape
<1>3. /\ T \in Seq(Messages(p))
      /\ \A P : Count(T, P) = Count(l1["I"].down, P) + One(e, P)
  BY <1>1, JoinsDown
<1>4. L1Becomes("I", l1["I"].req, T, l1["I"].ways, l1["I"].mshr)
  <2> DEFINE v == Tell("I", e)
  <2>1. v = [l1["I"] EXCEPT !.down = T]
    BY DEF Tell
  <2> HIDE DEF T
  <2>2. v = [req |-> l1["I"].req, down |-> T, ways |-> l1["I"].ways, mshr |-> l1["I"].mshr]
    BY <1>2, <2>1
  <2>3. l1' = [l1 EXCEPT !["I"] = v]
    BY DEF ToldInstruction
  <2> HIDE DEF v
  <2>4. l1' = [c \in Caches |-> IF c = "I" THEN v ELSE l1[c]]
    BY <1>2, <2>3
  <2> QED BY <2>2, <2>4 DEF L1Becomes
<1>5. L1Fits(p, "I", l1["I"].req, T, l1["I"].ways, l1["I"].mshr)
  BY <1>2, <1>3 DEF L1Fits
<1> HIDE DEF T
<1>6. /\ L1Type(p)' /\ l1'["I"].req = l1["I"].req /\ l1'["I"].down = T /\ l1'["I"].mshr = l1["I"].mshr
      /\ \A c \in Caches : c # "I" => l1'[c] = l1[c]
  BY <1>1, <1>4, <1>5, L1Kept
<1>7. SameMSHRs /\ \A c \in Caches : l1'[c].req = l1[c].req
  BY <1>6 DEF SameMSHRs, SameMains
<1>8. SameAtL1(p)
  BY <1>7, SameL1 DEF SameAtL1
<1>9. SameFlushes(p)
  BY <1>1, <1>6 DEF SameFlushes, InFlush
<1>10. SameReplies(p)
  <2> SUFFICES ASSUME NEW c \in Caches, NEW x \in Lines PROVE ReplyCount(p, c, x)' = ReplyCount(p, c, x)
    BY DEF SameReplies
  <2>1. CASE c = "I"
    <3>1. Count(T, RepliesOf(p, x)) = Count(l1["I"].down, RepliesOf(p, x)) + One(e, RepliesOf(p, x))
      BY <1>3
    <3>2. One(e, RepliesOf(p, x)) = 0 /\ Count(l1["I"].down, RepliesOf(p, x)) \in Nat
      <4>1. l1["I"].down \in Seq(Messages(p))
        BY <1>1 DEF L1Type
      <4> QED BY <4>1, PlainType, CountType
    <3> QED BY <1>6, <2>1, <3>1, <3>2 DEF ReplyCount
  <2>2. CASE c # "I"
    BY <1>6, <2>2 DEF ReplyCount
  <2> QED BY <2>1, <2>2
<1> QED BY <1>6, <1>7, <1>8, <1>9, <1>10 DEF Quiet1

\* The first request of the second level, for which nothing waits above, is performed
\* or goes on in a flush message.
Answers1(p, r, ids, told) ==
  \A j \in DOMAIN p : /\ InFlush(p, j)' = InFlush(p, j) + One(j, told)
                      /\ One(j, ids) + One(j, told) = One(j, {r.id})
SameHolders2 == \A y \in Lines : l2'.mshr[y].main = l2.mshr[y].main /\ l2'.mshr[y].coal = l2.mshr[y].coal

LEMMA HeadAnswered ==
  ASSUME NEW p \in Programs, Inv(p), l2.req # <<>>, Head(l2.req) \in Requests(p), ~Head(l2.req).l1mshr,
         l2'.req = Tail(l2.req), l2'.data = l2.data, SameHolders2, L2Type(p)', BusLife(p)', bus' = bus,
         L1Type(p)', SameAtL1(p), SameMSHRs, SameReplies(p), NEW ids, NEW told, done' = Perform(ids),
         Answers1(p, Head(l2.req), ids, told)
  PROVE  Inv(p)'
<1> DEFINE r == Head(l2.req)
<1>1. /\ L1Type(p) /\ L2Type(p) /\ RestType(p) /\ BusLife(p) /\ MSHRCarried(p) /\ AccessHeld(p) /\ ~done.fault
      /\ Waited \in BOOLEAN /\ Alone \in BOOLEAN
  BY InvParts
<1>2. /\ RestType(p)' /\ done'.fault = done.fault /\ Issued' = Issued
      /\ \A j \in DOMAIN p : done'.count[j] = done.count[j] + One(j, ids)
  BY <1>1, Performed
<1>3. Numbers(p) /\ Numbers(p)'
  BY <1>1, NumbersNext
<1>4. \A j \in DOMAIN p, k \in BOOLEAN : AtL2(p, j, k)' + One(r, Holding(p, j, k)) = AtL2(p, j, k)
  BY <1>1, HeadLeavesL2
<1>5. \A j \in DOMAIN p, k \in BOOLEAN : InL2(p, j, k)' = InL2(p, j, k) /\ InData(p, j, k)' = InData(p, j, k)
  BY SameL2 DEF SameHolders2
<1>6. ASSUME NEW j \in DOMAIN p, NEW k \in BOOLEAN
      PROVE  Below(p, j, k)' + One(r, Holding(p, j, k)) = Below(p, j, k)
  <2> DEFINE a == AtL1(p, j, k)
             b == AtL2(p, j, k)
             d == InL2(p, j, k)
             f == InData(p, j, k)
             bb == AtL2(p, j, k)'
             o == One(r, Holding(p, j, k))
  <2>1. /\ a \in Nat /\ b \in Nat /\ d \in Nat /\ f \in Nat /\ bb \in Nat /\ o \in Nat
        /\ bb + o = b
    BY <1>3, <1>4, OneType DEF Numbers
  <2>2. /\ Below(p, j, k) = a + b + d + f /\ Below(p, j, k)' = a + bb + d + f
        /\ One(r, Holding(p, j, k)) = o
    BY <1>5 DEF Below, SameAtL1
  <2> HIDE DEF a, b, d, f, bb, o, r
  <2> QED BY <2>1, <2>2
<1>7. \A j \in DOMAIN p : One(r, Holding(p, j, Waited)) = 0 /\ One(r, Holding(p, j, Alone)) = One(j, {r.id})
  BY OneSide
<1>8. ASSUME NEW j \in DOMAIN p PROVE Below(p, j, Waited)' = Below(p, j, Waited)
  <2>1. Below(p, j, Waited)' + One(r, Holding(p, j, Waited)) = Below(p, j, Waited)
    BY <1>1, <1>6
  <2>2. Below(p, j, Waited)' \in Nat /\ One(r, Holding(p, j, Waited)) = 0
    BY <1>1, <1>3, <1>7 DEF Numbers
  <2> QED BY <2>1, <2>2
<1>9. \A j \in DOMAIN p : InMSHR(p, j)' = InMSHR(p, j)
  BY SameL1 DEF SameMSHRs, SameMains
<1>10. ASSUME NEW j \in DOMAIN p PROVE Held(p, j)' = Held(p, j)
  <2> DEFINE b == Below(p, j, Alone)
             bb == Below(p, j, Alone)'
             f == InFlush(p, j)
             ff == InFlush(p, j)'
             h == InMSHR(p, j)
             d == done.count[j]
             o == One(j, {r.id})
             g == One(j, ids)
             t == One(j, told)
  <2>1. /\ b \in Nat /\ bb \in Nat /\ f \in Nat /\ ff \in Nat /\ h \in Nat /\ d \in Nat
        /\ o \in Nat /\ g \in Nat /\ t \in Nat
    <3>1. d \in Nat
      BY InvParts
    <3>2. b \in Nat /\ bb \in Nat /\ f \in Nat /\ ff \in Nat /\ h \in Nat
      BY <1>1, <1>3 DEF Numbers
    <3> QED BY <3>1, <3>2, OneType
  <2>2. ff = f + t /\ g + t = o
    BY DEF Answers1
  <2>3. bb + o = b
    BY <1>1, <1>6, <1>7
  <2>4. Held(p, j) = d + b + h + f /\ Held(p, j)' = (d + g) + bb + h + ff
    BY <1>2, <1>9 DEF Held
  <2> HIDE DEF b, bb, f, ff, h, d, o, g, t
  <2>5. (d + g) + bb + h + ff = d + b + h + f
    BY <2>1, <2>2, <2>3
  <2> QED BY <2>4, <2>5
<1>11. SameLoad(p)
  BY <1>8, <1>10 DEF SameLoad
<1> QED BY <1>2, <1>11, MovesKeep DEF SameMSHRs

LEMMA FlushPurge2Keeps ==
  ASSUME NEW p \in Programs, Inv(p), FlushPurge2
  PROVE  Inv(p)'
<1> DEFINE r == Head(l2.req)
<1>1. /\ L1Type(p) /\ L2Type(p) /\ RestType(p) /\ BusLife(p)
  BY Zenon, InvParts
<1>2. l2.req # <<>> /\ r.progress = 0 /\ r.kind \in {"FLUSHC", "PURGEC"}
  BY DEF FlushPurge2, Fresh
<1>3. r \in Requests(p) /\ ~r.l1mshr /\ r.kind \in Kinds /\ Tail(l2.req) \in Seq(Requests(p) \cup WriteBacks)
  BY <1>1, <1>2, HeadOfL2, RequestType DEF Access
<1>4. PICK x \in Lines : x = r.line
  BY Zenon, <1>3, RequestType
<1> DEFINE m == l2.mshr[x]
           hit == ~m.valid /\ Miss(l2.ways, x) = 0
           invalidate == [NoMessage EXCEPT !.line = x, !.own = TRUE]
           flush == [invalidate EXCEPT !.flush = r, !.dirty = State(l2.ways, x) = "PR_DY"]
           W == IF hit THEN Drop(l2.ways, x) ELSE l2.ways
           k == IF m.valid THEN r.kind ELSE m.pend
           n == [m EXCEPT !.pend = k]
           M == [l2.mshr EXCEPT ![x] = n]
           t == Tail(l2.req)
<1>5. /\ l2' = [l2 EXCEPT !.req = t, !.ways = W, !.mshr = M]
      /\ l1' = IF ~hit THEN l1
               ELSE IF r.kind = "FLUSHC" THEN ToBoth(flush, invalidate)
               ELSE [l1 EXCEPT !["I"] = Tell("I", invalidate)]
      /\ done' = Perform(PerformedNow(r)) /\ bus' = bus
  BY <1>4 DEF FlushPurge2
<1>6. PerformedNow(r) = IF r.kind = "FLUSHC" /\ hit THEN {} ELSE {r.id}
  BY <1>4 DEF PerformedNow
<1>7. /\ l2 = [req |-> l2.req, reply |-> l2.reply, cohe |-> l2.cohe, data |-> l2.data, ways |-> l2.ways,
               mshr |-> l2.mshr]
      /\ L2Fits(p, l2.req, l2.reply, l2.cohe, l2.data, l2.ways, l2.mshr)
  BY <1>1, L2Shape
<1>8. m \in MSHRs(OfLine(p, x), 1 .. Ways2)
  BY <1>7 DEF L2Fits
<1>9. k \in Kinds
  BY <1>3, <1>8 DEF MSHRs
<1>10. W \in [1 .. Ways2 -> Tags]
  BY <1>7, WaysType, HierarchyAssumption DEF L2Fits
<1>11. Plain(p, invalidate) /\ flush \in Messages(p) /\ flush.kind = "COHE" /\ flush.flush = r
  <2> DEFINE f == FALSE
             b == TRUE
             o == NoMessage
  <2>1. o = [kind |-> "COHE", line |-> NoLine, sh |-> f, to |-> "INVALIDATE", own |-> f,
             flush |-> NoRequest, dirty |-> f, stuck |-> f, wrb |-> NoLine]
    BY DEF NoMessage
  <2>2. x \in AnyLine /\ f \in BOOLEAN /\ b \in BOOLEAN
    BY DEF AnyLine
  <2>3. PICK d \in BOOLEAN : d = (State(l2.ways, x) = "PR_DY")
    OBVIOUS
  <2>4. invalidate = [o EXCEPT !.line = x, !.own = b] /\ flush = [invalidate EXCEPT !.flush = r, !.dirty = d]
    BY <2>3
  <2> HIDE DEF o, invalidate, flush, r
  <2>5. Message(invalidate, x, "INVALIDATE", b, NoRequest, f)
    <3> HIDE DEF b
    <3>1. invalidate = [kind |-> "COHE", line |-> x, sh |-> f, to |-> "INVALIDATE", own |-> b,
                        flush |-> NoRequest, dirty |-> f, stuck |-> f, wrb |-> NoLine]
      <4> HIDE DEF f
      <4> QED BY <2>1, <2>4
    <3> QED BY <3>1 DEF Message
  <2>6. Message(flush, x, "INVALIDATE", b, r, d)
    <3> HIDE DEF b
    <3>1. invalidate = [kind |-> "COHE", line |-> x, sh |-> f, to |-> "INVALIDATE", own |-> b,
                        flush |-> NoRequest, dirty |-> f, stuck |-> f, wrb |-> NoLine]
      BY <2>5 DEF Message
    <3>2. flush = [kind |-> "COHE", line |-> x, sh |-> f, to |-> "INVALIDATE", own |-> b,
                   flush |-> r, dirty |-> d, stuck |-> f, wrb |-> NoLine]
      <4> HIDE DEF f
      <4> DEFINE u == [invalidate EXCEPT !.flush = r]
      <4>1. u = [kind |-> "COHE", line |-> x, sh |-> f, to |-> "INVALIDATE", own |-> b,
                 flush |-> r, dirty |-> f, stuck |-> f, wrb |-> NoLine]
        BY <3>1
      <4>2. flush = [u EXCEPT !.dirty = d]
        BY <2>4, <3>1
      <4> HIDE DEF u
      <4> QED BY <4>1, <4>2
    <3> QED BY <3>2 DEF Message
  <2> HIDE DEF f, b
  <2>7. invalidate \in Messages(p) /\ invalidate.kind = "COHE" /\ invalidate.flush = NoRequest
    BY <2>2, <2>5, MessageType
  <2>8. flush \in Messages(p) /\ flush.kind = "COHE" /\ flush.flush = r
    BY <1>3, <2>2, <2>6, MessageType
  <2> QED BY <2>7, <2>8 DEF Plain
<1>12. n \in MSHRs(OfLine(p, x), 1 .. Ways2) /\ Alike(n, m) /\ n.bus = m.bus
  <2> DEFINE S == OfLine(p, x)
             ways == 1 .. Ways2
  <2>1. m \in MSHRs(S, ways) /\ n = [m EXCEPT !.pend = k]
    BY <1>8
  <2> HIDE DEF m, S, ways, n, k
  <2>2. n \in MSHRs(S, ways) /\ Alike(n, m)
    BY <1>9, <2>1, MSHRChanged
  <2>3. n.bus = m.bus
    BY <2>1 DEF MSHRs
  <2> QED BY <2>2, <2>3 DEF S, ways
<1> HIDE DEF n, k, W
<1>13. /\ M = [y \in Lines |-> M[y]] /\ \A y \in Lines : M[y] \in MSHRs(OfLine(p, y), 1 .. Ways2)
       /\ M[x] = n /\ \A y \in Lines : y # x => M[y] = l2.mshr[y]
  BY <1>1, <1>12, OneMSHR2
<1> HIDE DEF M
<1>14. L2Becomes(t, l2.reply, l2.cohe, l2.data, W, M)
  <2> HIDE DEF t
  <2> QED BY <1>5, <1>7 DEF L2Becomes
<1>15. l2'.req = t /\ l2'.data = l2.data /\ l2'.mshr = M /\ l2'.cohe = l2.cohe /\ l2'.reply = l2.reply
  BY <1>14 DEF L2Becomes
<1>16. L2Fits(p, t, l2.reply, l2.cohe, l2.data, W, M)
  BY <1>3, <1>7, <1>10, <1>13 DEF L2Fits
<1>17. L2Type(p)'
  BY <1>14, <1>16, L2Kept
<1>18. SameFills(p) /\ SameLives /\ SameHolders2
  BY <1>12, <1>13, <1>15 DEF SameFills, SameLives, Alike, SameHolders2
<1>19. BusLife(p)'
  BY <1>1, <1>15, <1>18, BusLifeKept
<1> DEFINE ids == PerformedNow(r)
           told == IF r.kind = "FLUSHC" /\ hit THEN {r.id} ELSE {}
<1>20. \A j \in DOMAIN p : One(j, ids) + One(j, told) = One(j, {r.id})
  <2> HIDE DEF hit, r
  <2> SUFFICES ASSUME NEW j \in DOMAIN p PROVE One(j, ids) + One(j, told) = One(j, {r.id})
    OBVIOUS
  <2> QED BY <1>6 DEF One
<1>21. L1Type(p)' /\ SameAtL1(p) /\ SameMSHRs /\ SameReplies(p)
       /\ \A j \in DOMAIN p : InFlush(p, j)' = InFlush(p, j) + One(j, told)
  <2>1. CASE r.kind = "FLUSHC" /\ hit
    <3>1. l1' = ToBoth(flush, invalidate) /\ told = {flush.flush.id}
      BY <1>5, <1>11, <2>1
    <3> HIDE DEF flush, invalidate, told
    <3>2. /\ L1Type(p)' /\ SameAtL1(p) /\ SameMSHRs /\ SameReplies(p)
          /\ \A j \in DOMAIN p : InFlush(p, j)' = InFlush(p, j) + One(j, {flush.flush.id})
      BY <1>1, <1>11, <3>1, FlushTold
    <3> QED BY <3>1, <3>2
  <2>2. CASE ~(r.kind = "FLUSHC" /\ hit)
    <3>1. Quiet1(p)
      <4>1. CASE ~hit
        BY <1>1, <1>5, <4>1, Quiet1Same
      <4>2. CASE hit
        <5>1. ToldInstruction(invalidate)
          BY <1>5, <2>2, <4>2 DEF ToldInstruction
        <5> HIDE DEF invalidate
        <5> QED BY <1>1, <1>11, <5>1, InstructionTold
      <4> QED BY <4>1, <4>2
    <3>2. \A j \in DOMAIN p : One(j, told) = 0 /\ InFlush(p, j) \in Nat
      <4>1. told = {}
        BY <2>2
      <4>2. \A j \in DOMAIN p : InFlush(p, j) \in Nat
        BY <1>1, NumbersNext DEF Numbers
      <4> QED BY <4>1, <4>2 DEF One
    <3> HIDE DEF told
    <3> QED BY <3>1, <3>2 DEF Quiet1, SameFlushes
  <2> QED BY <2>1, <2>2
<1> HIDE DEF told, ids
<1>22. Answers1(p, r, ids, told)
  BY <1>20, <1>21 DEF Answers1
<1>23. done' = Perform(ids) /\ bus' = bus
  BY <1>5 DEF ids
<1> QED BY <1>2, <1>3, <1>15, <1>17, <1>18, <1>19, <1>21, <1>22, <1>23, HeadAnswered

\* The replies of the data pipe join the queue of a first-level cache one by one.
LEMMA SmallestExists ==
  ASSUME NEW S \in SUBSET Nat, S # {}
  PROVE  \E n \in S : \A o \in S : n <= o
<1> DEFINE R == {ss \in Nat \X Nat : ss[1] < ss[2]}
<1>1. IsWellFoundedOn(R, Nat)
  BY NatLessThanWellFounded DEF OpToRel
<1> HIDE DEF R
<1>2. PICK n \in S : \A o \in S : ~(<<o, n>> \in R)
  BY <1>1, WFMin
<1>3. n \in Nat /\ \A o \in S : o \in Nat
  OBVIOUS
<1>4. \A o \in S : ~(o < n)
  BY <1>2, <1>3 DEF R
<1> QED BY <1>3, <1>4

DownStep(d, rs, c, k) == IF Waits(rs, k) /\ rs[k].cache = c THEN Append(d, Reply(rs[k])) ELSE d
Downs(f, d, rs, c, n) == f = [k \in 0 .. n |-> IF k = 0 THEN d ELSE DownStep(f[k - 1], rs, c, k)]

LEMMA DownsExist ==
  ASSUME NEW d, NEW rs, NEW c, NEW n \in Nat
  PROVE  \E f : Downs(f, d, rs, c, n)
<1> DEFINE B == {k \in Nat : ~\E f : Downs(f, d, rs, c, k)}
<1> SUFFICES ASSUME B # {} PROVE FALSE
  OBVIOUS
<1>1. PICK k \in B : \A o \in B : k <= o
  <2> B \in SUBSET Nat
    OBVIOUS
  <2> HIDE DEF B
  <2> QED BY SmallestExists
<1>2. k \in Nat /\ ~\E f : Downs(f, d, rs, c, k)
  OBVIOUS
<1>3. CASE k = 0
  <2> DEFINE g == [j \in 0 .. 0 |-> d]
  <2>1. g = [j \in 0 .. 0 |-> IF j = 0 THEN d ELSE DownStep(g[j - 1], rs, c, j)]
    OBVIOUS
  <2> QED BY <1>2, <1>3, <2>1 DEF Downs
<1>4. CASE k # 0
  <2>1. k - 1 \in Nat /\ k - 1 \notin B
    BY <1>1, <1>2, <1>4
  <2>2. PICK f : Downs(f, d, rs, c, k - 1)
    BY <2>1
  <2> DEFINE g == [j \in 0 .. k |-> IF j = k THEN DownStep(f[k - 1], rs, c, k) ELSE f[j]]
  <2>3. ASSUME NEW j \in 0 .. k PROVE g[j] = IF j = 0 THEN d ELSE DownStep(g[j - 1], rs, c, j)
    <3>1. f = [i \in 0 .. k - 1 |-> IF i = 0 THEN d ELSE DownStep(f[i - 1], rs, c, i)]
      BY <2>2 DEF Downs
    <3>2. CASE j = k
      BY <1>2, <1>4, <3>2
    <3>3. CASE j # k
      <4>1. j \in 0 .. k - 1 /\ g[j] = f[j]
        BY <1>2, <3>3
      <4>2. j # 0 => g[j - 1] = f[j - 1]
        BY <1>2, <3>3
      <4> HIDE DEF g
      <4> QED BY <3>1, <4>1, <4>2
    <3> QED BY <3>2, <3>3
  <2>4. g = [j \in 0 .. k |-> g[j]]
    OBVIOUS
  <2> HIDE DEF g
  <2>5. Downs(g, d, rs, c, k)
    BY <2>3, <2>4 DEF Downs
  <2> QED BY <1>2, <2>5
<1> QED BY <1>3, <1>4

\* The requests for which an MSHR of the first level waits, and what their replies count for.
Waiters(p, c, x) == {r \in Requests(p) : r.l1mshr /\ r.cache = c /\ r.line = x}

LEMMA ReplyType ==
  ASSUME NEW p \in Programs, NEW r \in Requests(p)
  PROVE  /\ Reply(r) \in Messages(p)
         /\ \A x : One(Reply(r), RepliesOf(p, x)) = IF r.line = x THEN 1 ELSE 0
         /\ \A j \in DOMAIN p : One(Reply(r), FlushesOf(p, j)) = 0
<1> DEFINE f == FALSE
           o == NoMessage
           e == Reply(r)
<1>1. o = [kind |-> "COHE", line |-> NoLine, sh |-> f, to |-> "INVALIDATE", own |-> f,
           flush |-> NoRequest, dirty |-> f, stuck |-> f, wrb |-> NoLine]
  BY DEF NoMessage
<1>2. e = [o EXCEPT !.kind = "REPLY", !.line = r.line, !.sh = r.sh]
  BY DEF Reply
<1>3. f \in BOOLEAN /\ r.line \in Lines /\ r.line \in AnyLine /\ r.sh \in BOOLEAN
  BY RequestType, RequestShape DEF AnyLine
<1> HIDE DEF f, o, e
<1>4. e = [kind |-> "REPLY", line |-> r.line, sh |-> r.sh, to |-> "INVALIDATE", own |-> f,
           flush |-> NoRequest, dirty |-> f, stuck |-> f, wrb |-> NoLine]
  <2> DEFINE a == [o EXCEPT !.kind = "REPLY"]
             b == [a EXCEPT !.line = r.line]
  <2>1. a = [kind |-> "REPLY", line |-> NoLine, sh |-> f, to |-> "INVALIDATE", own |-> f,
             flush |-> NoRequest, dirty |-> f, stuck |-> f, wrb |-> NoLine]
    BY <1>1
  <2>2. e = [b EXCEPT !.sh = r.sh]
    BY <1>1, <1>2
  <2> HIDE DEF a
  <2>3. b = [kind |-> "REPLY", line |-> r.line, sh |-> f, to |-> "INVALIDATE", own |-> f,
             flush |-> NoRequest, dirty |-> f, stuck |-> f, wrb |-> NoLine]
    BY <2>1
  <2> HIDE DEF b
  <2> QED BY <2>2, <2>3
<1>5. NoLine \in AnyLine
  BY DEF AnyLine
<1>6. e \in Messages(p) /\ e.kind = "REPLY" /\ e.line = r.line
  BY <1>3, <1>4, <1>5 DEF Messages
<1>7. \A x : One(e, RepliesOf(p, x)) = IF r.line = x THEN 1 ELSE 0
  BY <1>6 DEF RepliesOf, One
<1>8. \A j \in DOMAIN p : One(e, FlushesOf(p, j)) = 0
  BY <1>6 DEF FlushesOf, One
<1> QED BY <1>6, <1>7, <1>8 DEF e

LEMMA DownsCount ==
  ASSUME NEW p \in Programs, NEW d \in Seq(Messages(p)), NEW rs \in Seq(Requests(p)), NEW c,
         NEW f, Downs(f, d, rs, c, Len(rs))
  PROVE  /\ f[Len(rs)] \in Seq(Messages(p))
         /\ \A x : Count(f[Len(rs)], RepliesOf(p, x)) = Count(d, RepliesOf(p, x)) + Count(rs, Waiters(p, c, x))
         /\ \A j \in DOMAIN p : Count(f[Len(rs)], FlushesOf(p, j)) = Count(d, FlushesOf(p, j))
<1> DEFINE n == Len(rs)
           s(k) == SubSeq(rs, 1, k)
           Good(k) ==
             /\ f[k] \in Seq(Messages(p))
             /\ \A x : Count(f[k], RepliesOf(p, x)) = Count(d, RepliesOf(p, x)) + Count(s(k), Waiters(p, c, x))
             /\ \A j \in DOMAIN p : Count(f[k], FlushesOf(p, j)) = Count(d, FlushesOf(p, j))
           B == {k \in 0 .. n : ~Good(k)}
<1>1. n \in Nat /\ \A k \in 1 .. n : rs[k] \in Requests(p)
  OBVIOUS
<1>2. \A k \in 0 .. n : f[k] = IF k = 0 THEN d ELSE DownStep(f[k - 1], rs, c, k)
  BY DEF Downs
<1>3. \A k \in 1 .. n : s(k) = Append(s(k - 1), rs[k]) /\ s(k - 1) \in Seq(Requests(p))
  <2> SUFFICES ASSUME NEW k \in 1 .. n PROVE s(k) = Append(s(k - 1), rs[k]) /\ s(k - 1) \in Seq(Requests(p))
    OBVIOUS
  <2>1. s(k) \in Seq(Requests(p)) /\ s(k - 1) \in Seq(Requests(p)) /\ Len(s(k)) = k /\ Len(s(k - 1)) = k - 1
    BY <1>1
  <2> QED BY <1>1, <2>1
<1>4. s(0) = <<>> /\ s(n) = rs
  BY <1>1
<1> HIDE DEF s
<1>5. Good(0)
  <2>1. f[0] = d
    BY <1>1, <1>2
  <2>2. \A x : Count(d, RepliesOf(p, x)) \in Nat
    BY CountType
  <2> QED BY <1>4, <2>1, <2>2, CountEmpty
<1>6. ASSUME NEW k \in 1 .. n, Good(k - 1) PROVE Good(k)
  <2> DEFINE r == rs[k]
             h == f[k - 1]
  <2>1. r \in Requests(p) /\ h \in Seq(Messages(p)) /\ r.l1mshr \in BOOLEAN
    BY <1>1, <1>6, RequestType
  <2>2. f[k] = IF r.l1mshr /\ r.cache = c THEN Append(h, Reply(r)) ELSE h
    BY <1>1, <1>2 DEF DownStep, Waits
  <2>3. \A x : /\ Count(s(k), Waiters(p, c, x)) = Count(s(k - 1), Waiters(p, c, x)) + One(r, Waiters(p, c, x))
               /\ Count(s(k - 1), Waiters(p, c, x)) \in Nat
    <3> DEFINE u == s(k - 1)
    <3>1. u \in Seq(Requests(p)) /\ s(k) = Append(u, r)
      BY <1>3
    <3> HIDE DEF u, r
    <3>2. \A P : Count(Append(u, r), P) = Count(u, P) + One(r, P)
      BY <2>1, <3>1, CountAppend
    <3>3. \A P : Count(u, P) \in Nat
      BY <3>1, CountType
    <3> QED BY <3>1, <3>2, <3>3 DEF u
  <2>4. /\ \A x : Count(d, RepliesOf(p, x)) \in Nat
        /\ \A j \in DOMAIN p : Count(d, FlushesOf(p, j)) \in Nat
    BY CountType
  <2> HIDE DEF r, h
  <2>5. CASE r.l1mshr /\ r.cache = c
    <3>1. Reply(r) \in Messages(p) /\ f[k] = Append(h, Reply(r))
      BY <2>1, <2>2, <2>5, ReplyType
    <3>2. \A P : Count(Append(h, Reply(r)), P) = Count(h, P) + One(Reply(r), P)
      BY <2>1, <3>1, CountAppend
    <3>3. ASSUME NEW x
          PROVE  Count(f[k], RepliesOf(p, x)) = Count(d, RepliesOf(p, x)) + Count(s(k), Waiters(p, c, x))
      <4>1. One(Reply(r), RepliesOf(p, x)) = One(r, Waiters(p, c, x)) /\ One(r, Waiters(p, c, x)) \in Nat
        <5>1. One(Reply(r), RepliesOf(p, x)) = IF r.line = x THEN 1 ELSE 0
          BY <2>1, ReplyType
        <5>2. One(r, Waiters(p, c, x)) = IF r.line = x THEN 1 ELSE 0
          BY <2>1, <2>5 DEF Waiters, One
        <5> QED BY <5>1, <5>2
      <4>2. Count(h, RepliesOf(p, x)) = Count(d, RepliesOf(p, x)) + Count(s(k - 1), Waiters(p, c, x))
        BY <1>6 DEF h
      <4> QED BY <2>3, <2>4, <3>1, <3>2, <4>1, <4>2
    <3>4. ASSUME NEW j \in DOMAIN p PROVE Count(f[k], FlushesOf(p, j)) = Count(d, FlushesOf(p, j))
      <4>1. One(Reply(r), FlushesOf(p, j)) = 0
        BY <2>1, ReplyType
      <4>2. Count(h, FlushesOf(p, j)) = Count(d, FlushesOf(p, j))
        BY <1>6 DEF h
      <4> QED BY <2>4, <3>1, <3>2, <4>1, <4>2
    <3>5. f[k] \in Seq(Messages(p))
      BY <2>1, <3>1
    <3> QED BY <3>3, <3>4, <3>5
  <2>6. CASE ~(r.l1mshr /\ r.cache = c)
    <3>1. f[k] = h
      BY <2>2, <2>6
    <3>2. \A x : One(r, Waiters(p, c, x)) = 0
      BY <2>6 DEF Waiters, One
    <3>3. \A x : Count(s(k), Waiters(p, c, x)) = Count(s(k - 1), Waiters(p, c, x))
      BY <2>3, <3>2
    <3> QED BY <1>6, <3>1, <3>3 DEF h
  <2> QED BY <2>5, <2>6
<1>7. B = {}
  <2> SUFFICES ASSUME B # {} PROVE FALSE
    OBVIOUS
  <2>1. B \in SUBSET Nat
    BY <1>1
  <2>2. PICK k \in B : \A o \in B : k <= o
    <3> HIDE DEF B
    <3> QED BY <2>1, SmallestExists
  <2> HIDE DEF Good
  <2>3. k \in 0 .. n /\ ~Good(k)
    OBVIOUS
  <2>4. k # 0 /\ k \in 1 .. n /\ k - 1 \in 0 .. n
    BY <1>1, <1>5, <2>3
  <2>5. k - 1 \notin B
    <3>1. k \in Nat
      BY <1>1, <2>3
    <3> HIDE DEF B
    <3> QED BY <2>2, <3>1
  <2>6. Good(k - 1)
    BY <2>4, <2>5
  <2> QED BY <1>6, <2>3, <2>4, <2>6
<1>8. Good(n)
  <2> HIDE DEF Good
  <2> QED BY <1>1, <1>7
<1> QED BY <1>4, <1>8

LEMMA Delivering ==
  ASSUME NEW p \in Programs, L1Type(p), NEW rs \in Seq(Requests(p)), l1' = Deliver(rs)
  PROVE  /\ L1Type(p)' /\ SameAtL1(p) /\ SameMSHRs /\ SameFlushes(p)
         /\ \A c \in Caches, x \in Lines : ReplyCount(p, c, x)' = ReplyCount(p, c, x) + Count(rs, Waiters(p, c, x))
<1> DEFINE F(c) == CHOOSE f : Downs(f, l1[c].down, rs, c, Len(rs))
           D == [c \in Caches |-> F(c)[Len(rs)]]
<1>1. l1' = [c \in Caches |-> [l1[c] EXCEPT !.down = F(c)[Len(rs)]]]
  BY Zenon DEF Deliver, Downs, DownStep
<1>2. \A c \in Caches : Downs(F(c), l1[c].down, rs, c, Len(rs))
  BY DownsExist
<1> HIDE DEF F
<1>3. \A c \in Caches : l1[c].down \in Seq(Messages(p))
  BY DEF L1Type
<1>4. ASSUME NEW c \in Caches
      PROVE  /\ D[c] \in Seq(Messages(p))
             /\ \A x : Count(D[c], RepliesOf(p, x)) = Count(l1[c].down, RepliesOf(p, x)) + Count(rs, Waiters(p, c, x))
             /\ \A j \in DOMAIN p : Count(D[c], FlushesOf(p, j)) = Count(l1[c].down, FlushesOf(p, j))
  <2>1. D[c] = F(c)[Len(rs)]
    OBVIOUS
  <2> HIDE DEF D
  <2> QED BY <1>2, <1>3, <2>1, DownsCount
<1>5. DownBecomes(D)
  <2>1. ASSUME NEW c \in Caches
        PROVE  l1'[c] = [req |-> l1[c].req, down |-> D[c], ways |-> l1[c].ways, mshr |-> l1[c].mshr]
    <3>1. l1[c] = [req |-> l1[c].req, down |-> l1[c].down, ways |-> l1[c].ways, mshr |-> l1[c].mshr]
      BY L1Shape
    <3>2. l1'[c] = [l1[c] EXCEPT !.down = D[c]]
      BY <1>1
    <3> HIDE DEF D
    <3> QED BY <3>1, <3>2
  <2>2. l1' = [c \in Caches |-> l1'[c]]
    BY <1>1
  <2> HIDE DEF D
  <2> QED BY <2>1, <2>2 DEF DownBecomes
<1> HIDE DEF D
<1>6. /\ L1Type(p)'
      /\ \A c \in Caches : /\ l1'[c].req = l1[c].req /\ l1'[c].down = D[c]
                           /\ l1'[c].ways = l1[c].ways /\ l1'[c].mshr = l1[c].mshr
  BY <1>4, <1>5, DownKept
<1>7. SameAtL1(p) /\ SameMSHRs
  BY <1>6, SameL1 DEF SameAtL1, SameMSHRs, SameMains
<1>8. SameFlushes(p)
  <2>1. "D" \in Caches
    BY Zenon DEF Caches
  <2> QED BY <1>4, <1>6, <2>1 DEF SameFlushes, InFlush
<1>9. \A c \in Caches, x \in Lines : ReplyCount(p, c, x)' = ReplyCount(p, c, x) + Count(rs, Waiters(p, c, x))
  BY Zenon, <1>4, <1>6 DEF ReplyCount
<1> QED BY <1>6, <1>7, <1>8, <1>9

\* What leaves the data pipe of the second level goes up to the MSHR that waits for
\* it, or is performed.
PerformedIds(rs) == {rs[k].id : k \in {j \in DOMAIN rs : ~Waits(rs, j)}}
LeavesBelow(p, rs) ==
  \A j \in DOMAIN p, w \in BOOLEAN : Below(p, j, w)' + Count(rs, Holding(p, j, w)) = Below(p, j, w)
GoesUp(p, rs) ==
  \A c \in Caches, x \in Lines : ReplyCount(p, c, x)' = ReplyCount(p, c, x) + Count(rs, Waiters(p, c, x))

\* The request that waits in an MSHR above is the first of that MSHR.
LEMMA WaiterIsMain ==
  ASSUME NEW p \in Programs, Inv(p), NEW rs \in Seq(Requests(p)), LeavesBelow(p, rs), L1Type(p)', L2Type(p)',
         NEW k \in 1 .. Len(rs), rs[k].l1mshr
  PROVE  l1[rs[k].cache].mshr[rs[k].line].main.id = rs[k].id
<1> DEFINE r == rs[k]
           i == rs[k].id
<1>1. L1Type(p) /\ L2Type(p) /\ MSHRCarried(p) /\ Waited \in BOOLEAN
  BY InvParts
<1>2. r \in Requests(p)
  OBVIOUS
<1>3. i \in DOMAIN p /\ r.line = p[i].line /\ r.cache = p[i].cache
  BY <1>2, RequestType
<1>4. r \in Holding(p, i, Waited)
  BY <1>2, <1>3 DEF Holding, Waited
<1>5. Count(rs, Holding(p, i, Waited)) \in Nat /\ Count(rs, Holding(p, i, Waited)) # 0
  BY <1>4, CountType
<1>6. Below(p, i, Waited) \in Nat /\ Below(p, i, Waited)' \in Nat
  BY <1>1, <1>3, NumbersNext DEF Numbers
<1>7. Below(p, i, Waited)' + Count(rs, Holding(p, i, Waited)) = Below(p, i, Waited)
  BY <1>1, <1>3 DEF LeavesBelow
<1>8. Below(p, i, Waited) # 0
  BY <1>5, <1>6, <1>7
<1> QED BY <1>1, <1>3, <1>8 DEF MSHRCarried

LEMMA DeliveredKeeps ==
  ASSUME NEW p \in Programs, Inv(p), NEW rs \in Seq(Requests(p)), L1Type(p)', L2Type(p)', BusLife(p)', bus' = bus,
         SameMSHRs, SameFlushes(p), GoesUp(p, rs), LeavesBelow(p, rs), done' = Perform(PerformedIds(rs))
  PROVE  Inv(p)'
<1> DEFINE ids == PerformedIds(rs)
<1>1. /\ L1Type(p) /\ L2Type(p) /\ RestType(p) /\ BusLife(p) /\ MSHRCarried(p) /\ AccessHeld(p) /\ ~done.fault
      /\ Waited \in BOOLEAN /\ Alone \in BOOLEAN
  BY InvParts
<1>2. /\ RestType(p)' /\ done'.fault = done.fault /\ Issued' = Issued
      /\ \A j \in DOMAIN p : done'.count[j] = done.count[j] + One(j, ids)
  BY <1>1, Performed
<1>3. Numbers(p) /\ Numbers(p)'
  BY <1>1, NumbersNext
<1>4. \A P : Count(rs, P) \in Nat /\ (Count(rs, P) = 0 <=> \A k \in 1 .. Len(rs) : rs[k] \notin P)
  BY CountType
<1>5. \A k \in 1 .. Len(rs) : rs[k] \in Requests(p)
  OBVIOUS
<1>6. \A j \in DOMAIN p : InMSHR(p, j)' = InMSHR(p, j)
  BY SameL1 DEF SameMSHRs, SameMains
<1>7. ASSUME NEW j \in DOMAIN p PROVE Held(p, j)' = Held(p, j)
  <2> DEFINE b == Below(p, j, Alone)
             bb == Below(p, j, Alone)'
             f == InFlush(p, j)
             h == InMSHR(p, j)
             d == done.count[j]
             o == Count(rs, Holding(p, j, Alone))
             g == One(j, ids)
  <2>1. /\ b \in Nat /\ bb \in Nat /\ f \in Nat /\ h \in Nat /\ d \in Nat /\ o \in Nat /\ g \in {0, 1}
        /\ bb + o = b
    <3>1. d \in Nat
      BY InvParts
    <3>2. bb + o = b
      BY <1>1 DEF LeavesBelow
    <3>3. b \in Nat /\ bb \in Nat /\ f \in Nat /\ h \in Nat
      BY <1>1, <1>3 DEF Numbers
    <3> QED BY <1>4, <3>1, <3>2, <3>3, OneType
  <2>2. d + b + h + f \in {0, 1}
    BY <1>1 DEF AccessHeld
  <2>3. g = 0 <=> o = 0
    <3>1. j \in ids <=> \E k \in 1 .. Len(rs) : rs[k].id = j /\ ~rs[k].l1mshr
      BY DEF PerformedIds, Waits
    <3>2. o = 0 <=> \A k \in 1 .. Len(rs) : ~(rs[k].id = j /\ rs[k].l1mshr = Alone)
      BY <1>1, <1>4, <1>5, OneRequest
    <3>3. \A k \in 1 .. Len(rs) : rs[k].l1mshr \in BOOLEAN
      BY <1>5, RequestType
    <3>4. g = 0 <=> j \notin ids
      BY OneType
    <3> HIDE DEF ids, o, g
    <3> QED BY <3>1, <3>2, <3>3, <3>4 DEF Alone
  <2>4. Held(p, j) = d + b + h + f /\ Held(p, j)' = (d + g) + bb + h + f
    BY <1>2, <1>6 DEF Held, SameFlushes
  <2> HIDE DEF b, bb, f, h, d, o, g
  <2>5. o = g
    BY <2>1, <2>2, <2>3
  <2>6. (d + g) + bb + h + f = d + b + h + f
    BY <2>1, <2>5
  <2> QED BY <2>4, <2>6
<1>8. AccessHeld(p)'
  BY <1>1, <1>2, <1>7, HeldKept
<1>9. ASSUME NEW j \in DOMAIN p
      PROVE  LET c == p[j].cache  x == p[j].line
             IN Below(p, j, Waited)' = IF l1'[c].mshr[x].main.id = j THEN 1 - ReplyCount(p, c, x)' ELSE 0
  <2> DEFINE c == p[j].cache
             x == p[j].line
             b == Below(p, j, Waited)
             bb == Below(p, j, Waited)'
             o == Count(rs, Holding(p, j, Waited))
             u == Count(rs, Waiters(p, c, x))
             q == ReplyCount(p, c, x)
             qq == ReplyCount(p, c, x)'
  <2>1. c \in Caches /\ x \in Lines
    BY ProgramType
  <2>2. /\ b \in Nat /\ bb \in Nat /\ o \in Nat /\ u \in Nat /\ q \in Nat /\ qq \in Nat
        /\ bb + o = b /\ qq = q + u
    <3>1. bb + o = b
      BY <1>1 DEF LeavesBelow
    <3>2. qq = q + u
      BY <2>1 DEF GoesUp
    <3>3. b \in Nat /\ bb \in Nat /\ q \in Nat /\ qq \in Nat
      BY <1>1, <1>3, <2>1 DEF Numbers
    <3> QED BY <1>4, <3>1, <3>2, <3>3
  <2>3. b = IF l1[c].mshr[x].main.id = j THEN 1 - q ELSE 0
    BY <1>1 DEF MSHRCarried
  <2>4. l1'[c].mshr[x].main.id = l1[c].mshr[x].main.id
    BY <2>1 DEF SameMSHRs, SameMains
  <2>5. l1[c].mshr[x].main.id = j => o = u
    <3> SUFFICES ASSUME l1[c].mshr[x].main.id = j PROVE o = u
      OBVIOUS
    <3>1. ASSUME NEW k \in 1 .. Len(rs) PROVE rs[k] \in Holding(p, j, Waited) <=> rs[k] \in Waiters(p, c, x)
      <4>1. rs[k] \in Requests(p) /\ rs[k].l1mshr \in BOOLEAN
        BY <1>5, RequestType
      <4>2. CASE rs[k] \in Holding(p, j, Waited)
        <5>1. rs[k].id = j /\ rs[k].l1mshr /\ rs[k].line = p[rs[k].id].line /\ rs[k].cache = p[rs[k].id].cache
          BY <4>1, <4>2, RequestType DEF Holding, Waited
        <5> QED BY <4>1, <4>2, <5>1 DEF Waiters
      <4>3. CASE rs[k] \in Waiters(p, c, x)
        <5>1. rs[k].l1mshr /\ rs[k].cache = c /\ rs[k].line = x
          BY <4>3 DEF Waiters
        <5>2. l1[rs[k].cache].mshr[rs[k].line].main.id = rs[k].id
          BY Zenon, <5>1, WaiterIsMain
        <5>3. rs[k].id = j
          BY <5>1, <5>2
        <5> QED BY <4>1, <4>3, <5>1, <5>3 DEF Holding, Waited
      <4> QED BY <4>2, <4>3
    <3> QED BY <3>1, CountSame
  <2>6. bb = IF l1'[c].mshr[x].main.id = j THEN 1 - qq ELSE 0
    <3> HIDE DEF c, x, b, bb, o, u, q, qq
    <3> QED BY <2>2, <2>3, <2>4, <2>5
  <2> QED BY <2>6
<1>10. ASSUME NEW c \in Caches, NEW x \in Lines, ~l1'[c].mshr[x].valid PROVE ReplyCount(p, c, x)' = 0
  <2>1. ~l1[c].mshr[x].valid
    BY <1>10 DEF SameMSHRs, SameMains
  <2>2. l1[c].mshr[x].main.id = 0
    <3>1. l1[c].mshr[x] \in MSHRs(Missed(p, c, x), 1 .. Ways1)
      BY <1>1 DEF L1Type
    <3>2. l1[c].mshr[x].main = NoRequest
      BY <2>1, <3>1 DEF MSHRs
    <3> QED BY <3>2 DEF NoRequest
  <2>3. Count(rs, Waiters(p, c, x)) = 0
    <3> SUFFICES ASSUME NEW k \in 1 .. Len(rs), rs[k] \in Waiters(p, c, x) PROVE FALSE
      BY <1>4
    <3>1. rs[k].l1mshr /\ rs[k].cache = c /\ rs[k].line = x
      BY DEF Waiters
    <3>2. l1[rs[k].cache].mshr[rs[k].line].main.id = rs[k].id
      BY <3>1, WaiterIsMain
    <3>3. rs[k].id # 0
      BY <1>5, RequestType
    <3> QED BY <2>2, <3>1, <3>2, <3>3
  <2>4. ReplyCount(p, c, x) = 0
    BY <1>1, <2>1 DEF MSHRCarried
  <2>5. ReplyCount(p, c, x)' = ReplyCount(p, c, x) + Count(rs, Waiters(p, c, x))
    BY DEF GoesUp
  <2> QED BY <2>3, <2>4, <2>5
<1>11. MSHRCarried(p)'
  <2>1. \A j \in DOMAIN p :
          LET c == p[j].cache  x == p[j].line
          IN Below(p, j, Waited)' = IF l1'[c].mshr[x].main.id = j THEN 1 - ReplyCount(p, c, x)' ELSE 0
    BY <1>9
  <2>2. \A c \in Caches, x \in Lines : ~l1'[c].mshr[x].valid => ReplyCount(p, c, x)' = 0
    BY <1>10
  <2> QED BY <2>1, <2>2 DEF MSHRCarried
<1> QED BY <1>1, <1>2, <1>8, <1>11 DEF Inv

\* The requests of an MSHR of the second level, with the state of its reply.
ReadyWith(rs, m, g) == rs = [k \in DOMAIN (<<m.main>> \o m.coal) |-> [(<<m.main>> \o m.coal)[k] EXCEPT !.sh = g]]

LEMMA ReadyType ==
  ASSUME NEW p \in Programs, NEW x \in Lines, NEW m \in MSHRs(OfLine(p, x), 1 .. Ways2), m.valid,
         NEW g \in BOOLEAN, NEW rs, ReadyWith(rs, m, g)
  PROVE  /\ rs \in Seq(Requests(p))
         /\ \A j \in DOMAIN p, w \in BOOLEAN :
              /\ Count(rs, Holding(p, j, w)) = One(m.main, Holding(p, j, w)) + Count(m.coal, Holding(p, j, w))
              /\ p[j].line # x => Count(rs, Holding(p, j, w)) = 0
<1> DEFINE S == OfLine(p, x)
           ready == <<m.main>> \o m.coal
<1>1. S \in SUBSET Requests(p) /\ \A r \in S : r.line = x
  BY DEF OfLine
<1>2. m.main \in S /\ m.coal \in Seq(S)
  BY <1>1, MSHRsType, HierarchyAssumption
<1>3. ready \in Seq(S) /\ \A P : Count(ready, P) = One(m.main, P) + Count(m.coal, P)
  <2> HIDE DEF S
  <2> QED BY <1>2, CountCons
<1>4. rs = [k \in DOMAIN ready |-> [ready[k] EXCEPT !.sh = g]]
  BY DEF ReadyWith
<1> HIDE DEF ready, S
<1>5. DOMAIN ready = 1 .. Len(ready) /\ Len(ready) \in Nat /\ \A k \in 1 .. Len(ready) : ready[k] \in S
  BY <1>3
<1>6. ASSUME NEW k \in 1 .. Len(ready)
      PROVE  rs[k] \in Requests(p) /\ rs[k].id = ready[k].id /\ rs[k].l1mshr = ready[k].l1mshr /\ ready[k] \in Requests(p)
             /\ rs[k].line = x
  <2> DEFINE r == ready[k]
             s == [r EXCEPT !.sh = g]
  <2>1. r \in Requests(p) /\ rs[k] = s /\ r.line = x
    BY <1>1, <1>4, <1>5
  <2> HIDE DEF r
  <2>2. s \in Requests(p)
    <3>1. r.progress \in 0 .. 1
      BY <2>1, RequestShape
    <3>2. \A h \in 0 .. 1 : [r EXCEPT !.sh = g] \in Requests(p)
      BY <2>1, RequestChanged
    <3> QED BY <3>1, <3>2
  <2>3. s.id = r.id /\ s.l1mshr = r.l1mshr /\ s.line = r.line
    BY <2>1, RequestShape
  <2> QED BY <2>1, <2>2, <2>3 DEF r
<1>7. rs \in Seq(Requests(p)) /\ Len(rs) = Len(ready)
  <2>1. rs = [k \in 1 .. Len(ready) |-> rs[k]]
    BY <1>4, <1>5
  <2> QED BY <1>5, <1>6, <2>1
<1>8. ASSUME NEW j \in DOMAIN p, NEW w \in BOOLEAN
      PROVE  /\ Count(rs, Holding(p, j, w)) = One(m.main, Holding(p, j, w)) + Count(m.coal, Holding(p, j, w))
             /\ p[j].line # x => Count(rs, Holding(p, j, w)) = 0
  <2>1. \A k \in 1 .. Len(rs) : rs[k] \in Holding(p, j, w) <=> ready[k] \in Holding(p, j, w)
    BY <1>6, <1>7, OneRequest
  <2>2. Count(rs, Holding(p, j, w)) = Count(ready, Holding(p, j, w))
    BY <1>7, <2>1, CountSame
  <2>3. p[j].line # x => \A k \in 1 .. Len(rs) : rs[k] \notin Holding(p, j, w)
    BY <1>6, <1>7, OneRequest
  <2>4. Count(rs, Holding(p, j, w)) = 0 <=> \A k \in 1 .. Len(rs) : rs[k] \notin Holding(p, j, w)
    BY <1>7, CountType
  <2> QED BY <1>3, <2>2, <2>3, <2>4
<1> QED BY <1>7, <1>8

\* The three kinds of items in the data pipe.
Data2Out ==
  /\ l2.data # <<>> /\ Head(l2.data).kind = "OUT"
  /\ l2' = [l2 EXCEPT !.data = Tail(@)] /\ UNCHANGED <<l1, bus, done>>
Data2Up(rs) == l1' = Deliver(rs) /\ done' = Perform(PerformedIds(rs)) /\ bus' = bus
Data2Reply(d) ==
  /\ l2.data # <<>> /\ d = Head(l2.data) /\ d.kind = "REPLY"
  /\ Data2Up(<<d.r>>) /\ l2' = [l2 EXCEPT !.data = Tail(@)]
Data2Fill(d, m) ==
  /\ l2.data # <<>> /\ d = Head(l2.data) /\ d.kind = "FILL" /\ m = l2.mshr[d.r.line]
  /\ \E rs : ReadyWith(rs, m, m.sh) /\ Data2Up(rs)
  /\ l2' = [l2 EXCEPT !.data = Tail(@), !.mshr[d.r.line] = NoMSHR,
                      !.ways[m.way] = IF m.pend # "none" THEN Invalid ELSE @]

LEMMA Data2OutKeeps ==
  ASSUME NEW p \in Programs, Inv(p), Data2Out
  PROVE  Inv(p)'
<1> DEFINE t == Tail(l2.data)
           d == Head(l2.data)
<1>1. L1Type(p) /\ L2Type(p)
  BY InvParts
<1>2. /\ l2 = [req |-> l2.req, reply |-> l2.reply, cohe |-> l2.cohe, data |-> l2.data, ways |-> l2.ways,
               mshr |-> l2.mshr]
      /\ L2Fits(p, l2.req, l2.reply, l2.cohe, l2.data, l2.ways, l2.mshr)
  BY <1>1, L2Shape
<1>3. l2' = [l2 EXCEPT !.data = t] /\ l1' = l1 /\ bus' = bus /\ done' = done /\ l2.data # <<>> /\ d.kind = "OUT"
  BY DEF Data2Out
<1>4. L2Becomes(l2.req, l2.reply, l2.cohe, t, l2.ways, l2.mshr)
  <2> HIDE DEF t
  <2> QED BY <1>2, <1>3 DEF L2Becomes
<1>5. l2'.req = l2.req /\ l2'.data = t /\ l2'.mshr = l2.mshr
  BY <1>4 DEF L2Becomes
<1>6. /\ d \in DataItems(p) /\ t \in Seq(DataItems(p))
      /\ \A i \in DOMAIN p, w \in BOOLEAN : InData(p, i, w)' + One(d, Answers(p, i, w)) = InData(p, i, w)
      /\ \A x \in Lines :
           /\ Count(l2'.data, Fills(p, x)) + One(d, Fills(p, x)) = Count(l2.data, Fills(p, x))
           /\ Count(l2'.data, Fills(p, x)) \in Nat
  BY <1>1, <1>3, <1>5, HeadLeavesData
<1>7. /\ \A i \in DOMAIN p, w \in BOOLEAN : One(d, Answers(p, i, w)) = 0
      /\ \A x \in Lines : One(d, Fills(p, x)) = 0
  BY <1>3 DEF Answers, Fills, One
<1>8. L2Fits(p, l2.req, l2.reply, l2.cohe, t, l2.ways, l2.mshr)
  BY <1>2, <1>6 DEF L2Fits
<1>9. SameFills(p) /\ SameLives
  BY <1>5, <1>6, <1>7 DEF SameFills, SameLives
<1>10. L2Type(p)'
  BY <1>4, <1>8, L2Kept
<1>11. L1Type(p)'
  BY <1>1, <1>3, UnchangedL1
<1>12. \A i \in DOMAIN p, w \in BOOLEAN : InData(p, i, w)' = InData(p, i, w)
  <2>1. \A i \in DOMAIN p, w \in BOOLEAN : InData(p, i, w)' \in Nat
    BY <1>10, <1>11, NumbersNext DEF Numbers
  <2> QED BY <1>6, <1>7, <2>1
<1>13. SameInL2(p)
  BY <1>5, <1>12, SameL2 DEF SameInL2
<1> QED BY <1>3, <1>4, <1>8, <1>9, <1>13, QuietBusKeeps

LEMMA Data2ReplyKeeps ==
  ASSUME NEW p \in Programs, Inv(p), NEW d, Data2Reply(d)
  PROVE  Inv(p)'
<1> DEFINE t == Tail(l2.data)
           rs == <<d.r>>
<1>1. L1Type(p) /\ L2Type(p) /\ BusLife(p)
  BY InvParts
<1>2. /\ l2 = [req |-> l2.req, reply |-> l2.reply, cohe |-> l2.cohe, data |-> l2.data, ways |-> l2.ways,
               mshr |-> l2.mshr]
      /\ L2Fits(p, l2.req, l2.reply, l2.cohe, l2.data, l2.ways, l2.mshr)
  BY <1>1, L2Shape
<1>3. /\ l2' = [l2 EXCEPT !.data = t] /\ l1' = Deliver(rs) /\ done' = Perform(PerformedIds(rs)) /\ bus' = bus
      /\ l2.data # <<>> /\ d = Head(l2.data) /\ d.kind = "REPLY"
  BY DEF Data2Reply, Data2Up
<1>4. L2Becomes(l2.req, l2.reply, l2.cohe, t, l2.ways, l2.mshr)
  <2> HIDE DEF t
  <2> QED BY <1>2, <1>3 DEF L2Becomes
<1>5. l2'.req = l2.req /\ l2'.data = t /\ l2'.mshr = l2.mshr /\ l2'.cohe = l2.cohe /\ l2'.reply = l2.reply
  BY <1>4 DEF L2Becomes
<1>6. /\ d \in DataItems(p) /\ t \in Seq(DataItems(p))
      /\ \A i \in DOMAIN p, w \in BOOLEAN : InData(p, i, w)' + One(d, Answers(p, i, w)) = InData(p, i, w)
      /\ \A x \in Lines :
           /\ Count(l2'.data, Fills(p, x)) + One(d, Fills(p, x)) = Count(l2.data, Fills(p, x))
           /\ Count(l2'.data, Fills(p, x)) \in Nat
  BY <1>1, <1>3, <1>5, HeadLeavesData
<1>7. d.r \in Requests(p)
  BY <1>3, <1>6 DEF DataItems
<1>8. rs \in Seq(Requests(p)) /\ \A P : Count(rs, P) = One(d.r, P)
  <2> DEFINE e == << >>
             r == d.r
  <2>1. e \in Seq(Requests(p)) /\ r \in Requests(p)
    BY <1>7
  <2>2. rs = <<r>> \o e /\ rs \in Seq(Requests(p))
    BY <1>7
  <2>3. \A P : Count(e, P) = 0
    BY CountEmpty
  <2> HIDE DEF e, r
  <2>4. \A P : Count(<<r>> \o e, P) = One(r, P) + Count(e, P)
    BY <2>1, CountCons
  <2>5. \A P : One(r, P) \in Nat
    BY OneType
  <2>6. \A P : Count(<<r>> \o e, P) = One(r, P)
    BY <2>3, <2>4, <2>5
  <2> QED BY <2>2, <2>6 DEF r
<1> HIDE DEF rs
<1>9. /\ L1Type(p)' /\ SameAtL1(p) /\ SameMSHRs /\ SameFlushes(p)
      /\ \A c \in Caches, x \in Lines : ReplyCount(p, c, x)' = ReplyCount(p, c, x) + Count(rs, Waiters(p, c, x))
  BY <1>1, <1>3, <1>8, Delivering
<1>10. L2Fits(p, l2.req, l2.reply, l2.cohe, t, l2.ways, l2.mshr)
  BY <1>2, <1>6 DEF L2Fits
<1>11. L2Type(p)'
  BY <1>4, <1>10, L2Kept
<1>12. \A x \in Lines : One(d, Fills(p, x)) = 0
  BY <1>3 DEF Fills, One
<1>13. SameFills(p) /\ SameLives
  BY <1>5, <1>6, <1>12 DEF SameFills, SameLives
<1>14. BusLife(p)'
  BY <1>1, <1>5, <1>13, BusLifeKept
<1>15. Numbers(p) /\ Numbers(p)'
  BY <1>1, <1>9, <1>11, NumbersNext
<1>16. LeavesBelow(p, rs)
  <2> SUFFICES ASSUME NEW j \in DOMAIN p, NEW w \in BOOLEAN
               PROVE  Below(p, j, w)' + Count(rs, Holding(p, j, w)) = Below(p, j, w)
    BY DEF LeavesBelow
  <2>1. One(d, Answers(p, j, w)) = Count(rs, Holding(p, j, w))
    BY <1>3, <1>6, <1>8 DEF Answers, One
  <2>2. /\ InData(p, j, w)' + One(d, Answers(p, j, w)) = InData(p, j, w)
        /\ AtL2(p, j, w)' = AtL2(p, j, w) /\ InL2(p, j, w)' = InL2(p, j, w) /\ AtL1(p, j, w)' = AtL1(p, j, w)
    BY <1>5, <1>6, <1>9, SameL2 DEF SameAtL1
  <2> DEFINE a == AtL1(p, j, w)
             b == AtL2(p, j, w)
             h == InL2(p, j, w)
             f == InData(p, j, w)
             ff == InData(p, j, w)'
             o == Count(rs, Holding(p, j, w))
  <2>3. /\ a \in Nat /\ b \in Nat /\ h \in Nat /\ f \in Nat /\ ff \in Nat /\ o \in Nat
        /\ ff + o = f
    BY <1>8, <1>15, <2>1, <2>2, OneType DEF Numbers
  <2>4. Below(p, j, w) = a + b + h + f /\ Below(p, j, w)' = a + b + h + ff
        /\ Count(rs, Holding(p, j, w)) = o
    BY <2>2 DEF Below
  <2> HIDE DEF a, b, h, f, ff, o
  <2>5. a + b + h + ff + o = a + b + h + f
    BY <2>3
  <2> QED BY <2>4, <2>5
<1>17. GoesUp(p, rs)
  BY <1>9 DEF GoesUp
<1> QED BY <1>3, <1>8, <1>9, <1>11, <1>14, <1>16, <1>17, DeliveredKeeps

LEMMA Data2FillKeeps ==
  ASSUME NEW p \in Programs, Inv(p), NEW d, NEW m, Data2Fill(d, m)
  PROVE  Inv(p)'
<1> DEFINE t == Tail(l2.data)
           M(x) == [l2.mshr EXCEPT ![x] = NoMSHR]
           W == [l2.ways EXCEPT ![m.way] = IF m.pend # "none" THEN Invalid ELSE @]
<1>1. L1Type(p) /\ L2Type(p) /\ BusLife(p)
  BY InvParts
<1>2. /\ l2 = [req |-> l2.req, reply |-> l2.reply, cohe |-> l2.cohe, data |-> l2.data, ways |-> l2.ways,
               mshr |-> l2.mshr]
      /\ L2Fits(p, l2.req, l2.reply, l2.cohe, l2.data, l2.ways, l2.mshr)
  BY Zenon, <1>1, L2Shape
<1>3. /\ l2' = [l2 EXCEPT !.data = t, !.mshr = M(d.r.line), !.ways = W]
      /\ l2.data # <<>> /\ d = Head(l2.data) /\ d.kind = "FILL" /\ m = l2.mshr[d.r.line]
  BY Zenon DEF Data2Fill
<1>4. PICK rs : ReadyWith(rs, m, m.sh) /\ Data2Up(rs)
  BY Zenon DEF Data2Fill
<1>5. d \in DataItems(p)
  <2>1. l2.data \in Seq(DataItems(p))
    BY Zenon, <1>1 DEF L2Type
  <2>2. l2.data # <<>> /\ d = Head(l2.data)
    BY Zenon, <1>3
  <2> QED BY <2>1, <2>2
<1>6. PICK x \in Lines : x = d.r.line
  BY Zenon, <1>3, <1>5, RequestType DEF DataItems
<1>7. m = l2.mshr[x] /\ m \in MSHRs(OfLine(p, x), 1 .. Ways2)
  BY Zenon, <1>2, <1>3, <1>6 DEF L2Fits
<1>8. d \in Fills(p, x) /\ \A y \in Lines : y # x => d \notin Fills(p, y)
  BY Zenon, <1>3, <1>5, <1>6 DEF Fills
<1> HIDE DEF W, M
<1>9. L2Becomes(l2.req, l2.reply, l2.cohe, t, W, M(x))
  <2> HIDE DEF t
  <2> QED BY <1>2, <1>3, <1>6 DEF L2Becomes
<1>10. l2'.req = l2.req /\ l2'.data = t /\ l2'.mshr = M(x) /\ l2'.cohe = l2.cohe /\ l2'.reply = l2.reply
  BY <1>9 DEF L2Becomes
<1>11. /\ t \in Seq(DataItems(p))
       /\ \A i \in DOMAIN p, w \in BOOLEAN : InData(p, i, w)' + One(d, Answers(p, i, w)) = InData(p, i, w)
       /\ \A y \in Lines :
            /\ Count(l2'.data, Fills(p, y)) + One(d, Fills(p, y)) = Count(l2.data, Fills(p, y))
            /\ Count(l2'.data, Fills(p, y)) \in Nat
  BY <1>1, <1>3, <1>10, HeadLeavesData
<1>12. /\ Count(l2.cohe, OwnSnoops(x)) \in Nat /\ Count(l2.reply, BusReplies(x)) \in Nat
       /\ Count(l2.data, Fills(p, x)) \in Nat
  BY <1>1, OnBus
<1>13. LineLife(p, x)
  BY <1>1, LifeOfLines
<1>14. l2.mshr[x].bus = "replied" /\ m.valid /\ Loads(p, x) = 1
  <2>1. One(d, Fills(p, x)) = 1
    BY <1>8 DEF One
  <2>2. Count(l2.data, Fills(p, x)) # 0
    BY <1>11, <1>12, <2>1
  <2>3. Loads(p, x) # 0
    BY <1>12, <2>2 DEF Loads
  <2> QED BY <1>7, <1>13, <2>3 DEF LineLife
<1>15. NoMSHR \in MSHRs(OfLine(p, x), 1 .. Ways2) /\ NoMSHR.bus = "none" /\ m.sh \in BOOLEAN /\ m.way \in 1 .. Ways2
  <2>1. OfLine(p, x) \in SUBSET Requests(p)
    BY DEF OfLine
  <2>2. NoMSHR \in MSHRs(OfLine(p, x), 1 .. Ways2)
    BY <2>1, MSHRsType, HierarchyAssumption
  <2>3. m.sh \in BOOLEAN /\ m.way \in 1 .. Ways2
    BY <1>7 DEF MSHRs
  <2> QED BY <2>2, <2>3 DEF NoMSHR
<1>16. /\ M(x) = [y \in Lines |-> M(x)[y]] /\ \A y \in Lines : M(x)[y] \in MSHRs(OfLine(p, y), 1 .. Ways2)
       /\ M(x)[x] = NoMSHR /\ \A y \in Lines : y # x => M(x)[y] = l2.mshr[y]
  BY <1>1, <1>15, OneMSHR2 DEF M
<1>17. W \in [1 .. Ways2 -> Tags]
  <2>1. l2.ways \in [1 .. Ways2 -> Tags]
    BY <1>2 DEF L2Fits
  <2>2. Invalid \in Tags
    BY DEF Invalid, Tags, AnyLine
  <2> QED BY <1>15, <2>1, <2>2 DEF W
<1>18. L2Fits(p, l2.req, l2.reply, l2.cohe, t, W, M(x))
  BY <1>2, <1>11, <1>16, <1>17 DEF L2Fits
<1>19. L2Type(p)'
  BY <1>9, <1>18, L2Kept
<1>20. /\ rs \in Seq(Requests(p))
       /\ \A j \in DOMAIN p, w \in BOOLEAN :
            /\ Count(rs, Holding(p, j, w)) = One(m.main, Holding(p, j, w)) + Count(m.coal, Holding(p, j, w))
            /\ p[j].line # x => Count(rs, Holding(p, j, w)) = 0
  BY <1>4, <1>7, <1>14, <1>15, ReadyType
<1>21. l1' = Deliver(rs) /\ done' = Perform(PerformedIds(rs)) /\ bus' = bus
  BY <1>4 DEF Data2Up
<1>22. /\ L1Type(p)' /\ SameAtL1(p) /\ SameMSHRs /\ SameFlushes(p)
       /\ \A c \in Caches, y \in Lines : ReplyCount(p, c, y)' = ReplyCount(p, c, y) + Count(rs, Waiters(p, c, y))
  BY <1>1, <1>20, <1>21, Delivering
<1>23. BusLife(p)'
  <2>1. LineLife(p, x)'
    <3>1. One(d, Fills(p, x)) = 1
      BY <1>8 DEF One
    <3>2. Count(l2'.cohe, OwnSnoops(x)) = 0
      BY <1>10, <1>13, <1>14 DEF LineLife
    <3>3. Count(l2.reply, BusReplies(x)) + Count(l2.data, Fills(p, x)) = 1
      BY <1>14 DEF Loads
    <3>4. Count(l2'.data, Fills(p, x)) + 1 = Count(l2.data, Fills(p, x)) /\ Count(l2'.data, Fills(p, x)) \in Nat
      BY <1>11, <3>1
    <3>5. Count(l2.reply, BusReplies(x)) + Count(l2'.data, Fills(p, x)) = 0
      BY <1>12, <3>3, <3>4
    <3>6. l2'.mshr[x].bus = "none"
      BY <1>10, <1>15, <1>16
    <3> QED BY <1>10, <3>2, <3>5, <3>6 DEF LineLife, Loads
  <2>2. OtherLives(p, x)
    <3> SUFFICES ASSUME NEW y \in Lines, y # x
                 PROVE  /\ Count(l2'.cohe, OwnSnoops(y)) = Count(l2.cohe, OwnSnoops(y)) /\ Loads(p, y)' = Loads(p, y)
                        /\ l2'.mshr[y].bus = l2.mshr[y].bus /\ (l2.mshr[y].valid => l2'.mshr[y].valid)
      BY DEF OtherLives
    <3>1. One(d, Fills(p, y)) = 0
      BY <1>8 DEF One
    <3>2. Count(l2'.data, Fills(p, y)) = Count(l2.data, Fills(p, y))
      BY <1>11, <3>1
    <3>3. l2'.mshr[y] = l2.mshr[y]
      BY <1>10, <1>16
    <3> QED BY <1>10, <3>2, <3>3 DEF Loads
  <2> QED BY <1>1, <2>1, <2>2, LifeOfLines
<1>24. OtherMSHRs2(x) /\ l2'.mshr[x] = NoMSHR
  BY <1>10, <1>16 DEF OtherMSHRs2
<1>25. \A j \in DOMAIN p, w \in BOOLEAN : InL2(p, j, w)' = IF p[j].line = x THEN 0 ELSE InL2(p, j, w)
  BY <1>1, <1>24, FreedInL2
<1>26. Numbers(p) /\ Numbers(p)'
  BY <1>1, <1>19, <1>22, NumbersNext
<1>27. LeavesBelow(p, rs)
  <2> SUFFICES ASSUME NEW j \in DOMAIN p, NEW w \in BOOLEAN
               PROVE  Below(p, j, w)' + Count(rs, Holding(p, j, w)) = Below(p, j, w)
    BY DEF LeavesBelow
  <2>1. One(d, Answers(p, j, w)) = 0
    BY <1>3 DEF Answers, One
  <2>2. /\ InData(p, j, w)' + One(d, Answers(p, j, w)) = InData(p, j, w)
        /\ AtL2(p, j, w)' = AtL2(p, j, w) /\ AtL1(p, j, w)' = AtL1(p, j, w)
    BY <1>10, <1>11, <1>22, SameL2 DEF SameAtL1
  <2>3. InL2(p, j, w)' + Count(rs, Holding(p, j, w)) = InL2(p, j, w)
    <3>1. CASE p[j].line = x
      <4>1. InL2(p, j, w) = One(m.main, Holding(p, j, w)) + Count(m.coal, Holding(p, j, w))
        BY <1>7, <3>1 DEF InL2
      <4>2. InL2(p, j, w) = Count(rs, Holding(p, j, w))
        BY <1>20, <4>1
      <4>3. InL2(p, j, w) \in Nat /\ InL2(p, j, w)' = 0
        BY <1>25, <1>26, <3>1 DEF Numbers
      <4> QED BY <4>2, <4>3
    <3>2. CASE p[j].line # x
      <4>1. InL2(p, j, w) \in Nat /\ InL2(p, j, w)' = InL2(p, j, w) /\ Count(rs, Holding(p, j, w)) = 0
        BY <1>20, <1>25, <1>26, <3>2 DEF Numbers
      <4> QED BY <4>1
    <3> QED BY <3>1, <3>2
  <2> DEFINE a == AtL1(p, j, w)
             b == AtL2(p, j, w)
             h == InL2(p, j, w)
             hh == InL2(p, j, w)'
             f == InData(p, j, w)
             ff == InData(p, j, w)'
             o == Count(rs, Holding(p, j, w))
  <2>4. /\ a \in Nat /\ b \in Nat /\ h \in Nat /\ hh \in Nat /\ f \in Nat /\ ff \in Nat /\ o \in Nat
        /\ hh + o = h
    <3>1. o \in Nat
      BY <1>20, CountType
    <3> QED BY <1>26, <2>3, <3>1 DEF Numbers
  <2>5. ff = f
    BY <2>1, <2>2, <2>4
  <2>6. Below(p, j, w) = a + b + h + f /\ Below(p, j, w)' = a + b + hh + ff
        /\ Count(rs, Holding(p, j, w)) = o
    BY <2>2 DEF Below
  <2> HIDE DEF a, b, h, hh, f, ff, o
  <2>7. a + b + hh + ff + o = a + b + h + f
    BY <2>4, <2>5
  <2> QED BY <2>6, <2>7
<1>28. GoesUp(p, rs)
  BY <1>22 DEF GoesUp
<1> QED BY <1>19, <1>20, <1>21, <1>22, <1>23, <1>27, <1>28, DeliveredKeeps

LEMMA Data2Keeps ==
  ASSUME NEW p \in Programs, Inv(p), Data2
  PROVE  Inv(p)'
<1> DEFINE d == Head(l2.data)
           m == l2.mshr[d.r.line]
           ready == <<m.main>> \o m.coal
           filled == [k \in DOMAIN ready |-> [ready[k] EXCEPT !.sh = m.sh]]
<1>1. d.kind \in {"OUT", "REPLY", "FILL"} /\ l2.data # <<>>
  <2>1. l2.data \in Seq(DataItems(p)) /\ l2.data # <<>>
    BY Zenon, InvParts DEF L2Type, Data2
  <2>2. d \in DataItems(p)
    BY <2>1
  <2> QED BY Zenon, <2>1, <2>2 DEF DataItems
<1>2. CASE d.kind = "OUT"
  <2>1. Data2Out
    BY Zenon, <1>1, <1>2 DEF Data2, Data2Out
  <2> QED BY Zenon, <2>1, Data2OutKeeps
<1>3. CASE d.kind = "REPLY"
  <2>1. Data2Reply(d)
    BY Zenon, <1>1, <1>3 DEF Data2, Data2Reply, Data2Up, PerformedIds
  <2> HIDE DEF d
  <2> QED BY Zenon, <2>1, Data2ReplyKeeps
<1>4. CASE d.kind = "FILL"
  <2>1. ReadyWith(filled, m, m.sh)
    BY Zenon DEF ReadyWith
  <2>2. /\ l1' = Deliver(filled) /\ done' = Perform(PerformedIds(filled)) /\ bus' = bus
        /\ l2' = [l2 EXCEPT !.data = Tail(@), !.mshr[d.r.line] = NoMSHR,
                            !.ways[m.way] = IF m.pend # "none" THEN Invalid ELSE @]
    <3>1. l1' = Deliver(filled) /\ done' = Perform(PerformedIds(filled)) /\ bus' = bus
      BY Zenon, <1>1, <1>4 DEF Data2, PerformedIds
    <3>2. l2' = [l2 EXCEPT !.data = Tail(@), !.mshr[d.r.line] = NoMSHR,
                          !.ways[m.way] = IF m.pend # "none" THEN Invalid ELSE @]
      BY Zenon, <1>1, <1>4 DEF Data2
    <3> QED BY Zenon, <3>1, <3>2
  <2> HIDE DEF filled
  <2>3. Data2Up(filled)
    BY Zenon, <2>2 DEF Data2Up
  <2>4. \E rs : ReadyWith(rs, m, m.sh) /\ Data2Up(rs)
    BY Zenon, <2>1, <2>3
  <2>5. Data2Fill(d, m)
    BY Zenon, <1>1, <1>4, <2>2, <2>4 DEF Data2Fill
  <2> HIDE DEF d, m
  <2> QED BY Zenon, <2>5, Data2FillKeeps
<1> QED BY Zenon, <1>1, <1>2, <1>3, <1>4

-----------------------------------------------------------------------------
\* Every step keeps the invariant.
LEMMA Level1Keeps ==
  ASSUME NEW p \in Programs, Inv(p), NEW c \in Caches, Level1(c)
  PROVE  Inv(p)'
<1>1. CASE Hit1(c)
  BY <1>1, Hit1Keeps
<1>2. CASE Forward1(c)
  BY <1>2, Forward1Keeps
<1>3. CASE New1(c)
  BY <1>3, New1Keeps
<1>4. CASE Coalesce1(c)
  BY <1>4, Coalesce1Keeps
<1>5. CASE StallWAR1(c)
  BY <1>5, StallWAR1Keeps
<1>6. CASE FlushPurge1(c)
  BY <1>6, FlushPurge1Keeps
<1>7. CASE Send1(c)
  BY <1>7, Send1Keeps
<1>8. CASE Reply1(c)
  BY <1>8, Reply1Keeps
<1>9. CASE StuckReply1(c)
  BY <1>9, StuckReply1Keeps
<1>10. CASE Cohe1(c)
  BY <1>10, Cohe1Keeps
<1>11. CASE StuckCohe1(c)
  BY <1>11, StuckCohe1Keeps
<1> QED BY <1>1, <1>2, <1>3, <1>4, <1>5, <1>6, <1>7, <1>8, <1>9, <1>10, <1>11 DEF Level1

LEMMA Level2StepKeeps ==
  ASSUME NEW p \in Programs, Inv(p), Level2
  PROVE  Inv(p)'
<1>1. CASE WBack2
  BY <1>1, WBack2Keeps
<1>2. CASE FlushPurge2
  BY <1>2, FlushPurge2Keeps
<1>3. CASE Hit2
  BY <1>3, Hit2Keeps
<1>4. CASE Send2
  BY <1>4, Send2Keeps
<1>5. CASE New2
  BY <1>5, New2Keeps
<1>6. CASE Coalesce2
  BY <1>6, Coalesce2Keeps
<1>7. CASE StallWAR2
  BY <1>7, StallWAR2Keeps
<1>8. CASE OwnCohe2
  BY <1>8, OwnCohe2Keeps
<1>9. CASE Cohe2
  BY <1>9, Cohe2Keeps
<1>10. CASE Reply2
  BY <1>10, Reply2Keeps
<1>11. CASE Write2
  BY <1>11, Write2Keeps
<1>12. CASE Data2
  BY <1>12, Data2Keeps
<1> QED BY <1>1, <1>2, <1>3, <1>4, <1>5, <1>6, <1>7, <1>8, <1>9, <1>10, <1>11, <1>12 DEF Level2

LEMMA StutterKeeps ==
  ASSUME NEW p \in Programs, Inv(p), UNCHANGED vars
  PROVE  Inv(p)'
<1>1. l1' = l1 /\ l2' = l2 /\ bus' = bus /\ done' = done
  BY DEF vars
<1>2. L1Type(p) /\ L2Type(p) /\ RestType(p) /\ BusLife(p)
  BY InvParts
<1>3. Quiet1(p) /\ L2Type(p)' /\ BusLife(p)' /\ SameInL2(p) /\ RestType(p)'
  BY <1>1, <1>2, Quiet1Same, SameInL2Kept, UnchangedRest
<1> QED BY <1>1, <1>3, Level2MovesKeep

LEMMA StepKeeps ==
  ASSUME IInv, [Next]_vars
  PROVE  IInv'
<1>1. PICK p \in Programs : Inv(p)
  BY DEF IInv
<1>2. Inv(p)'
  <2>1. CASE Issue
    BY <1>1, <2>1, IssueKeeps
  <2>2. CASE \E c \in Caches : Level1(c)
    BY <1>1, <2>2, Level1Keeps
  <2>3. CASE Level2
    BY <1>1, <2>3, Level2StepKeeps
  <2>4. CASE Bus
    <3>1. PICK x \in Lines : BusIssue(x) \/ BusReply(x)
      BY <2>4 DEF Bus
    <3> QED BY <1>1, <3>1, BusIssueKeeps, BusReplyKeeps
  <2>5. CASE \E x \in Lines : \E kind \in {"READ_SH", "READ_OWN"} : Snoop(x, kind)
    BY <1>1, <2>5, SnoopKeeps
  <2>6. CASE UNCHANGED vars
    BY <1>1, <2>6, StutterKeeps
  <2> QED BY <2>1, <2>2, <2>3, <2>4, <2>5, <2>6 DEF Next
<1> QED BY <1>2 DEF IInv

\* The caches start empty, with no access issued.
LEMMA StartsHeld ==
  ASSUME Init
  PROVE  IInv
<1>1. PICK p \in Programs : done = [left |-> p, count |-> [n \in DOMAIN p |-> 0], fault |-> FALSE]
  BY DEF Init
<1> DEFINE ways(n) == [w \in 1 .. n |-> Invalid]
           mshrs == [x \in Lines |-> NoMSHR]
<1>2. /\ l1 = [c \in Caches |-> [req |-> <<>>, down |-> <<>>, ways |-> ways(Ways1), mshr |-> mshrs]]
      /\ l2 = [req |-> <<>>, reply |-> <<>>, cohe |-> <<>>, data |-> <<>>, ways |-> ways(Ways2), mshr |-> mshrs]
      /\ bus = [remote |-> [x \in Lines |-> "none"], snoops |-> SNOOPS, asked |-> {}]
  BY DEF Init
<1>3. Invalid \in Tags
  BY DEF Invalid, Tags, AnyLine
<1>4. ways(Ways1) \in [1 .. Ways1 -> Tags] /\ ways(Ways2) \in [1 .. Ways2 -> Tags]
  BY <1>3
<1>5. /\ \A c \in Caches, x \in Lines : NoMSHR \in MSHRs(Missed(p, c, x), 1 .. Ways1)
      /\ \A x \in Lines : NoMSHR \in MSHRs(OfLine(p, x), 1 .. Ways2)
  <2>1. \A c \in Caches, x \in Lines : Missed(p, c, x) \in SUBSET Requests(p) /\ OfLine(p, x) \in SUBSET Requests(p)
    BY DEF Missed, OfLine
  <2>2. ASSUME NEW S \in SUBSET Requests(p), NEW n \in Nat \ {0} PROVE NoMSHR \in MSHRs(S, 1 .. n)
    BY MSHRsType
  <2>3. \A x \in Lines : OfLine(p, x) \in SUBSET Requests(p)
    BY DEF OfLine
  <2> QED BY <2>1, <2>2, <2>3, HierarchyAssumption
<1>6. NoMSHR.main = NoRequest /\ NoMSHR.coal = <<>> /\ ~NoMSHR.valid /\ NoMSHR.bus = "none" /\ NoRequest.id = 0
  BY DEF NoMSHR, NoRequest
<1>7. \A x \in Lines : mshrs[x] = NoMSHR
  OBVIOUS
<1>8. mshrs = [x \in Lines |-> mshrs[x]]
  OBVIOUS
<1> HIDE DEF ways, mshrs
<1>9. L1Type(p)
  <2>1. \A c \in Caches : l1[c] = [req |-> <<>>, down |-> <<>>, ways |-> ways(Ways1), mshr |-> mshrs]
    BY <1>2
  <2>2. l1 = [c \in Caches |-> [req |-> l1[c].req, down |-> l1[c].down, ways |-> l1[c].ways, mshr |-> l1[c].mshr]]
    BY <1>2
  <2>3. \A c \in Caches : l1[c].req = <<>> /\ l1[c].down = <<>> /\ l1[c].ways = ways(Ways1) /\ l1[c].mshr = mshrs
    BY <2>1
  <2>4. \A S : <<>> \in Seq(S)
    OBVIOUS
  <2> QED BY <1>4, <1>5, <1>7, <1>8, <2>2, <2>3, <2>4 DEF L1Type
<1>10. L2Type(p)
  <2>1. \A S : <<>> \in Seq(S)
    OBVIOUS
  <2> QED BY <1>2, <1>4, <1>5, <1>7, <1>8, <2>1 DEF L2Type
<1>11. p \in Seq(Accesses) /\ Len(p) \in Nat /\ DOMAIN p = 1 .. Len(p)
  BY ProgramType
<1>12. done.left = p /\ done.count = [n \in DOMAIN p |-> 0] /\ ~done.fault /\ Issued = 0
  <2>1. done.left = p /\ done.count = [n \in DOMAIN p |-> 0] /\ ~done.fault
    BY <1>1
  <2>2. Len(done.count) = Len(p)
    BY <1>11, <2>1
  <2> QED BY <1>11, <2>1, <2>2 DEF Issued
<1>13. RestType(p)
  <2>1. bus \in [remote : [Lines -> {"none", "shared", "owned"}], snoops : Nat, asked : SUBSET Lines]
    BY <1>2, HierarchyAssumption
  <2>2. done \in [left : Seq(Accesses), count : [DOMAIN p -> Nat], fault : BOOLEAN]
    <3> DEFINE f == FALSE
    <3>1. done = [left |-> p, count |-> [n \in DOMAIN p |-> 0], fault |-> f] /\ f \in BOOLEAN
      BY <1>1
    <3> HIDE DEF f
    <3> QED BY <1>11, <3>1
  <2>3. \A k \in DOMAIN done.left : done.left[k] = p[Len(p) - Len(done.left) + k]
    BY <1>11, <1>12
  <2> QED BY <1>11, <1>12, <2>1, <2>2, <2>3 DEF RestType
<1>14. \A P : Count(<<>>, P) = 0
  BY CountEmpty
<1>15. l2.cohe = <<>> /\ l2.reply = <<>> /\ l2.data = <<>> /\ l2.req = <<>> /\ l2.mshr = mshrs
  BY <1>2
<1>16. BusLife(p)
  BY <1>6, <1>7, <1>14, <1>15 DEF BusLife
<1>17. \A c \in Caches : l1[c].req = <<>> /\ l1[c].down = <<>> /\ l1[c].mshr = mshrs
  BY <1>2
<1>18. ASSUME NEW i \in DOMAIN p, NEW w \in BOOLEAN PROVE Below(p, i, w) = 0
  <2>1. p[i].cache \in Caches /\ p[i].line \in Lines
    BY ProgramType
  <2>2. One(NoRequest, Holding(p, i, w)) = 0
    BY OneRequest DEF One
  <2>3. AtL1(p, i, w) = 0 /\ AtL2(p, i, w) = 0 /\ InData(p, i, w) = 0
    BY <1>14, <1>15, <1>17, <2>1 DEF AtL1, AtL2, InData
  <2>4. InL2(p, i, w) = 0
    BY <1>6, <1>7, <1>14, <1>15, <2>1, <2>2 DEF InL2
  <2> QED BY <2>3, <2>4 DEF Below
<1>19. \A c \in Caches, x \in Lines : ReplyCount(p, c, x) = 0
  BY <1>14, <1>17 DEF ReplyCount
<1>20. MSHRCarried(p)
  <2>1. \A i \in DOMAIN p : p[i].cache \in Caches /\ p[i].line \in Lines /\ i # 0
    BY ProgramType
  <2>2. \A i \in DOMAIN p : l1[p[i].cache].mshr[p[i].line].main.id # i
    BY <1>6, <1>7, <1>17, <2>1
  <2>3. Waited \in BOOLEAN
    BY DEF Waited
  <2> QED BY <1>18, <1>19, <2>2, <2>3 DEF MSHRCarried
<1>21. AccessHeld(p)
  <2> SUFFICES ASSUME NEW i \in DOMAIN p
               PROVE  done.count[i] + Below(p, i, Alone) + InMSHR(p, i) + InFlush(p, i) = IF i <= Issued THEN 1 ELSE 0
    BY DEF AccessHeld
  <2>1. p[i].cache \in Caches /\ p[i].line \in Lines /\ "D" \in Caches
    BY ProgramType DEF Caches
  <2>2. One(NoRequest, OfAccess(p, i)) = 0
    BY OneAccess DEF One
  <2>3. InMSHR(p, i) = 0
    BY <1>6, <1>7, <1>14, <1>17, <2>1, <2>2 DEF InMSHR
  <2>4. InFlush(p, i) = 0
    BY <1>14, <1>17, <2>1 DEF InFlush
  <2>5. Alone \in BOOLEAN
    BY DEF Alone
  <2>6. Below(p, i, Alone) = 0
    BY <1>18, <2>5
  <2>7. done.count[i] = 0 /\ ~(i <= Issued)
    BY <1>11, <1>12
  <2> QED BY <2>3, <2>4, <2>6, <2>7
<1> QED BY <1>9, <1>10, <1>12, <1>13, <1>16, <1>20, <1>21 DEF Inv, IInv

\* The inductive invariant holds: the caches have their types, and every access that
\* was issued is performed or held in one place.
THEOREM HeldAlways == Spec => []IInv
<1>1. Init => IInv
  BY StartsHeld
<1>2. IInv /\ [Next]_vars => IInv'
  BY StepKeeps
<1> QED BY <1>1, <1>2, PTL DEF Spec

\* No access is performed twice, and no reply finds its MSHR gone: what
\* Cache_global_perform and L1DProcessTagReply take for granted, for every size of
\* the caches, their queues and MSHRs, and every program.
THEOREM NoAccessIsPerformedTwice == Spec => []PerformedOnce
<1>1. IInv => PerformedOnce
  <2> SUFFICES ASSUME IInv PROVE PerformedOnce
    OBVIOUS
  <2>1. PICK p \in Programs : Inv(p)
    BY DEF IInv
  <2>2. /\ L1Type(p) /\ L2Type(p) /\ RestType(p) /\ AccessHeld(p) /\ ~done.fault /\ Alone \in BOOLEAN
        /\ \A i \in DOMAIN p : done.count[i] \in Nat
    BY <2>1, InvParts
  <2>3. DOMAIN done.count = DOMAIN p
    BY <2>2 DEF RestType
  <2>4. ASSUME NEW i \in DOMAIN p PROVE done.count[i] <= 1
    <3>1. /\ done.count[i] \in Nat /\ Below(p, i, Alone) \in Nat
          /\ InMSHR(p, i) \in Nat /\ InFlush(p, i) \in Nat
      BY <2>2, NumbersNext DEF Numbers
    <3>2. done.count[i] + Below(p, i, Alone) + InMSHR(p, i) + InFlush(p, i) \in {0, 1}
      BY <2>2 DEF AccessHeld
    <3> DEFINE a == done.count[i]
               b == Below(p, i, Alone)
               h == InMSHR(p, i)
               f == InFlush(p, i)
    <3>3. a \in Nat /\ b \in Nat /\ h \in Nat /\ f \in Nat /\ a + b + h + f \in {0, 1}
      BY <3>1, <3>2
    <3> HIDE DEF a, b, h, f
    <3>4. a <= 1
      BY <3>3
    <3> QED BY <3>4 DEF a
  <2> QED BY <2>2, <2>3, <2>4 DEF PerformedOnce
<1> QED BY <1>1, HeldAlways, PTL

\* Two counts of the same elements of a queue.
LEMMA SameCount ==
  ASSUME NEW S, NEW q \in Seq(S), NEW P, NEW M, M = {k \in DOMAIN q : q[k] \in P}
  PROVE  Cardinality(M) = Count(q, P)
<1>1. DOMAIN q = 1 .. Len(q)
  OBVIOUS
<1> QED BY <1>1 DEF Count

\* An MSHR of the first level waits for one request on its way down or one reply on
\* its way up, whatever the second level does with the request: no access hangs in
\* an MSHR that nothing will answer (l1d_cache.c waits for a reply that must come).
THEOREM EveryMSHRIsAnswered == Spec => []MSHRsAreAnswered
<1>1. IInv => MSHRsAreAnswered
  <2> SUFFICES ASSUME IInv, NEW c \in Caches, NEW x \in Lines, l1[c].mshr[x].valid PROVE Places(c, x) = 1
    BY DEF MSHRsAreAnswered
  <2>1. PICK p \in Programs : Inv(p)
    BY DEF IInv
  <2>2. L1Type(p) /\ L2Type(p) /\ MSHRCarried(p) /\ Waited \in BOOLEAN
    BY <2>1, InvParts
  <2> DEFINE i == l1[c].mshr[x].main.id
             P == Holding(p, i, Waited)
             Mine(r) == r.id = i /\ r.cache = c /\ r.l1mshr
             m == l2.mshr[x]
  <2>3. i \in DOMAIN p /\ p[i].cache = c /\ p[i].line = x
    <3>1. l1[c].mshr[x] \in MSHRs(Missed(p, c, x), 1 .. Ways1)
      BY <2>2 DEF L1Type
    <3>2. Missed(p, c, x) \in SUBSET Requests(p)
      BY DEF Missed
    <3>3. l1[c].mshr[x].main \in Missed(p, c, x)
      BY <3>1, <3>2, MSHRsType, HierarchyAssumption
    <3>4. /\ l1[c].mshr[x].main \in Requests(p)
          /\ l1[c].mshr[x].main.line = x /\ l1[c].mshr[x].main.cache = c
      BY <3>3 DEF Missed
    <3> QED BY <3>4, RequestType
  <2> HIDE DEF i
  <2>4. \A r \in Requests(p) : Mine(r) <=> r \in P
    <3> SUFFICES ASSUME NEW r \in Requests(p) PROVE Mine(r) <=> r \in P
      OBVIOUS
    <3>1. r.cache = p[r.id].cache /\ r.l1mshr \in BOOLEAN
      BY RequestType
    <3> QED BY <2>3, <3>1 DEF Holding, Waited
  <2>5. i # 0
    BY <2>3, ProgramType
  <2>6. \A r \in WriteBacks \cup {NoRequest} : ~Mine(r) /\ r \notin P
    <3>1. \A r \in WriteBacks \cup {NoRequest} : r.id = 0
      BY DEF WriteBacks, NoRequest
    <3> QED BY <2>5, <3>1 DEF Holding
  <2> HIDE DEF Mine, P
  <2>7. Cardinality({k \in DOMAIN l1[c].req : Mine(l1[c].req[k])}) = Count(l1[c].req, P)
    <3>1. l1[c].req \in Seq(Entering(p, c)) /\ \A k \in DOMAIN l1[c].req : l1[c].req[k] \in Requests(p)
      <4>1. l1[c].req \in Seq(Entering(p, c))
        BY <2>2 DEF L1Type
      <4> QED BY <4>1, EnteringType
    <3>2. {k \in DOMAIN l1[c].req : Mine(l1[c].req[k])} = {k \in DOMAIN l1[c].req : l1[c].req[k] \in P}
      BY <2>4, <3>1
    <3> QED BY <3>1, <3>2, SameCount
  <2>8. Cardinality({k \in DOMAIN l2.req : Mine(l2.req[k])}) = Count(l2.req, P)
    <3>1. l2.req \in Seq(Requests(p) \cup WriteBacks)
      BY <2>2 DEF L2Type
    <3>2. \A k \in DOMAIN l2.req : l2.req[k] \in Requests(p) \cup WriteBacks
      BY <3>1
    <3>3. {k \in DOMAIN l2.req : Mine(l2.req[k])} = {k \in DOMAIN l2.req : l2.req[k] \in P}
      BY <2>4, <2>6, <3>2
    <3> QED BY <3>1, <3>3, SameCount
  <2>9. m.main \in Requests(p) \cup {NoRequest} /\ m.coal \in Seq(Requests(p))
    <3>1. m \in MSHRs(OfLine(p, x), 1 .. Ways2) /\ OfLine(p, x) \in SUBSET Requests(p)
      BY <2>2 DEF L2Type, OfLine
    <3>2. m.main \in OfLine(p, x) \cup {NoRequest} /\ m.coal \in Seq(OfLine(p, x))
      BY <3>1, MSHRsType, HierarchyAssumption
    <3> HIDE DEF m
    <3> QED BY <3>1, <3>2
  <2>10. Cardinality({k \in DOMAIN m.coal : Mine(m.coal[k])}) = Count(m.coal, P)
    <3>1. \A k \in DOMAIN m.coal : m.coal[k] \in Requests(p)
      BY <2>9
    <3>2. {k \in DOMAIN m.coal : Mine(m.coal[k])} = {k \in DOMAIN m.coal : m.coal[k] \in P}
      BY <2>4, <3>1
    <3> HIDE DEF m
    <3> QED BY <2>9, <3>2, SameCount
  <2>11. Cardinality({k \in DOMAIN <<m.main>> : Mine(<<m.main>>[k])}) = One(m.main, P)
    <3>1. Mine(m.main) <=> m.main \in P
      BY <2>4, <2>6, <2>9
    <3>2. {k \in DOMAIN <<m.main>> : Mine(<<m.main>>[k])} = IF m.main \in P THEN {1} ELSE {}
      BY <3>1
    <3> QED BY <3>2, FS_EmptySet, FS_Singleton DEF One
  <2>12. Cardinality({k \in DOMAIN l2.data : l2.data[k].kind = "REPLY" /\ Mine(l2.data[k].r)}) = InData(p, i, Waited)
    <3>1. l2.data \in Seq(DataItems(p))
      BY <2>2 DEF L2Type
    <3>2. ASSUME NEW k \in DOMAIN l2.data
          PROVE  l2.data[k].kind = "REPLY" /\ Mine(l2.data[k].r) <=> l2.data[k] \in Answers(p, i, Waited)
      <4>1. l2.data[k] \in DataItems(p)
        BY <3>1
      <4>2. l2.data[k].kind = "REPLY" => l2.data[k].r \in Requests(p)
        BY <4>1 DEF DataItems
      <4>3. l2.data[k] \in Answers(p, i, Waited) <=> l2.data[k].kind = "REPLY" /\ l2.data[k].r \in P
        BY <4>1 DEF Answers, P
      <4> QED BY <2>4, <4>2, <4>3
    <3>3. {k \in DOMAIN l2.data : l2.data[k].kind = "REPLY" /\ Mine(l2.data[k].r)}
            = {k \in DOMAIN l2.data : l2.data[k] \in Answers(p, i, Waited)}
      BY <3>2
    <3> QED BY <3>1, <3>3, SameCount DEF InData
  <2>13. Cardinality({k \in DOMAIN l1[c].down : l1[c].down[k].kind = "REPLY" /\ l1[c].down[k].line = x})
           = ReplyCount(p, c, x)
    <3>1. l1[c].down \in Seq(Messages(p))
      BY <2>2 DEF L1Type
    <3>2. \A k \in DOMAIN l1[c].down :
            l1[c].down[k].kind = "REPLY" /\ l1[c].down[k].line = x <=> l1[c].down[k] \in RepliesOf(p, x)
      BY <3>1 DEF RepliesOf
    <3>3. {k \in DOMAIN l1[c].down : l1[c].down[k].kind = "REPLY" /\ l1[c].down[k].line = x}
            = {k \in DOMAIN l1[c].down : l1[c].down[k] \in RepliesOf(p, x)}
      BY <3>2
    <3> QED BY <3>1, <3>3, SameCount DEF ReplyCount
  <2>14. Below(p, i, Waited) = Count(l1[c].req, P) + Count(l2.req, P) + (One(m.main, P) + Count(m.coal, P))
                               + InData(p, i, Waited)
    BY <2>3 DEF Below, AtL1, AtL2, InL2, P
  <2>15. Below(p, i, Waited) = 1 - ReplyCount(p, c, x)
    BY Zenon, <2>2, <2>3 DEF MSHRCarried, i
  <2> DEFINE a == Count(l1[c].req, P)
             b == Count(l2.req, P)
             o == One(m.main, P)
             f == Count(m.coal, P)
             d == InData(p, i, Waited)
             u == ReplyCount(p, c, x)
  <2>16. Places(c, x) = a + b + o + f + d + u
    BY Zenon, <2>7, <2>8, <2>10, <2>11, <2>12, <2>13 DEF Places, Mine, i
  <2>17. a \in Nat /\ b \in Nat /\ o \in Nat /\ f \in Nat /\ d \in Nat /\ u \in Nat
    <3>1. l1[c].req \in Seq(Entering(p, c)) /\ l2.req \in Seq(Requests(p) \cup WriteBacks)
      BY <2>2 DEF L1Type, L2Type
    <3>2. d \in Nat /\ u \in Nat
      BY <2>2, <2>3, NumbersNext DEF Numbers
    <3>3. a \in Nat
      BY <3>1, CountType
    <3>4. b \in Nat
      BY <3>1, CountType
    <3>5. o \in Nat
      BY OneType
    <3>6. f \in Nat
      <4> HIDE DEF m
      <4> QED BY <2>9, CountType
    <3> QED BY <3>2, <3>3, <3>4, <3>5, <3>6
  <2> HIDE DEF a, b, o, f, d, u
  <2>18. a + b + (o + f) + d = 1 - u
    BY <2>14, <2>15 DEF a, b, o, f, d, u
  <2>19. a + b + o + f + d + u = 1
    BY <2>17, <2>18
  <2> QED BY <2>16, <2>19
<1> QED BY <1>1, HeldAlways, PTL

\* When nothing is left on its way, every access of the program was performed, once:
\* no coalescing, victim, flush or snoop loses one.
Drained ==
  /\ done.left = <<>> /\ l2.req = <<>> /\ l2.data = <<>>
  /\ \A c \in Caches : l1[c].req = <<>> /\ l1[c].down = <<>>
  /\ \A x \in Lines : ~l2.mshr[x].valid /\ \A c \in Caches : ~l1[c].mshr[x].valid

THEOREM NoAccessIsLost == Spec => [](Drained => \A n \in DOMAIN done.count : done.count[n] = 1)
<1>1. IInv => (Drained => \A n \in DOMAIN done.count : done.count[n] = 1)
  <2> SUFFICES ASSUME IInv, Drained PROVE \A n \in DOMAIN done.count : done.count[n] = 1
    OBVIOUS
  <2>1. PICK p \in Programs : Inv(p)
    BY DEF IInv
  <2>2. /\ L1Type(p) /\ L2Type(p) /\ RestType(p) /\ AccessHeld(p) /\ Alone \in BOOLEAN
        /\ \A i \in DOMAIN p : done.count[i] \in Nat
    BY <2>1, InvParts
  <2>3. /\ p \in Seq(Accesses) /\ Len(p) \in Nat /\ DOMAIN p = 1 .. Len(p)
        /\ \A i \in DOMAIN p : p[i].cache \in Caches /\ p[i].line \in Lines
    BY ProgramType
  <2>4. done.count \in [DOMAIN p -> Nat] /\ done.left = <<>>
    BY <2>2 DEF RestType, Drained
  <2>5. Issued = Len(p)
    <3>1. Len(done.count) = Len(p) /\ Len(done.left) = 0
      BY <2>3, <2>4
    <3> QED BY <2>3, <3>1 DEF Issued
  <2>6. \A P : Count(<<>>, P) = 0
    BY CountEmpty
  <2>7. "D" \in Caches
    BY DEF Caches
  <2>8. ASSUME NEW i \in DOMAIN p PROVE done.count[i] = 1
    <3>1. p[i].cache \in Caches /\ p[i].line \in Lines
      BY <2>3
    <3> DEFINE x == p[i].line
               c == p[i].cache
    <3>2. l2.mshr[x].main = NoRequest /\ l2.mshr[x].coal = <<>>
      <4>1. l2.mshr[x] \in MSHRs(OfLine(p, x), 1 .. Ways2) /\ ~l2.mshr[x].valid
        BY <2>2, <3>1 DEF L2Type, Drained
      <4> QED BY <4>1 DEF MSHRs
    <3>3. l1[c].mshr[x].main = NoRequest /\ l1[c].mshr[x].coal = <<>>
      <4>1. l1[c].mshr[x] \in MSHRs(Missed(p, c, x), 1 .. Ways1) /\ ~l1[c].mshr[x].valid
        BY <2>2, <3>1 DEF L1Type, Drained
      <4> QED BY <4>1 DEF MSHRs
    <3>4. One(NoRequest, Holding(p, i, Alone)) = 0 /\ One(NoRequest, OfAccess(p, i)) = 0
      BY <2>2, OneRequest, OneAccess DEF One
    <3>5. AtL1(p, i, Alone) = 0 /\ AtL2(p, i, Alone) = 0 /\ InData(p, i, Alone) = 0 /\ InFlush(p, i) = 0
      BY <2>6, <2>7, <3>1 DEF AtL1, AtL2, InData, InFlush, Drained
    <3>6. InL2(p, i, Alone) = 0 /\ InMSHR(p, i) = 0
      BY <2>6, <3>2, <3>3, <3>4 DEF InL2, InMSHR
    <3>7. Below(p, i, Alone) = 0
      BY <3>5, <3>6 DEF Below
    <3>8. done.count[i] + Below(p, i, Alone) + InMSHR(p, i) + InFlush(p, i) = 1
      BY <2>2, <2>3, <2>5 DEF AccessHeld
    <3> QED BY <2>2, <3>5, <3>6, <3>7, <3>8
  <2> QED BY <2>4, <2>8
<1> QED BY <1>1, HeldAlways, PTL
=============================================================================
