-------------------------- MODULE UncachedIOProofs --------------------------
\* Proofs about the uncached path and the coherent I/O device. Whatever the
\* sizes of the buffer and of the queues, and however many transfers and cache
\* requests there are, the device answers snoops in bus order and keeps every
\* line it owns on its scoreboard, so no cache gets a line between the device's
\* READ_OWN and its write-back.
EXTENDS UncachedIO, WellFoundedInduction, FiniteSetTheorems, TLAPS

-----------------------------------------------------------------------------
(* Values *)

Accesses == 1 .. Len(prog)
Access   == [op : {"READ", "WRITE", "BARRIER"}, addr : Nat, words : Nat]
Entry    == [type : {"READ", "WRITE"}, address : Int, fence : BOOLEAN, busy : BOOLEAN,
             reqs : [Slots -> 0 .. Len(prog)]]
Transfer == [kind : {"READ_CURRENT", "READ_OWN", "WRITEPURGE", "INTERRUPT"}, line : Nat]
Snoop    == [kind : {"READ_SH", "READ_OWN", "UPGRADE"}, line : Nat]

\* What the workloads are: a device does not read and write one line with DMA at
\* once, and the requests of the caches are what caches send.
WorkloadsAreOrdinary ==
  \A w \in Workloads :
    /\ w.prog \in Seq(Access) /\ w.dma \in Seq(Transfer) /\ w.snoops \in Seq(Snoop)
    /\ \A d, e \in DOMAIN w.dma :
         w.dma[d].kind = "READ_OWN" /\ w.dma[e].kind = "READ_CURRENT" => w.dma[d].line # w.dma[e].line

BufferTypes ==
  /\ prog \in Seq(Access) /\ issued \in 0 .. Len(prog)
  /\ entries \in Seq(Entry) /\ Len(entries) <= ubufsize
  /\ \A n \in DOMAIN entries : Occupied(entries[n].reqs) # {}
  /\ cur_reads \in Int /\ transaction_pending \in BOOLEAN /\ hung \in BOOLEAN
  /\ bus_waiter \in Seq(Accesses) /\ completed \in SUBSET Accesses

\* The sizes the configuration allows are numbers.
LEMMA SlotNumbers == ubufentrysize \in Nat \ {0}
<1>1. 2^0 = 1 /\ 2^1 = 2 /\ 2^2 = 4 /\ 2^3 = 8 /\ 2^4 = 16 /\ 2^5 = 32
  OBVIOUS
<1>2. PICK k \in 0 .. 5 : ubufentrysize = 2^k
  BY BufferAssumption
<1>3. 2^k \in {2^0, 2^1, 2^2, 2^3, 2^4, 2^5}
  <2>1. k = 0 \/ k = 1 \/ k = 2 \/ k = 3 \/ k = 4 \/ k = 5
    OBVIOUS
  <2> QED BY <2>1, Zenon
<1>4. 1 \in Nat \ {0} /\ 2 \in Nat \ {0} /\ 4 \in Nat \ {0} /\ 8 \in Nat \ {0} /\ 16 \in Nat \ {0}
      /\ 32 \in Nat \ {0}
  OBVIOUS
<1>5. ubufentrysize \in {1, 2, 4, 8, 16, 32}
  BY <1>1, <1>2, <1>3
<1> QED BY <1>4, <1>5

\* A set of numbers has a smallest member, so Min and Lookup mean what they say.
LEMMA SmallestExists ==
  ASSUME NEW S \in SUBSET Nat, S # {}
  PROVE  \E n \in S : \A o \in S : n <= o
<1> DEFINE R == {ss \in Nat \X Nat : ss[1] < ss[2]}
<1>1. IsWellFoundedOn(R, Nat)
  BY NatLessThanWellFounded DEF OpToRel
<1> HIDE DEF R
<1>2. PICK n \in S : \A o \in S : ~(<<o, n>> \in R)
  BY <1>1, WFMin
<1>3. n \in Nat /\ \A o \in S : o \in Nat
  OBVIOUS
<1>4. \A o \in S : ~(o < n)
  BY <1>2, <1>3 DEF R
<1> QED BY <1>3, <1>4

\* The n-th smallest member of a set of numbers exists.
LEMMA NthSmallest ==
  ASSUME NEW N \in Nat, NEW S \in SUBSET (0 .. N), NEW n \in 1 .. Cardinality(S)
  PROVE  \E s \in S : Cardinality({t \in S : t <= s}) = n
<1> DEFINE below == [s \in -1 .. N |-> {t \in S : t <= s}]
           size  == [s \in -1 .. N |-> Cardinality(below[s])]
           Late  == {s \in 0 .. N : size[s] >= n}
<1>1. IsFiniteSet(S) /\ Cardinality(S) \in Nat /\ \A t \in S : t \in Nat /\ t <= N
  <2>1. IsFiniteSet(0 .. N)
    BY FS_Interval
  <2>2. IsFiniteSet(S)
    BY <2>1, FS_Subset
  <2>3. \A t \in S : t \in Nat /\ t <= N
    OBVIOUS
  <2> QED BY <2>2, <2>3, FS_CardinalityType
<1>2. \A s \in -1 .. N : below[s] = {t \in S : t <= s}
  OBVIOUS
<1>3. \A s \in -1 .. N : size[s] = Cardinality(below[s])
  OBVIOUS
<1>4. \A s \in -1 .. N : below[s] \subseteq S
  BY <1>2
<1> HIDE DEF below, size
<1>5. \A s \in -1 .. N : IsFiniteSet(below[s]) /\ size[s] \in Nat
  BY <1>1, <1>3, <1>4, FS_Subset, FS_CardinalityType
<1>6. size[N] = Cardinality(S)
  <2>1. N \in -1 .. N
    OBVIOUS
  <2>2. below[N] = S
    BY <1>1, <1>2, <2>1
  <2> QED BY <1>3, <2>1, <2>2
<1>7. size[-1] = 0
  <2>1. -1 \in -1 .. N
    OBVIOUS
  <2>2. below[-1] = {t \in S : t <= -1}
    BY <1>2, <2>1
  <2>3. \A t \in S : ~(t <= -1)
    BY <1>1
  <2>4. below[-1] = {}
    BY <2>2, <2>3
  <2> QED BY <1>3, <2>1, <2>4, FS_EmptySet
<1>8. PICK s \in Late : \A o \in Late : s <= o
  <2>1. N \in Late /\ Late \in SUBSET Nat
    BY <1>1, <1>6
  <2> HIDE DEF Late
  <2> QED BY <2>1, SmallestExists
<1>9. s \in 0 .. N /\ size[s] >= n /\ s \in -1 .. N /\ s - 1 \in -1 .. N
  BY <1>8
<1>10. size[s - 1] < n /\ size[s - 1] \in Nat
  <2>1. CASE s = 0
    BY <1>7, <2>1
  <2>2. CASE s # 0
    <3>1. s - 1 \in 0 .. N /\ ~(s <= s - 1)
      BY <1>9, <2>2
    <3>2. ~(size[s - 1] >= n)
      BY <1>8, <3>1
    <3> QED BY <1>5, <1>9, <3>2
  <2> QED BY <2>1, <2>2
<1>11. s \in S
  <2> SUFFICES ASSUME s \notin S PROVE FALSE
    OBVIOUS
  <2>1. \A t \in S : t <= s <=> t <= s - 1
    BY <1>1, <1>9
  <2>2. below[s] = below[s - 1]
    BY <1>2, <1>9, <2>1
  <2> QED BY <1>3, <1>5, <1>9, <1>10, <2>2
<1>12. below[s] = below[s - 1] \cup {s} /\ s \notin below[s - 1]
  <2>1. /\ \A t \in S : t <= s <=> t <= s - 1 \/ t = s
        /\ ~(s <= s - 1)
    BY <1>1, <1>9
  <2> QED BY <1>2, <1>9, <1>11, <2>1
<1>13. size[s] = size[s - 1] + 1
  BY <1>3, <1>5, <1>9, <1>12, FS_AddElement
<1>14. size[s] = n
  BY <1>9, <1>10, <1>13
<1> QED BY <1>2, <1>3, <1>9, <1>11, <1>14

\* The transaction SendTransaction makes lists existing slots.
LEMMA NthSlot ==
  ASSUME NEW S \in SUBSET Slots, NEW n \in 1 .. Cardinality(S)
  PROVE  \E s \in S : Cardinality({t \in S : t <= s}) = n
<1>1. ubufentrysize - 1 \in Nat /\ S \in SUBSET (0 .. (ubufentrysize - 1))
  BY SlotNumbers DEF Slots
<1> QED BY <1>1, NthSmallest

-----------------------------------------------------------------------------
(* The buffer *)

\* The line and the slot of an access.
LEMMA SlotOfAccess ==
  ASSUME BufferTypes, NEW k \in Accesses
  PROVE  /\ prog[k] \in Access /\ SlotOf(k) \in Slots /\ LineOf(k) \in Int
         /\ (prog[k].op # "BARRIER" => prog[k].op \in {"READ", "WRITE"})
<1>1. prog[k] \in Access /\ ubufentrysize \in Nat \ {0}
  BY SlotNumbers DEF BufferTypes, Accesses
<1> QED BY <1>1 DEF Access, SlotOf, LineOf, Slots

\* One step of the buffer at a time.
LEMMA AddBarrierTypes ==
  ASSUME BufferTypes, AddBarrier
  PROVE  BufferTypes'
<1>1. issued + 1 \in Accesses /\ issued' \in 0 .. Len(prog) /\ completed' \in SUBSET Accesses
  BY DEF BufferTypes, AddBarrier, Accesses
<1>2. CASE entries = <<>>
  BY <1>1, <1>2 DEF BufferTypes, AddBarrier, Accesses, Entry, Slots
<1>3. CASE entries # <<>>
  <2> DEFINE l == Len(entries)
             e == [entries[l] EXCEPT !.fence = TRUE]
  <2>1. l \in DOMAIN entries /\ l \in Nat /\ DOMAIN entries = 1 .. l /\ entries[l] \in Entry
    BY <1>3 DEF BufferTypes
  <2>2. e \in Entry /\ e.reqs = entries[l].reqs
    BY <2>1 DEF Entry
  <2>3. entries' = [entries EXCEPT ![l] = e] /\ cur_reads' = cur_reads + 1
    BY <1>3 DEF AddBarrier
  <2> HIDE DEF e
  <2>4. entries' \in Seq(Entry) /\ Len(entries') = Len(entries)
    BY <2>1, <2>2, <2>3 DEF BufferTypes
  <2>5. \A n \in DOMAIN entries' : Occupied(entries'[n].reqs) # {}
    BY <2>1, <2>2, <2>3 DEF BufferTypes
  <2>6. prog' = prog /\ transaction_pending' = transaction_pending /\ bus_waiter' = bus_waiter
        /\ hung' = hung
    BY DEF AddBarrier
  <2> QED BY <1>1, <2>3, <2>4, <2>5, <2>6 DEF BufferTypes, Accesses, Entry, Slots, Occupied, NULL
<1> QED BY <1>2, <1>3

LEMMA AddRequestTypes ==
  ASSUME BufferTypes, AddRequest
  PROVE  BufferTypes'
<1> DEFINE k   == issued + 1
           top == EntryFor(k)
           old == IF top > Len(entries) THEN EmptyEntry ELSE entries[top].reqs
           reqs == [old EXCEPT ![SlotOf(k)] = k]
           new == [type |-> prog[k].op, address |-> LineOf(k), fence |-> FALSE,
                   busy |-> FALSE, reqs |-> reqs]
<1>1. /\ k \in Accesses /\ k \in Nat /\ k # NULL /\ prog[k].op # "BARRIER" /\ ~Stalls(top)
      /\ entries' = IF top > Len(entries) THEN Append(entries, new) ELSE [entries EXCEPT ![top] = new]
      /\ completed' = completed \cup ({old[SlotOf(k)]} \ {NULL})
      /\ cur_reads' \in {cur_reads, cur_reads + 1} /\ issued' = k
      /\ UNCHANGED <<prog, transaction_pending, bus_waiter, hung>>
  BY DEF BufferTypes, AddRequest, Accesses, NULL
<1>2. top \in 1 .. Len(entries) \/ top = Len(entries) + 1
  <2>1. CASE CombinesWith(k) = {}
    BY <2>1 DEF EntryFor
  <2>2. CASE CombinesWith(k) # {}
    <3> DEFINE C == CombinesWith(k)
    <3>1. C \subseteq 1 .. Len(entries)
      BY DEF CombinesWith
    <3>2. Len(entries) \in Nat
      BY DEF BufferTypes
    <3> HIDE DEF C
    <3>3. \E m \in C : \A o \in C : o <= m
      <4> DEFINE D == {Len(entries) - c : c \in C}
      <4>1. D \in SUBSET Nat /\ D # {}
        BY <2>2, <3>1, <3>2 DEF C
      <4>2. PICK d \in D : \A o \in D : d <= o
        BY <4>1, SmallestExists
      <4>3. PICK m \in C : d = Len(entries) - m
        BY <4>2
      <4>4. \A o \in C : Len(entries) - m <= Len(entries) - o
        BY <4>2, <4>3
      <4>5. \A o \in C : o <= m
        BY <3>1, <3>2, <4>3, <4>4
      <4> QED BY <4>3, <4>5
    <3>4. top = CHOOSE m \in C : \A o \in C : m >= o
      BY <2>2 DEF EntryFor, Max, C
    <3>5. \E m \in C : \A o \in C : m >= o
      BY <3>1, <3>2, <3>3
    <3>6. top \in C
      BY <3>4, <3>5
    <3> QED BY <3>1, <3>6
  <2> QED BY <2>1, <2>2
<1>3. /\ prog[k] \in Access /\ SlotOf(k) \in Slots /\ LineOf(k) \in Int
      /\ prog[k].op \in {"READ", "WRITE"}
  BY <1>1, SlotOfAccess
<1>4. Len(entries) \in Nat /\ ubufsize \in Nat /\ DOMAIN entries = 1 .. Len(entries)
  BY BufferAssumption DEF BufferTypes
<1>5. old \in [Slots -> 0 .. Len(prog)]
  <2>1. CASE top > Len(entries)
    BY <2>1 DEF EmptyEntry, NULL, BufferTypes
  <2>2. CASE ~(top > Len(entries))
    <3>1. top \in DOMAIN entries /\ entries[top] \in Entry
      BY <1>2, <1>4, <2>2 DEF BufferTypes
    <3> QED BY <2>2, <3>1 DEF Entry
  <2> QED BY <2>1, <2>2
<1> HIDE DEF old, top, k
<1>6. reqs \in [Slots -> 0 .. Len(prog)] /\ reqs[SlotOf(k)] = k
  BY <1>1, <1>3, <1>5 DEF Accesses
<1>7. Occupied(reqs) # {}
  BY <1>1, <1>3, <1>6 DEF Occupied
<1> HIDE DEF reqs
<1>8. new \in Entry /\ new.reqs = reqs
  BY <1>3, <1>6 DEF Entry
<1> HIDE DEF new
<1>9. /\ entries' \in Seq(Entry) /\ Len(entries') <= ubufsize
      /\ \A n \in DOMAIN entries' : Occupied(entries'[n].reqs) # {}
  <2>1. CASE top > Len(entries)
    <3>1. entries' = Append(entries, new) /\ top = Len(entries) + 1 /\ top <= ubufsize
      BY <1>1, <1>2, <1>4, <2>1 DEF Stalls
    <3>2. /\ entries' \in Seq(Entry) /\ Len(entries') = Len(entries) + 1
          /\ \A n \in DOMAIN entries' : entries'[n] = IF n = Len(entries) + 1 THEN new ELSE entries[n]
      BY <1>8, <3>1 DEF BufferTypes
    <3>3. \A n \in DOMAIN entries' : n = Len(entries) + 1 \/ n \in DOMAIN entries
      BY <1>4, <3>2
    <3> QED BY <1>7, <1>8, <3>1, <3>2, <3>3 DEF BufferTypes
  <2>2. CASE ~(top > Len(entries))
    <3>1. entries' = [entries EXCEPT ![top] = new] /\ top \in DOMAIN entries
      BY <1>1, <1>2, <1>4, <2>2
    <3> QED BY <1>7, <1>8, <3>1 DEF BufferTypes
  <2> QED BY <2>1, <2>2
<1>10. completed' \in SUBSET Accesses
  <2>1. old[SlotOf(k)] \in 0 .. Len(prog)
    BY <1>3, <1>5
  <2>2. {old[SlotOf(k)]} \ {NULL} \subseteq Accesses
    BY <2>1 DEF Accesses, NULL, BufferTypes
  <2>3. completed \subseteq Accesses
    BY DEF BufferTypes
  <2> QED BY <1>1, <2>2, <2>3
<1>11. issued' \in 0 .. Len(prog) /\ cur_reads' \in Int
  BY <1>1 DEF BufferTypes, Accesses
<1> QED BY <1>1, <1>9, <1>10, <1>11 DEF BufferTypes, Accesses, Entry, Slots, Occupied, NULL

LEMMA SendTransactionTypes ==
  ASSUME BufferTypes, SendTransaction
  PROVE  BufferTypes'
<1> DEFINE reqs  == entries[1].reqs
           start == Min(Occupied(reqs))
           coals == MaxCoalesce(reqs, start)
           sent  == {s \in Occupied(reqs) \cap RunFrom(reqs, start) : s = start \/ s < start + coals}
           left  == {s \in Occupied(reqs) \ sent : s >= start + coals}
           rest  == [s \in Slots |-> IF s \in sent THEN NULL ELSE reqs[s]]
           first == [entries[1] EXCEPT !.busy = TRUE, !.reqs = rest]
           reads == IF entries[1].type = "READ" THEN Cardinality(sent) ELSE 0
           fence == IF left = {} /\ entries[1].fence THEN 1 ELSE 0
           nth   == [n \in 1 .. Cardinality(sent) |->
                       reqs[CHOOSE s \in sent : Cardinality({t \in sent : t <= s}) = n]]
<1>1. /\ entries # <<>> /\ UNCHANGED <<prog, issued, completed>>
      /\ \/ UNCHANGED <<entries, cur_reads, transaction_pending, bus_waiter>> /\ hung' = TRUE
         \/ /\ bus_waiter' = nth /\ transaction_pending' = TRUE
            /\ cur_reads' = cur_reads - reads - fence /\ hung' = hung
            /\ entries' = IF left = {} THEN Tail(entries)
                          ELSE [entries EXCEPT ![1].busy = TRUE, ![1].reqs = rest]
  BY DEF SendTransaction
<1>2. /\ Len(entries) \in Nat /\ DOMAIN entries = 1 .. Len(entries) /\ Len(entries) >= 1
      /\ entries[1] \in Entry /\ reqs \in [Slots -> 0 .. Len(prog)] /\ Len(prog) \in Nat
      /\ Len(entries) <= ubufsize /\ ubufsize \in Nat
  <2>1. entries \in Seq(Entry) /\ entries # <<>> /\ prog \in Seq(Access) /\ Len(entries) <= ubufsize
    BY <1>1 DEF BufferTypes
  <2>2. Len(entries) \in Nat /\ DOMAIN entries = 1 .. Len(entries) /\ Len(entries) >= 1
    BY <2>1
  <2>3. Len(prog) \in Nat
    BY <2>1
  <2>4. entries[1] \in Entry
    BY <2>1, <2>2
  <2>5. reqs \in [Slots -> 0 .. Len(prog)]
    BY <2>4 DEF Entry
  <2>6. ubufsize \in Nat
    BY BufferAssumption
  <2> QED BY <2>1, <2>2, <2>3, <2>4, <2>5, <2>6
<1>3. sent \subseteq Occupied(reqs) /\ left \subseteq Occupied(reqs) \ sent
  OBVIOUS
<1> HIDE DEF start, coals, sent, left
<1>4. Occupied(reqs) \subseteq Slots /\ \A s \in Occupied(reqs) : reqs[s] \in Accesses
  BY <1>2 DEF Occupied, Accesses, NULL
<1>5. IsFiniteSet(sent) /\ Cardinality(sent) \in Nat
  <2>1. IsFiniteSet(Slots)
    BY SlotNumbers, FS_Interval DEF Slots
  <2>2. IsFiniteSet(sent)
    BY <1>3, <1>4, <2>1, FS_Subset
  <2> QED BY <2>2, FS_CardinalityType
<1>6. nth \in Seq(Accesses)
  <2>1. ASSUME NEW n \in 1 .. Cardinality(sent)
        PROVE  reqs[CHOOSE s \in sent : Cardinality({t \in sent : t <= s}) = n] \in Accesses
    <3>1. \E s \in sent : Cardinality({t \in sent : t <= s}) = n
      BY <1>3, <1>4, NthSlot
    <3>2. (CHOOSE s \in sent : Cardinality({t \in sent : t <= s}) = n) \in sent
      BY <3>1
    <3> QED BY <1>3, <1>4, <3>2
  <2> HIDE DEF reqs
  <2>2. nth \in [1 .. Cardinality(sent) -> Accesses]
    BY <2>1
  <2> HIDE DEF nth
  <2> QED BY <1>5, <2>2
<1>7. CASE UNCHANGED <<entries, cur_reads, transaction_pending, bus_waiter>> /\ hung' = TRUE
  BY <1>1, <1>7 DEF BufferTypes, Accesses, Entry, Slots, Occupied, NULL
<1>8. CASE /\ bus_waiter' = nth /\ transaction_pending' = TRUE
           /\ cur_reads' = cur_reads - reads - fence /\ hung' = hung
           /\ entries' = IF left = {} THEN Tail(entries)
                         ELSE [entries EXCEPT ![1].busy = TRUE, ![1].reqs = rest]
  <2>1. cur_reads' \in Int
    <3>1. reads \in Nat /\ fence \in Nat
      BY <1>5
    <3> HIDE DEF reads, fence
    <3> QED BY <1>8, <3>1 DEF BufferTypes
  <2>2. /\ entries' \in Seq(Entry) /\ Len(entries') <= ubufsize
        /\ \A n \in DOMAIN entries' : Occupied(entries'[n].reqs) # {}
    <3>1. CASE left = {}
      <4>1. entries' = Tail(entries)
        BY <1>8, <3>1
      <4>2. /\ entries' \in Seq(Entry) /\ Len(entries') = Len(entries) - 1
            /\ \A n \in DOMAIN entries' : n + 1 \in DOMAIN entries /\ entries'[n] = entries[n + 1]
        <5>1. entries \in Seq(Entry) /\ entries # <<>>
          BY <1>1 DEF BufferTypes
        <5>2. Tail(entries) \in Seq(Entry) /\ Len(Tail(entries)) = Len(entries) - 1
          BY <5>1
        <5>3. \A n \in 1 .. Len(Tail(entries)) : Tail(entries)[n] = entries[n + 1]
          BY <5>1, <5>2
        <5>4. DOMAIN Tail(entries) = 1 .. Len(Tail(entries))
          BY <5>2
        <5>5. \A n \in DOMAIN Tail(entries) : n + 1 \in DOMAIN entries
          BY <1>2, <5>2, <5>4
        <5> QED BY <4>1, <5>2, <5>3, <5>4, <5>5
      <4>3. Len(entries') <= ubufsize
        BY <1>2, <4>2
      <4>4. \A n \in DOMAIN entries : Occupied(entries[n].reqs) # {}
        BY DEF BufferTypes
      <4>5. ASSUME NEW n \in DOMAIN entries' PROVE Occupied(entries'[n].reqs) # {}
        <5>1. n + 1 \in DOMAIN entries /\ entries'[n] = entries[n + 1]
          BY <4>2
        <5> QED BY <4>4, <5>1
      <4> QED BY <4>2, <4>3, <4>5
    <3>2. CASE left # {}
      <4>1. entries' = [entries EXCEPT ![1] = first]
        BY <1>8, <3>2
      <4>2. rest \in [Slots -> 0 .. Len(prog)]
        BY <1>2 DEF NULL
      <4>3. \A s \in left : s \in Slots /\ rest[s] # NULL
        BY <1>3, <1>4 DEF Occupied
      <4>4. Occupied(rest) # {}
        BY <3>2, <4>3 DEF Occupied
      <4> HIDE DEF rest
      <4>5. first \in Entry /\ first.reqs = rest
        BY <1>2, <4>2 DEF Entry
      <4> HIDE DEF first
      <4>6. entries' \in Seq(Entry) /\ Len(entries') = Len(entries)
        BY <1>2, <4>1, <4>5 DEF BufferTypes
      <4>7. \A n \in DOMAIN entries' : entries'[n] = IF n = 1 THEN first ELSE entries[n]
        BY <4>1
      <4>8. DOMAIN entries' = DOMAIN entries
        BY <4>1
      <4> QED BY <1>2, <4>4, <4>5, <4>6, <4>7, <4>8 DEF BufferTypes
    <3> QED BY <3>1, <3>2
  <2>3. bus_waiter' \in Seq(Accesses)
    BY <1>6, <1>8
  <2> QED BY <1>1, <1>8, <2>1, <2>2, <2>3 DEF BufferTypes, Accesses, Entry, Slots, Occupied, NULL
<1> QED BY <1>1, <1>7, <1>8
\* The steps that leave the buffer alone.
LEMMA BufferTypesStay ==
  ASSUME BufferTypes, UNCHANGED bufferVars
  PROVE  BufferTypes'
BY DEF BufferTypes, bufferVars, Accesses, Entry, Slots, Occupied, NULL

-----------------------------------------------------------------------------
(* The device and the bus *)

\* What the queues of the device hold, and what is snooped.
Items    == {Own(d) : d \in 1 .. dma_issued} \cup {Reply(t) : t \in Seq(Accesses)}
Coherent == {Own(d) : d \in 1 .. dma_issued} \cup {Cpu(s) : s \in 1 .. snooped}

WorkloadTypes ==
  /\ dma \in Seq(Transfer) /\ dma_issued \in 0 .. Len(dma)
  /\ snoops \in Seq(Snoop) /\ snooped \in 0 .. Len(snoops)
  /\ \A d, e \in DOMAIN dma :
       dma[d].kind = "READ_OWN" /\ dma[e].kind = "READ_CURRENT" => dma[d].line # dma[e].line

DmaTypes ==
  /\ dma_type \in [DOMAIN dma -> {"none", "REQUEST", "REPLY", "WRITEBACK", "done"}]
  /\ \A d \in DOMAIN dma : d > dma_issued => dma_type[d] = "none"

HostQueues == inpipe \in Seq(Seq(Accesses)) /\ inqueue \in Seq(Seq(Accesses))

ControllerQueues ==
  /\ reply_queue \in Seq(Items) /\ dma_queue \in Seq(Items) /\ interrupt_queue \in Seq(Items)
  /\ bus_interface \in BOOLEAN
  /\ bus_interface => reply_queue # <<>> \/ interrupt_queue # <<>> \/ dma_queue # <<>>

WaysOut ==
  /\ outpipe \in Seq(Items) /\ outqueue \in Seq(Items) /\ writebacks \in Seq(Items)
  /\ arbwaiters \in Seq(Items) /\ arb_slot \in Items \cup {NoItem}

\* The snooped requests have had the bus and are answered in that order.
Seen == Len(bus_order) - Len(cohqueue)
SnoopsInOrder ==
  /\ bus_order \in Seq(Coherent) /\ cohqueue \in Seq(Coherent)
  /\ Len(cohqueue) <= Len(bus_order)
  /\ \A n \in 1 .. Len(cohqueue) : cohqueue[n] = bus_order[Seen + n]
  /\ answered = {bus_order[n] : n \in 1 .. Seen}

CachesAskOnce ==
  \A m, n \in 1 .. Len(bus_order) :
    bus_order[m] = bus_order[n] /\ ~IsOwn(bus_order[n]) => m = n

OwnsLine(r) == IsOwn(r) /\ dma[r[2]].kind = "READ_OWN" /\ dma_type[r[2]] # "done"

\* The scoreboard names every line the device owns.
BoardKeepsOwned ==
  /\ scoreboard \in Seq(DOMAIN dma)
  /\ \A n \in 1 .. Seen : OwnsLine(bus_order[n]) =>
       \E i \in DOMAIN scoreboard : scoreboard[i] = bus_order[n][2]

OwnerGoesFirst ==
  \A n \in 1 .. Seen, m \in 1 .. Len(bus_order) :
    m < n /\ ~IsOwn(bus_order[n]) /\ OwnsLine(bus_order[m])
      => dma[bus_order[m][2]].line # snoops[bus_order[n][2]].line

DeviceTypes == WorkloadTypes /\ DmaTypes /\ HostQueues /\ ControllerQueues /\ WaysOut
Order == SnoopsInOrder /\ CachesAskOnce /\ BoardKeepsOwned /\ OwnerGoesFirst
Inv == BufferTypes /\ DeviceTypes /\ Order

\* What the first component of an item says of the second.
LEMMA Kinds ==
  /\ \A x \in Items : /\ IsOwn(x) => \E d \in 1 .. dma_issued : x = Own(d) /\ x[2] = d
                      /\ x[1] = "reply" => x[2] \in Seq(Accesses)
                      /\ x # NoItem
  /\ \A x \in Coherent : \/ IsOwn(x) /\ \E d \in 1 .. dma_issued : x = Own(d) /\ x[2] = d
                         \/ ~IsOwn(x) /\ \E s \in 1 .. snooped : x = Cpu(s) /\ x[2] = s
BY DEF Items, Coherent, IsOwn, Own, Reply, Cpu, NoItem

\* Items only become more, so what a queue holds stays among them.
LEMMA SequencesGrow ==
  ASSUME NEW S, NEW T, S \subseteq T
  PROVE  Seq(S) \subseteq Seq(T)
OBVIOUS

LEMMA ItemsStay ==
  ASSUME dma_issued \in Nat, dma_issued' \in Nat, dma_issued <= dma_issued', prog' = prog
  PROVE  Items \subseteq Items' /\ Seq(Items) \subseteq Seq(Items')
<1>1. Items \subseteq Items'
  BY DEF Items, Own, Reply, Accesses
<1> QED BY <1>1, SequencesGrow

LEMMA CoherentStays ==
  ASSUME dma_issued \in Nat, dma_issued' \in Nat, dma_issued <= dma_issued',
         snooped \in Nat, snooped' \in Nat, snooped <= snooped'
  PROVE  Coherent \subseteq Coherent' /\ Seq(Coherent) \subseteq Seq(Coherent')
<1>1. Coherent \subseteq Coherent'
  BY DEF Coherent, Own, Cpu
<1> QED BY <1>1, SequencesGrow

\* Most steps issue nothing.
LEMMA ItemsSame ==
  ASSUME UNCHANGED <<dma_issued, prog>>
  PROVE  Items' = Items /\ Seq(Accesses)' = Seq(Accesses)
BY DEF Items, Accesses, Own, Reply

LEMMA CoherentSame ==
  ASSUME UNCHANGED <<dma_issued, snooped>>
  PROVE  Coherent' = Coherent
BY DEF Coherent, Own, Cpu

\* A new transfer enters a queue of the controller.
LEMMA HostIssueTypes ==
  ASSUME BufferTypes, DeviceTypes, HostIssue \/ HostInterrupt, UNCHANGED <<bufferVars, snoops, snooped>>
  PROVE  DeviceTypes'
<1> DEFINE d == dma_issued + 1
<1>1. /\ dma_issued < Len(dma) /\ dma_issued' = d /\ dma' = dma /\ prog' = prog
      /\ dma_type' = [dma_type EXCEPT ![d] = "REQUEST"] /\ bus_interface' = TRUE
      /\ UNCHANGED <<reply_queue, interfaceVars, snoops, snooped>>
  BY DEF HostIssue, HostInterrupt, bufferVars
<1>2. \/ dma_queue' = Append(dma_queue, Own(d)) /\ interrupt_queue' = interrupt_queue
      \/ interrupt_queue' = <<Own(d)>> /\ dma_queue' = dma_queue
  BY DEF HostIssue, HostInterrupt
<1>3. dma_issued \in Nat /\ Len(dma) \in Nat /\ DOMAIN dma = 1 .. Len(dma) /\ d \in DOMAIN dma
      /\ dma_issued' \in Nat /\ dma_issued <= dma_issued' /\ dma_issued' \in 0 .. Len(dma)
  BY <1>1 DEF DeviceTypes, WorkloadTypes
<1>4. Items \subseteq Items' /\ Seq(Items) \subseteq Seq(Items') /\ Own(d) \in Items'
  <2>1. Own(d) \in Items'
    BY <1>1, <1>3 DEF Items, Own
  <2> QED BY <1>1, <1>3, <2>1, ItemsStay
<1>5. WorkloadTypes'
  BY <1>1, <1>3 DEF DeviceTypes, WorkloadTypes
<1>6. DmaTypes'
  BY <1>1, <1>3 DEF DeviceTypes, DmaTypes
<1>7. HostQueues'
  BY <1>1 DEF DeviceTypes, HostQueues, interfaceVars, Accesses
<1>8. WaysOut'
  BY <1>1, <1>4 DEF DeviceTypes, WaysOut, interfaceVars, NoItem
<1>9. ControllerQueues'
  <2>1. reply_queue \in Seq(Items') /\ dma_queue \in Seq(Items') /\ interrupt_queue \in Seq(Items')
    BY <1>4 DEF DeviceTypes, ControllerQueues
  <2>2. <<Own(d)>> \in Seq(Items') /\ Append(dma_queue, Own(d)) \in Seq(Items')
    BY <1>4, <2>1
  <2>3. <<Own(d)>> # <<>> /\ Append(dma_queue, Own(d)) # <<>>
    BY <2>1
  <2> HIDE DEF d
  <2>4. reply_queue' \in Seq(Items') /\ dma_queue' \in Seq(Items') /\ interrupt_queue' \in Seq(Items')
    BY <1>1, <1>2, <2>1, <2>2
  <2>5. interrupt_queue' # <<>> \/ dma_queue' # <<>>
    BY <1>2, <2>3
  <2> QED BY <1>1, <2>4, <2>5 DEF ControllerQueues
<1> QED BY <1>5, <1>6, <1>7, <1>8, <1>9 DEF DeviceTypes

\* A request moves from the controller's queues to the output pipe.
LEMMA BusInterfaceTypes ==
  ASSUME BufferTypes, DeviceTypes, BusInterface, UNCHANGED <<bufferVars, snoops, snooped>>
  PROVE  DeviceTypes'
<1> DEFINE room    == Len(outpipe) < PipeDepth
           replies == reply_queue # <<>>
           intr    == ~replies /\ interrupt_queue # <<>>
           req     == CASE replies -> Head(reply_queue)
                      [] intr    -> Head(interrupt_queue)
                      [] OTHER   -> Head(dma_queue)
<1>1. /\ bus_interface
      /\ reply_queue' = IF room /\ replies THEN Tail(reply_queue) ELSE reply_queue
      /\ interrupt_queue' = IF room /\ intr THEN <<>> ELSE interrupt_queue
      /\ dma_queue' = IF room /\ ~replies /\ ~intr THEN Tail(dma_queue) ELSE dma_queue
      /\ outpipe' = IF room THEN Append(outpipe, req) ELSE outpipe
      /\ bus_interface' = (reply_queue' # <<>> \/ interrupt_queue' # <<>> \/ dma_queue' # <<>>)
      /\ UNCHANGED <<dma, dma_issued, dma_type, inpipe, inqueue, cohqueue, inq_event,
                     outqueue, writebacks, scoreboard, arbwaiters, arb_slot, log, answered, prog,
                     snoops, snooped>>
  BY DEF BusInterface, bufferVars
<1>2. Items' = Items /\ Seq(Accesses)' = Seq(Accesses)
  BY <1>1, ItemsSame
<1>3. /\ reply_queue \in Seq(Items) /\ dma_queue \in Seq(Items) /\ interrupt_queue \in Seq(Items)
      /\ outpipe \in Seq(Items)
      /\ reply_queue # <<>> \/ interrupt_queue # <<>> \/ dma_queue # <<>>
  BY <1>1 DEF DeviceTypes, ControllerQueues, WaysOut
<1>4. req \in Items
  <2>1. CASE replies
    BY <1>3, <2>1
  <2>2. CASE intr
    BY <1>3, <2>2
  <2>3. CASE ~replies /\ ~intr
    BY <1>3, <2>3
  <2> QED BY <2>1, <2>2, <2>3
<1> HIDE DEF req
<1>5. outpipe' \in Seq(Items)
  BY <1>1, <1>3, <1>4
<1>6. reply_queue' \in Seq(Items) /\ interrupt_queue' \in Seq(Items)
  BY <1>1, <1>3
<1>7. dma_queue' \in Seq(Items)
  <2>1. CASE room /\ ~replies /\ ~intr
    BY <1>1, <1>3, <2>1
  <2>2. CASE ~(room /\ ~replies /\ ~intr)
    BY <1>1, <1>3, <2>2
  <2> QED BY <2>1, <2>2
<1>8. WorkloadTypes' /\ DmaTypes' /\ HostQueues'
  BY <1>1, <1>2 DEF DeviceTypes, WorkloadTypes, DmaTypes, HostQueues
<1>9. ControllerQueues'
  BY <1>1, <1>2, <1>6, <1>7 DEF ControllerQueues
<1>10. WaysOut'
  BY <1>1, <1>2, <1>5 DEF DeviceTypes, WaysOut, NoItem
<1> QED BY <1>8, <1>9, <1>10 DEF DeviceTypes

\* An entry for the arbitrator: the slot or the end of the queue.
LEMMA ArbForBusTypes ==
  ASSUME NEW a \in [slot : Items \cup {NoItem}, waiters : Seq(Items)], NEW r \in Items
  PROVE  ArbForBus(a, r) \in [slot : Items \cup {NoItem}, waiters : Seq(Items)]
<1>1. a.waiters \in Seq(Items) /\ a.slot \in Items \cup {NoItem}
  OBVIOUS
<1>2. Append(a.waiters, r) \in Seq(Items)
  BY <1>1
<1>3. [a EXCEPT !.slot = r] \in [slot : Items \cup {NoItem}, waiters : Seq(Items)]
  BY <1>1
<1>4. [a EXCEPT !.waiters = Append(@, r)] \in [slot : Items \cup {NoItem}, waiters : Seq(Items)]
  BY <1>1, <1>2
<1> QED BY <1>3, <1>4 DEF ArbForBus

\* Write-backs and requests move on to the arbitrator.
LEMMA HandleOutqueueTypes ==
  ASSUME BufferTypes, DeviceTypes, HandleOutqueue, UNCHANGED <<bufferVars, snoops, snooped>>
  PROVE  DeviceTypes'
<1> DEFINE A    == [slot : Items \cup {NoItem}, waiters : Seq(Items)]
           a0   == [slot |-> arb_slot, waiters |-> arbwaiters]
           wb   == writebacks # <<>> /\ CanArb(a0)
           a1   == IF wb THEN ArbForBus(a0, Head(writebacks)) ELSE a0
           rq   == outqueue # <<>> /\ CanArb(a1)
           a2   == IF rq THEN ArbForBus(a1, Head(outqueue)) ELSE a1
           rest == IF rq THEN Tail(outqueue) ELSE outqueue
           move == outpipe # <<>> /\ Len(rest) < IO_MAX_TRANS
<1>1. /\ writebacks' = IF wb THEN Tail(writebacks) ELSE writebacks
      /\ arb_slot' = a2.slot /\ arbwaiters' = a2.waiters
      /\ outqueue' = IF move THEN Append(rest, Head(outpipe)) ELSE rest
      /\ outpipe' = IF move THEN Tail(outpipe) ELSE outpipe
      /\ UNCHANGED <<controllerVars, inpipe, inqueue, prog, snoops, snooped>>
  BY DEF HandleOutqueue, bufferVars
<1>2. Items' = Items /\ Seq(Accesses)' = Seq(Accesses)
  BY <1>1, ItemsSame DEF controllerVars
<1>3. /\ outpipe \in Seq(Items) /\ outqueue \in Seq(Items) /\ writebacks \in Seq(Items)
      /\ arbwaiters \in Seq(Items) /\ arb_slot \in Items \cup {NoItem}
  BY DEF DeviceTypes, WaysOut
<1>4. a0 \in A
  BY <1>3
<1> HIDE DEF a0
<1>5. a1 \in A
  <2>1. CASE wb
    <3>1. Head(writebacks) \in Items
      BY <1>3, <2>1
    <3> QED BY <1>4, <2>1, <3>1, ArbForBusTypes
  <2>2. CASE ~wb
    BY <1>4, <2>2
  <2> QED BY <2>1, <2>2
<1>6. writebacks' \in Seq(Items)
  BY <1>1, <1>3
<1> HIDE DEF a1, wb
<1>7. a2 \in A
  <2>1. CASE rq
    <3>1. Head(outqueue) \in Items
      BY <1>3, <2>1
    <3> QED BY <1>5, <2>1, <3>1, ArbForBusTypes
  <2>2. CASE ~rq
    BY <1>5, <2>2
  <2> QED BY <2>1, <2>2
<1> HIDE DEF a2
<1>8. rest \in Seq(Items)
  <2>1. CASE rq
    BY <1>3, <2>1
  <2>2. CASE ~rq
    BY <1>3, <2>2
  <2> QED BY <2>1, <2>2
<1> HIDE DEF rest
<1>9. outqueue' \in Seq(Items) /\ outpipe' \in Seq(Items)
  BY <1>1, <1>3, <1>8
<1>10. arb_slot' \in Items \cup {NoItem} /\ arbwaiters' \in Seq(Items)
  BY <1>1, <1>7
<1>11. WaysOut'
  BY <1>2, <1>6, <1>9, <1>10 DEF WaysOut, NoItem
<1>12. WorkloadTypes' /\ DmaTypes' /\ HostQueues' /\ ControllerQueues'
  BY <1>1, <1>2 DEF DeviceTypes, WorkloadTypes, DmaTypes, HostQueues, ControllerQueues, controllerVars
<1> QED BY <1>11, <1>12 DEF DeviceTypes

\* The members of a transaction are accesses.
LEMMA ElementsOf ==
  ASSUME NEW t \in Seq(Accesses)
  PROVE  ToSet(t) \in SUBSET Accesses
BY DEF ToSet

LEMMA AppendTypes ==
  ASSUME NEW S, NEW q \in Seq(S), NEW x \in S
  PROVE  Append(q, x) \in Seq(S) /\ Append(q, x) # <<>>
<1>1. Append(q, x) \in Seq(S) /\ Len(Append(q, x)) = Len(q) + 1 /\ Len(q) \in Nat
  OBVIOUS
<1>2. Len(<<>>) = 0 /\ Len(q) + 1 # 0
  BY <1>1
<1> QED BY <1>1, <1>2

\* IO_handle_inqueue moves the accesses of the host.
LEMMA DeviceInputTypes ==
  ASSUME BufferTypes, DeviceTypes, DeviceInput
  PROVE  BufferTypes' /\ DeviceTypes'
<1> DEFINE t      == Head(inqueue)
           isRead == IsRead(Head(inqueue))
           old    == IF inqueue = <<>> THEN <<>> ELSE Tail(inqueue)
           new    == IF inpipe = <<>> THEN <<>> ELSE <<Head(inpipe)>>
<1>1. /\ \/ inqueue = <<>> /\ UNCHANGED <<reply_queue, bus_interface>>
         \/ /\ inqueue # <<>> /\ bus_interface' = (bus_interface \/ isRead)
            /\ reply_queue' = IF isRead THEN Append(reply_queue, Reply(t)) ELSE reply_queue
      /\ inqueue' = old \o new
      /\ inpipe' = IF inpipe = <<>> THEN <<>> ELSE Tail(inpipe)
      /\ completed' = completed \/ (inqueue # <<>> /\ completed' = completed \cup ToSet(t))
      /\ UNCHANGED <<dma, dma_issued, dma_type, outpipe, outqueue, outq_event, writebacks,
                     arbwaiters, arb_slot, dma_queue, interrupt_queue>>
      /\ UNCHANGED <<prog, issued, entries, cur_reads, transaction_pending, bus_waiter,
                     hung, snoops, snooped>>
  <2>1. /\ HandleInqueue(Request(Head(cohqueue)), isRead)
        /\ completed' = IF inqueue = <<>> THEN completed
                        ELSE IF isRead THEN completed ELSE completed \cup ToSet(t)
        /\ UNCHANGED <<prog, issued, entries, cur_reads, transaction_pending, bus_waiter,
                       hung, snoops, snooped>>
    BY DEF DeviceInput
  <2> HIDE DEF isRead, t
  <2>2. /\ \/ inqueue = <<>> /\ UNCHANGED <<reply_queue, bus_interface>>
           \/ /\ inqueue # <<>> /\ bus_interface' = (bus_interface \/ isRead)
              /\ reply_queue' = IF isRead THEN Append(reply_queue, Reply(t)) ELSE reply_queue
        /\ inqueue' = old \o new
        /\ inpipe' = IF inpipe = <<>> THEN <<>> ELSE Tail(inpipe)
        /\ UNCHANGED <<dma, dma_issued, dma_type, outpipe, outqueue, outq_event, writebacks,
                       arbwaiters, arb_slot, dma_queue, interrupt_queue>>
    BY <2>1 DEF HandleInqueue, t
  <2> QED BY <2>1, <2>2
<1>2. Items' = Items /\ Seq(Accesses)' = Seq(Accesses)
  BY <1>1, ItemsSame
<1>3. /\ inpipe \in Seq(Seq(Accesses)) /\ inqueue \in Seq(Seq(Accesses))
      /\ reply_queue \in Seq(Items) /\ dma_queue \in Seq(Items) /\ interrupt_queue \in Seq(Items)
      /\ bus_interface \in BOOLEAN
      /\ bus_interface => reply_queue # <<>> \/ interrupt_queue # <<>> \/ dma_queue # <<>>
  BY DEF DeviceTypes, HostQueues, ControllerQueues
<1>4. inqueue # <<>> => t \in Seq(Accesses) /\ Reply(t) \in Items
  <2>1. inqueue # <<>> => t \in Seq(Accesses)
    BY <1>3
  <2> QED BY <2>1 DEF Items
<1> HIDE DEF t
<1>5. isRead \in BOOLEAN
  BY DEF IsRead
<1> HIDE DEF isRead
<1>6. BufferTypes'
  <2>1. completed' \in SUBSET Accesses
    BY <1>1, <1>4, ElementsOf DEF BufferTypes
  <2> QED BY <1>1, <2>1 DEF BufferTypes, Accesses, Entry, Slots, Occupied, NULL
<1>7. HostQueues'
  <2>1. old \in Seq(Seq(Accesses))
    BY <1>3
  <2>2. new \in Seq(Seq(Accesses))
    <3>1. CASE inpipe = <<>>
      BY <3>1
    <3>2. CASE inpipe # <<>>
      <4>1. Head(inpipe) \in Seq(Accesses)
        BY <1>3, <3>2
      <4> QED BY <3>2, <4>1
    <3> QED BY <3>1, <3>2
  <2> HIDE DEF old, new
  <2>3. inqueue' \in Seq(Seq(Accesses))
    BY <1>1, <2>1, <2>2
  <2>4. inpipe' \in Seq(Seq(Accesses))
    BY <1>1, <1>3
  <2> QED BY <1>2, <2>3, <2>4 DEF HostQueues
<1>8. ControllerQueues'
  <2> DEFINE more == Append(reply_queue, Reply(t))
  <2>1. inqueue # <<>> => more \in Seq(Items) /\ more # <<>>
    BY <1>3, <1>4, AppendTypes
  <2> HIDE DEF more
  <2>2. CASE inqueue = <<>>
    BY <1>1, <1>2, <1>3, <2>2 DEF ControllerQueues
  <2>3. CASE inqueue # <<>> /\ isRead
    <3>1. reply_queue' = more /\ bus_interface' = TRUE
      BY <1>1, <2>3 DEF more
    <3> QED BY <1>1, <1>2, <1>3, <2>1, <2>3, <3>1 DEF ControllerQueues
  <2>4. CASE inqueue # <<>> /\ ~isRead
    <3>1. reply_queue' = reply_queue /\ bus_interface' = bus_interface
      BY <1>1, <1>3, <1>5, <2>4
    <3> QED BY <1>1, <1>2, <1>3, <3>1 DEF ControllerQueues
  <2> QED BY <1>5, <2>2, <2>3, <2>4
<1>9. WorkloadTypes' /\ DmaTypes' /\ WaysOut'
  BY <1>1, <1>2 DEF DeviceTypes, WorkloadTypes, DmaTypes, WaysOut, NoItem
<1> QED BY <1>6, <1>7, <1>8, <1>9 DEF DeviceTypes

\* The steps that take the bus and what comes back.
LEMMA GrantUncachedTypes ==
  ASSUME BufferTypes, DeviceTypes, GrantUncached
  PROVE  BufferTypes' /\ DeviceTypes'
<1>1. /\ inpipe' = Append(inpipe, bus_waiter) /\ bus_waiter' = NoAccesses
      /\ transaction_pending' = IsRead(bus_waiter)
      /\ UNCHANGED <<prog, issued, entries, cur_reads, completed, hung, controllerVars,
                     inqueue, outpipe, outqueue, writebacks, arbwaiters, arb_slot, snoops, snooped>>
  BY DEF GrantUncached
<1>2. Items' = Items /\ Seq(Accesses)' = Seq(Accesses)
  BY <1>1, ItemsSame DEF controllerVars
<1>3. transaction_pending' \in BOOLEAN
  BY <1>1 DEF IsRead
<1>4. bus_waiter' \in Seq(Accesses) /\ bus_waiter \in Seq(Accesses)
  BY <1>1 DEF NoAccesses, BufferTypes
<1>5. BufferTypes'
  BY <1>1, <1>2, <1>3, <1>4 DEF BufferTypes, Accesses, Entry, Slots, Occupied, NULL
<1>6. HostQueues'
  <2>1. inpipe \in Seq(Seq(Accesses)) /\ inqueue \in Seq(Seq(Accesses))
    BY DEF DeviceTypes, HostQueues
  <2>2. inpipe' \in Seq(Seq(Accesses))
    BY <1>1, <1>4, <2>1
  <2> QED BY <1>1, <1>2, <2>1, <2>2 DEF HostQueues
<1>7. WorkloadTypes' /\ DmaTypes' /\ ControllerQueues' /\ WaysOut'
  BY <1>1, <1>2 DEF DeviceTypes, WorkloadTypes, DmaTypes, ControllerQueues, WaysOut, NoItem, controllerVars
<1> QED BY <1>5, <1>6, <1>7 DEF DeviceTypes

LEMMA LeaveArbTypes ==
  ASSUME WaysOut, LeaveArb, UNCHANGED <<outpipe, outqueue, writebacks, dma_issued, prog>>
  PROVE  WaysOut'
<1>1. Items' = Items
  BY ItemsSame
<1>2. arb_slot' \in Items \cup {NoItem} /\ arbwaiters' \in Seq(Items)
  BY DEF WaysOut, LeaveArb
<1> QED BY <1>1, <1>2 DEF WaysOut, NoItem

LEMMA GrantReplyTypes ==
  ASSUME BufferTypes, DeviceTypes, GrantReply
  PROVE  BufferTypes' /\ DeviceTypes'
<1>1. /\ arb_slot # NoItem /\ arb_slot[1] = "reply" /\ LeaveArb
      /\ completed' = completed \cup ToSet(arb_slot[2]) /\ transaction_pending' = FALSE
      /\ UNCHANGED <<prog, issued, entries, cur_reads, bus_waiter, hung, controllerVars,
                     inpipe, inqueue, outpipe, outqueue, writebacks, snoops, snooped>>
  BY DEF GrantReply
<1>2. Items' = Items /\ Seq(Accesses)' = Seq(Accesses)
  BY <1>1, ItemsSame DEF controllerVars
<1>3. ToSet(arb_slot[2]) \in SUBSET Accesses
  BY <1>1, Kinds, ElementsOf DEF DeviceTypes, WaysOut
<1>4. BufferTypes'
  BY <1>1, <1>2, <1>3 DEF BufferTypes, Accesses, Entry, Slots, Occupied, NULL
<1>5. WaysOut'
  BY <1>1, LeaveArbTypes DEF DeviceTypes, controllerVars
<1>6. WorkloadTypes' /\ DmaTypes' /\ HostQueues' /\ ControllerQueues'
  BY <1>1, <1>2 DEF DeviceTypes, WorkloadTypes, DmaTypes, HostQueues, ControllerQueues, controllerVars
<1> QED BY <1>4, <1>5, <1>6 DEF DeviceTypes

LEMMA GrantOwnTypes ==
  ASSUME BufferTypes, DeviceTypes, GrantRequest \/ GrantWrite
  PROVE  BufferTypes' /\ DeviceTypes'
<1> DEFINE d == arb_slot[2]
<1>1. /\ arb_slot # NoItem /\ IsOwn(arb_slot) /\ LeaveArb
      /\ dma_type' = dma_type \/ dma_type' = [dma_type EXCEPT ![d] = "done"]
      /\ UNCHANGED <<bufferVars, dma, dma_issued, reply_queue, dma_queue, interrupt_queue,
                     bus_interface, inpipe, inqueue, outpipe, outqueue, writebacks, snoops, snooped>>
  BY DEF GrantRequest, GrantWrite
<1>2. Items' = Items /\ Seq(Accesses)' = Seq(Accesses) /\ UNCHANGED prog
  BY <1>1, ItemsSame DEF bufferVars
<1>3. d \in 1 .. dma_issued
  BY <1>1, Kinds DEF DeviceTypes, WaysOut
<1> HIDE DEF d
<1>4. DmaTypes'
  <2>1. dma_issued \in 0 .. Len(dma) /\ DOMAIN dma = 1 .. Len(dma) /\ Len(dma) \in Nat
    BY DEF DeviceTypes, WorkloadTypes
  <2> QED BY <1>1, <1>3, <2>1 DEF DeviceTypes, DmaTypes
<1>5. BufferTypes'
  BY <1>1, BufferTypesStay
<1>6. WaysOut'
  BY <1>1, <1>2, LeaveArbTypes DEF DeviceTypes
<1>7. WorkloadTypes' /\ HostQueues' /\ ControllerQueues'
  BY <1>1, <1>2 DEF DeviceTypes, WorkloadTypes, HostQueues, ControllerQueues
<1> QED BY <1>4, <1>5, <1>6, <1>7 DEF DeviceTypes

LEMMA GrantSnoopTypes ==
  ASSUME BufferTypes, DeviceTypes, GrantSnoop
  PROVE  BufferTypes' /\ DeviceTypes'
<1>1. /\ snooped < Len(snoops) /\ snooped' = snooped + 1
      /\ UNCHANGED <<bufferVars, controllerVars, inpipe, inqueue, outpipe, outqueue,
                     writebacks, arbwaiters, arb_slot, snoops>>
  BY DEF GrantSnoop
<1>2. Items' = Items /\ Seq(Accesses)' = Seq(Accesses) /\ UNCHANGED prog
  BY <1>1, ItemsSame DEF bufferVars, controllerVars
<1>3. WorkloadTypes'
  BY <1>1 DEF DeviceTypes, WorkloadTypes, controllerVars
<1>4. DmaTypes' /\ HostQueues' /\ ControllerQueues' /\ WaysOut'
  BY <1>1, <1>2 DEF DeviceTypes, DmaTypes, HostQueues, ControllerQueues, WaysOut, NoItem, controllerVars
<1> QED BY <1>1, <1>3, <1>4, BufferTypesStay DEF DeviceTypes

LEMMA MemoryAnswersTypes ==
  ASSUME BufferTypes, DeviceTypes, MemoryAnswers
  PROVE  BufferTypes' /\ DeviceTypes'
<1>1. PICK r \in outstanding \cap answered :
        /\ IsOwn(r) => dma_type[r[2]] = "REQUEST"
        /\ dma_type' = IF IsOwn(r) THEN [dma_type EXCEPT ![r[2]] = "REPLY"] ELSE dma_type
  BY DEF MemoryAnswers
<1>2. UNCHANGED <<bufferVars, dma, dma_issued, reply_queue, dma_queue, interrupt_queue,
                  bus_interface, interfaceVars, snoops, snooped>>
  BY DEF MemoryAnswers
<1>3. Items' = Items /\ Seq(Accesses)' = Seq(Accesses) /\ UNCHANGED prog
  BY <1>2, ItemsSame DEF bufferVars
<1>4. DmaTypes'
  BY <1>1, <1>2 DEF DeviceTypes, DmaTypes
<1>5. WorkloadTypes' /\ HostQueues' /\ ControllerQueues' /\ WaysOut'
  BY <1>2, <1>3 DEF DeviceTypes, WorkloadTypes, HostQueues, ControllerQueues, WaysOut, NoItem, interfaceVars
<1> QED BY <1>2, <1>4, <1>5, BufferTypesStay DEF DeviceTypes

LEMMA ReplyArrivesTypes ==
  ASSUME BufferTypes, DeviceTypes, ReplyArrives
  PROVE  BufferTypes' /\ DeviceTypes'
<1>1. PICK d \in DOMAIN dma : GetReply(d)
  BY DEF ReplyArrives
<1>2. /\ UNCHANGED <<dma, dma_issued, reply_queue, dma_queue, interrupt_queue, bus_interface,
                     inpipe, inqueue, outpipe, outqueue, arbwaiters, arb_slot,
                     bufferVars, snoops, snooped>>
      /\ dma_type[d] = "REPLY"
      /\ \/ dma_type' = [dma_type EXCEPT ![d] = "WRITEBACK"] /\ writebacks' = Append(writebacks, Own(d))
         \/ dma_type' = [dma_type EXCEPT ![d] = "done"] /\ writebacks' = writebacks
  BY <1>1 DEF ReplyArrives, GetReply
<1>3. Items' = Items /\ Seq(Accesses)' = Seq(Accesses) /\ UNCHANGED prog
  BY <1>2, ItemsSame DEF bufferVars
<1>4. DmaTypes'
  BY <1>2 DEF DeviceTypes, DmaTypes
<1>5. Own(d) \in Items
  <2>1. d \in 1 .. dma_issued
    BY <1>2 DEF DeviceTypes, DmaTypes, WorkloadTypes
  <2> QED BY <2>1 DEF Items
<1>6. writebacks' \in Seq(Items)
  <2>1. writebacks \in Seq(Items)
    BY DEF DeviceTypes, WaysOut
  <2>2. Append(writebacks, Own(d)) \in Seq(Items)
    BY <1>5, <2>1, AppendTypes
  <2> QED BY <1>2, <2>1, <2>2
<1>7. WaysOut'
  BY <1>2, <1>3, <1>6 DEF DeviceTypes, WaysOut, NoItem
<1>8. WorkloadTypes' /\ HostQueues' /\ ControllerQueues'
  BY <1>2, <1>3 DEF DeviceTypes, WorkloadTypes, HostQueues, ControllerQueues
<1> QED BY <1>2, <1>4, <1>7, <1>8, BufferTypesStay DEF DeviceTypes

-----------------------------------------------------------------------------
(* The order of the snoops *)

\* IO_scoreboard_lookup finds an entry of the line if there is one.
LEMMA LookupFinds ==
  ASSUME WorkloadTypes, NEW board \in Seq(DOMAIN dma), NEW line,
         \E i \in DOMAIN board : dma[board[i]].line = line
  PROVE  /\ Lookup(board, line) \in DOMAIN dma /\ Lookup(board, line) # 0
         /\ dma[Lookup(board, line)].line = line
<1> DEFINE matches == {n \in DOMAIN board : dma[board[n]].line = line}
           first   == CHOOSE n \in matches : \A m \in matches : n <= m
<1>1. matches # {} /\ matches \in SUBSET Nat
  OBVIOUS
<1>2. \E n \in matches : \A m \in matches : n <= m
  <2> HIDE DEF matches
  <2> QED BY <1>1, SmallestExists
<1>3. first \in matches
  <2> HIDE DEF matches
  <2> QED BY <1>2
<1>4. Lookup(board, line) = board[first]
  BY <1>1 DEF Lookup
<1> HIDE DEF first
<1>5. board[first] \in DOMAIN dma /\ dma[board[first]].line = line
  BY <1>3
<1>6. 0 \notin DOMAIN dma
  BY DEF WorkloadTypes
<1> QED BY <1>4, <1>5, <1>6

\* IO_scoreboard_remove fills the gap and loses no other entry.
LEMMA RemoveKeepsOthers ==
  ASSUME scoreboard \in Seq(DOMAIN dma), NEW d
  PROVE  /\ ScoreboardRemove(d) \in Seq(DOMAIN dma)
         /\ \A i \in DOMAIN scoreboard : scoreboard[i] # d =>
              \E j \in DOMAIN ScoreboardRemove(d) : ScoreboardRemove(d)[j] = scoreboard[i]
<1>1. CASE \A n \in DOMAIN scoreboard : scoreboard[n] # d
  BY <1>1 DEF ScoreboardRemove
<1>2. CASE ~(\A n \in DOMAIN scoreboard : scoreboard[n] # d)
  <2> DEFINE n     == CHOOSE i \in DOMAIN scoreboard : scoreboard[i] = d
             last  == Len(scoreboard)
             moved == [scoreboard EXCEPT ![n] = scoreboard[last]]
             left  == SubSeq(moved, 1, last - 1)
  <2>1. ScoreboardRemove(d) = left
    BY <1>2 DEF ScoreboardRemove
  <2>2. n \in DOMAIN scoreboard /\ scoreboard[n] = d
    BY <1>2
  <2> HIDE DEF n
  <2>3. last \in Nat /\ last >= 1 /\ DOMAIN scoreboard = 1 .. last /\ n \in 1 .. last
    BY <2>2
  <2>4. moved \in Seq(DOMAIN dma) /\ Len(moved) = last
        /\ \A i \in 1 .. last : moved[i] = IF i = n THEN scoreboard[last] ELSE scoreboard[i]
    BY <2>3
  <2> HIDE DEF moved
  <2>5. left \in Seq(DOMAIN dma) /\ Len(left) = last - 1
        /\ \A i \in 1 .. (last - 1) : left[i] = moved[i]
    BY <2>3, <2>4
  <2>6. DOMAIN left = 1 .. (last - 1)
    BY <2>5
  <2> HIDE DEF left
  <2>7. ASSUME NEW i \in DOMAIN scoreboard, scoreboard[i] # d
        PROVE  \E j \in DOMAIN left : left[j] = scoreboard[i]
    <3>1. CASE i # last
      <4>1. i \in 1 .. (last - 1) /\ i # n
        BY <2>2, <2>3, <2>7, <3>1
      <4>2. left[i] = scoreboard[i]
        BY <2>3, <2>4, <2>5, <4>1
      <4> QED BY <2>6, <4>1, <4>2
    <3>2. CASE i = last
      <4>1. n \in 1 .. (last - 1)
        BY <2>2, <2>3, <2>7, <3>2
      <4>2. left[n] = scoreboard[i]
        BY <2>3, <2>4, <2>5, <3>2, <4>1
      <4> QED BY <2>6, <4>1, <4>2
    <3> QED BY <3>1, <3>2
  <2> QED BY <2>1, <2>5, <2>7
<1> QED BY <1>1, <1>2

\* What is done stays done, and the scoreboard keeps what is not.
Keeps ==
  /\ dma_issued' \in Nat /\ dma_issued <= dma_issued' /\ UNCHANGED <<dma, snoops>>
  /\ \A d \in 1 .. dma_issued : dma_type[d] = "done" => dma_type'[d] = "done"
  /\ scoreboard' \in Seq(DOMAIN dma)
  /\ \A i \in DOMAIN scoreboard :
       dma[scoreboard[i]].kind = "READ_OWN" /\ dma_type'[scoreboard[i]] # "done" =>
         \E j \in DOMAIN scoreboard' : scoreboard'[j] = scoreboard[i]

\* Without a new request and without an answer the order is as it was.
LEMMA OrderStays ==
  ASSUME WorkloadTypes, Order, Keeps, UNCHANGED <<snooped, bus_order, cohqueue, answered>>
  PROVE  Order'
<1>1. /\ bus_order \in Seq(Coherent) /\ Len(bus_order) \in Nat /\ Len(cohqueue) \in Nat
      /\ Len(cohqueue) <= Len(bus_order) /\ Seen \in 0 .. Len(bus_order) /\ Seen' = Seen
  BY DEF Order, SnoopsInOrder, Seen
<1>2. Seq(Coherent) \subseteq Seq(Coherent')
  BY CoherentStays DEF WorkloadTypes, Keeps
<1>3. SnoopsInOrder'
  BY <1>1, <1>2 DEF Order, SnoopsInOrder, Seen
<1>4. CachesAskOnce'
  BY DEF Order, CachesAskOnce, IsOwn
<1>5. \A n \in 1 .. Len(bus_order) : OwnsLine(bus_order[n])' => OwnsLine(bus_order[n])
  <2> TAKE n \in 1 .. Len(bus_order)
  <2>1. bus_order[n] \in Coherent
    BY <1>1
  <2> DEFINE r == bus_order[n]
  <2>2. r' = r
    OBVIOUS
  <2> HAVE OwnsLine(bus_order[n])'
  <2>3. PICK d \in 1 .. dma_issued : r = Own(d) /\ r[2] = d
    BY <2>1, <2>2, Kinds DEF OwnsLine, IsOwn
  <2>4. dma_type'[d] # "done" /\ dma[d].kind = "READ_OWN" /\ IsOwn(r)
    BY <2>2, <2>3 DEF OwnsLine, Keeps, IsOwn
  <2> QED BY <2>3, <2>4 DEF OwnsLine, Keeps
<1>6. BoardKeepsOwned'
  <2>1. scoreboard' \in Seq(DOMAIN dma')
    BY DEF Keeps
  <2>2. ASSUME NEW n \in 1 .. Seen', OwnsLine(bus_order[n])'
        PROVE  \E i \in DOMAIN scoreboard' : scoreboard'[i] = bus_order[n]'[2]
    <3>1. n \in 1 .. Seen /\ n \in 1 .. Len(bus_order)
      BY <1>1
    <3>2. OwnsLine(bus_order[n]) /\ bus_order[n]' = bus_order[n]
      BY <1>5, <2>2, <3>1
    <3>3. PICK i \in DOMAIN scoreboard : scoreboard[i] = bus_order[n][2]
      BY <3>1, <3>2 DEF Order, BoardKeepsOwned
    <3>4. dma[scoreboard[i]].kind = "READ_OWN" /\ dma_type'[scoreboard[i]] # "done"
      BY <2>2, <3>2, <3>3 DEF OwnsLine
    <3> QED BY <3>2, <3>3, <3>4 DEF Keeps
  <2> QED BY <2>1, <2>2 DEF BoardKeepsOwned
<1>7. OwnerGoesFirst'
  <2> SUFFICES ASSUME NEW n \in 1 .. Seen', NEW m \in 1 .. Len(bus_order)',
                      m < n, ~IsOwn(bus_order[n])', OwnsLine(bus_order[m])'
               PROVE  dma'[bus_order[m]'[2]].line # snoops'[bus_order[n]'[2]].line
    BY DEF OwnerGoesFirst
  <2>1. n \in 1 .. Seen /\ m \in 1 .. Len(bus_order) /\ bus_order' = bus_order /\ dma' = dma
        /\ snoops' = snoops
    BY <1>1 DEF Keeps
  <2>2. OwnsLine(bus_order[m]) /\ ~IsOwn(bus_order[n])
    BY <1>5, <2>1 DEF IsOwn
  <2> QED BY <2>1, <2>2 DEF Order, OwnerGoesFirst
<1> QED BY <1>3, <1>4, <1>6, <1>7 DEF Order

\* One more request has the bus.
LEMMA OrderGrows ==
  ASSUME WorkloadTypes, Order, Keeps, NEW x \in Coherent',
         snooped' \in Nat, snooped <= snooped',
         IsOwn(x) \/ \A n \in 1 .. Len(bus_order) : bus_order[n] # x,
         bus_order' = Append(bus_order, x), cohqueue' = Append(cohqueue, x), answered' = answered
  PROVE  Order'
<1> DEFINE last == Len(bus_order)
<1>1. /\ bus_order \in Seq(Coherent) /\ Len(bus_order) \in Nat /\ Len(cohqueue) \in Nat
      /\ cohqueue \in Seq(Coherent) /\ Len(cohqueue) <= Len(bus_order)
      /\ Seen \in 0 .. Len(bus_order)
  BY DEF Order, SnoopsInOrder, Seen
<1>2. Seq(Coherent) \subseteq Seq(Coherent')
  BY CoherentStays DEF WorkloadTypes, Keeps
<1>3. /\ bus_order' \in Seq(Coherent') /\ cohqueue' \in Seq(Coherent')
      /\ Len(bus_order') = last + 1 /\ Len(cohqueue') = Len(cohqueue) + 1
      /\ bus_order'[last + 1] = x /\ \A n \in 1 .. last : bus_order'[n] = bus_order[n]
      /\ cohqueue'[Len(cohqueue) + 1] = x
      /\ \A n \in 1 .. Len(cohqueue) : cohqueue'[n] = cohqueue[n]
  <2> DEFINE C == Coherent'
  <2>1. bus_order \in Seq(C) /\ cohqueue \in Seq(C) /\ x \in C
    BY <1>1, <1>2
  <2> HIDE DEF C
  <2>2. bus_order' \in Seq(C) /\ cohqueue' \in Seq(C)
    BY <2>1, AppendTypes
  <2>3. /\ Len(bus_order') = last + 1 /\ Len(cohqueue') = Len(cohqueue) + 1
        /\ bus_order'[last + 1] = x /\ \A n \in 1 .. last : bus_order'[n] = bus_order[n]
        /\ cohqueue'[Len(cohqueue) + 1] = x
        /\ \A n \in 1 .. Len(cohqueue) : cohqueue'[n] = cohqueue[n]
    BY <2>1
  <2> QED BY <2>2, <2>3 DEF C
<1>4. Seen' = Seen
  BY <1>1, <1>3 DEF Seen
<1>5. SnoopsInOrder'
  <2>1. Len(cohqueue') <= Len(bus_order')
    BY <1>1, <1>3
  <2>2. ASSUME NEW n \in 1 .. Len(cohqueue')
        PROVE  cohqueue'[n] = bus_order'[Seen + n]
    <3>1. CASE n \in 1 .. Len(cohqueue)
      <4>1. cohqueue[n] = bus_order[Seen + n] /\ Seen + n \in 1 .. last
        BY <1>1, <3>1 DEF Order, SnoopsInOrder, Seen
      <4> QED BY <1>3, <3>1, <4>1
    <3>2. CASE n = Len(cohqueue) + 1
      <4>1. Seen + n = last + 1
        BY <1>1, <3>2 DEF Seen
      <4>2. cohqueue'[n] = x
        BY <1>3, <3>2
      <4> QED BY <1>3, <4>1, <4>2
    <3>3. n \in 1 .. Len(cohqueue) \/ n = Len(cohqueue) + 1
      <4>1. Len(cohqueue') = Len(cohqueue) + 1 /\ Len(cohqueue) \in Nat
        BY <1>1, <1>3
      <4> QED BY <4>1
    <3> QED BY <3>1, <3>2, <3>3
  <2>3. answered' = {bus_order'[n] : n \in 1 .. Seen}
    <3>1. answered = {bus_order[n] : n \in 1 .. Seen}
      BY DEF Order, SnoopsInOrder
    <3>2. \A n \in 1 .. Seen : bus_order'[n] = bus_order[n]
      BY <1>1, <1>3
    <3> QED BY <3>1, <3>2
  <2> QED BY <1>3, <1>4, <2>1, <2>2, <2>3 DEF SnoopsInOrder
<1>6. CachesAskOnce'
  <2> SUFFICES ASSUME NEW m \in 1 .. last + 1, NEW n \in 1 .. last + 1,
                      bus_order'[m] = bus_order'[n], ~IsOwn(bus_order'[n])
               PROVE  m = n
    BY <1>3 DEF CachesAskOnce, IsOwn
  <2>1. CASE m \in 1 .. last /\ n \in 1 .. last
    BY <1>3, <2>1 DEF Order, CachesAskOnce
  <2>2. CASE m = last + 1 \/ n = last + 1
    <3>1. bus_order'[n] = x
      BY <1>3, <2>2
    <3>2. \A k \in 1 .. last : bus_order'[k] # x
      BY <1>3, <3>1
    <3>3. m \notin 1 .. last /\ n \notin 1 .. last
      BY <3>1, <3>2
    <3> QED BY <1>1, <3>3
  <2> QED BY <1>1, <2>1, <2>2
<1>7. \A n \in 1 .. last : OwnsLine(bus_order[n])' => OwnsLine(bus_order[n])
  <2> TAKE n \in 1 .. last
  <2>1. bus_order[n] \in Coherent
    BY <1>1
  <2> DEFINE r == bus_order[n]
  <2>2. r' = r
    BY <1>3
  <2> HAVE OwnsLine(bus_order[n])'
  <2>3. PICK d \in 1 .. dma_issued : r = Own(d) /\ r[2] = d
    BY <2>1, <2>2, Kinds DEF OwnsLine, IsOwn
  <2>4. dma_type'[d] # "done" /\ dma[d].kind = "READ_OWN" /\ IsOwn(r)
    BY <2>2, <2>3 DEF OwnsLine, Keeps, IsOwn
  <2> QED BY <2>3, <2>4 DEF OwnsLine, Keeps
<1>8. BoardKeepsOwned'
  <2>1. scoreboard' \in Seq(DOMAIN dma')
    BY DEF Keeps
  <2>2. ASSUME NEW n \in 1 .. Seen', OwnsLine(bus_order[n])'
        PROVE  \E i \in DOMAIN scoreboard' : scoreboard'[i] = bus_order[n]'[2]
    <3>1. n \in 1 .. Seen /\ n \in 1 .. last
      BY <1>1, <1>4
    <3>2. OwnsLine(bus_order[n]) /\ bus_order[n]' = bus_order[n]
      BY <1>3, <1>7, <2>2, <3>1
    <3>3. PICK i \in DOMAIN scoreboard : scoreboard[i] = bus_order[n][2]
      BY <3>1, <3>2 DEF Order, BoardKeepsOwned
    <3>4. dma[scoreboard[i]].kind = "READ_OWN" /\ dma_type'[scoreboard[i]] # "done"
      BY <2>2, <3>2, <3>3 DEF OwnsLine
    <3> QED BY <3>2, <3>3, <3>4 DEF Keeps
  <2> QED BY <2>1, <2>2 DEF BoardKeepsOwned
<1>9. OwnerGoesFirst'
  <2> SUFFICES ASSUME NEW n \in 1 .. Seen', NEW m \in 1 .. Len(bus_order)',
                      m < n, ~IsOwn(bus_order[n])', OwnsLine(bus_order[m])'
               PROVE  dma'[bus_order[m]'[2]].line # snoops'[bus_order[n]'[2]].line
    BY DEF OwnerGoesFirst
  <2>1. n \in 1 .. Seen /\ n \in 1 .. last /\ m \in 1 .. last /\ dma' = dma /\ snoops' = snoops
    BY <1>1, <1>3, <1>4 DEF Keeps
  <2>2. bus_order[n]' = bus_order[n] /\ bus_order[m]' = bus_order[m]
    BY <1>3, <2>1
  <2>3. OwnsLine(bus_order[m]) /\ ~IsOwn(bus_order[n])
    BY <1>7, <2>1, <2>2 DEF IsOwn
  <2> QED BY <2>1, <2>2, <2>3 DEF Order, OwnerGoesFirst
<1> QED BY <1>5, <1>6, <1>8, <1>9 DEF Order

\* A snoop that the device does not answer stays where it is.
LEMMA OwnerIsAsked ==
  ASSUME WorkloadTypes, Order, NEW s \in 1 .. Len(snoops),
         Answers(Cpu(s), snoops[s], scoreboard),
         NEW m \in 1 .. Seen, OwnsLine(bus_order[m])
  PROVE  dma[bus_order[m][2]].line # snoops[s].line
<1> DEFINE d   == bus_order[m][2]
           own == Lookup(scoreboard, snoops[s].line)
<1> SUFFICES ASSUME dma[d].line = snoops[s].line PROVE FALSE
  OBVIOUS
<1>1. PICK i \in DOMAIN scoreboard : scoreboard[i] = d
  BY DEF Order, BoardKeepsOwned
<1>2. scoreboard \in Seq(DOMAIN dma) /\ d \in DOMAIN dma /\ dma[d].kind = "READ_OWN"
  BY <1>1 DEF Order, BoardKeepsOwned, OwnsLine
<1>3. own \in DOMAIN dma /\ own # 0 /\ dma[own].line = dma[d].line
  BY <1>1, <1>2, LookupFinds
<1>4. snoops[s].kind # "WRITEPURGE"
  <2>1. snoops[s] \in Snoop
    BY DEF WorkloadTypes
  <2> QED BY <2>1 DEF Snoop
<1>5. ~IsOwn(Cpu(s))
  BY DEF IsOwn, Cpu
<1>6. dma[own].kind = "READ_CURRENT"
  BY <1>3, <1>4, <1>5 DEF Answers
<1> QED BY <1>2, <1>3, <1>6 DEF WorkloadTypes

\* The head of cohqueue is entered, and answered if the scoreboard allows.
LEMMA DeviceInputOrder ==
  ASSUME BufferTypes, DeviceTypes, Order, DeviceInput
  PROVE  Order'
<1>1. /\ UNCHANGED <<dma, dma_issued, dma_type, snoops, snooped, bus_order>>
      /\ HandleInqueue(Request(Head(cohqueue)), IsRead(Head(inqueue)))
  BY DEF DeviceInput, HandleInqueue
<1>2. WorkloadTypes /\ dma_issued \in Nat
  BY DEF DeviceTypes, WorkloadTypes
<1>3. CASE cohqueue = <<>>
  <2>1. UNCHANGED <<cohqueue, scoreboard, answered>>
    BY <1>1, <1>3 DEF HandleInqueue
  <2>2. Keeps
    BY <1>1, <1>2, <2>1 DEF Keeps, Order, BoardKeepsOwned
  <2> QED BY <1>1, <1>2, <2>1, <2>2, OrderStays
<1>4. CASE cohqueue # <<>>
  <2> DEFINE r     == Head(cohqueue)
             board == BoardAfter(r)
             rc    == Answers(r, Request(r), board)
  <2>1. /\ scoreboard' = board
        /\ cohqueue' = IF rc THEN Tail(cohqueue) ELSE cohqueue
        /\ answered' = IF rc THEN answered \cup {r} ELSE answered
    BY <1>1, <1>4 DEF HandleInqueue
  <2>2. /\ bus_order \in Seq(Coherent) /\ cohqueue \in Seq(Coherent)
        /\ Len(bus_order) \in Nat /\ Len(cohqueue) \in Nat /\ Len(cohqueue) >= 1
        /\ Len(cohqueue) <= Len(bus_order) /\ Seen \in 0 .. (Len(bus_order) - 1)
    BY <1>4 DEF Order, SnoopsInOrder, Seen
  <2>3. r = bus_order[Seen + 1] /\ r \in Coherent /\ Seen + 1 \in 1 .. Len(bus_order)
    <3>1. r = cohqueue[1] /\ r \in Coherent
      BY <2>2
    <3>2. cohqueue[1] = bus_order[Seen + 1]
      BY <2>2 DEF Order, SnoopsInOrder
    <3> QED BY <2>2, <3>1, <3>2
  <2> HIDE DEF r
  <2>4. scoreboard \in Seq(DOMAIN dma)
    BY DEF Order, BoardKeepsOwned
  <2>5. /\ board \in Seq(DOMAIN dma)
        /\ \A i \in DOMAIN scoreboard : \E j \in DOMAIN board : board[j] = scoreboard[i]
        /\ OwnsLine(r) => \E j \in DOMAIN board : board[j] = r[2]
        /\ ~IsOwn(r) => board = scoreboard
    <3>1. CASE IsOwn(r) /\ dma[r[2]].kind # "WRITEPURGE"
      <4>1. board = Append(scoreboard, r[2])
        BY <3>1 DEF BoardAfter
      <4>2. r[2] \in DOMAIN dma
        BY <1>2, <2>3, <3>1, Kinds DEF WorkloadTypes
      <4> HIDE DEF board
      <4>3. board \in Seq(DOMAIN dma) /\ Len(board) = Len(scoreboard) + 1
            /\ board[Len(scoreboard) + 1] = r[2]
            /\ \A i \in 1 .. Len(scoreboard) : board[i] = scoreboard[i]
        BY <2>4, <4>1, <4>2
      <4>4. DOMAIN scoreboard = 1 .. Len(scoreboard) /\ DOMAIN board = 1 .. Len(scoreboard) + 1
            /\ Len(scoreboard) \in Nat
        BY <2>4, <4>3
      <4> QED BY <3>1, <4>3, <4>4
    <3>2. CASE ~(IsOwn(r) /\ dma[r[2]].kind # "WRITEPURGE")
      <4>1. board = scoreboard
        BY <3>2 DEF BoardAfter
      <4>2. ~OwnsLine(r)
        BY <3>2 DEF OwnsLine
      <4> QED BY <2>4, <4>1, <4>2
    <3> QED BY <3>1, <3>2
  <2> HIDE DEF board
  <2>6. \A n \in 1 .. Len(bus_order) : (OwnsLine(bus_order[n])' <=> OwnsLine(bus_order[n]))
    BY <1>1 DEF OwnsLine, IsOwn
  <2>7. Coherent' = Coherent
    BY <1>1, CoherentSame
  <2>8. CASE ~rc
    <3>1. UNCHANGED <<cohqueue, answered>>
      BY <2>1, <2>8
    <3>2. Keeps
      BY <1>1, <1>2, <2>1, <2>5 DEF Keeps
    <3> QED BY <1>1, <1>2, <3>1, <3>2, OrderStays
  <2>9. CASE rc
    <3>1. cohqueue' = Tail(cohqueue) /\ answered' = answered \cup {r}
      BY <2>1, <2>9
    <3>2. /\ cohqueue' \in Seq(Coherent) /\ Len(cohqueue') = Len(cohqueue) - 1
          /\ \A n \in 1 .. (Len(cohqueue) - 1) : cohqueue'[n] = cohqueue[n + 1]
      BY <2>2, <3>1
    <3>3. Seen' = Seen + 1
      BY <1>1, <2>2, <3>2 DEF Seen
    <3>4. SnoopsInOrder'
      <4>1. \A n \in 1 .. (Len(cohqueue) - 1) : cohqueue'[n] = bus_order[(Seen + 1) + n]
        <5> TAKE n \in 1 .. (Len(cohqueue) - 1)
        <5>1. n + 1 \in 1 .. Len(cohqueue) /\ Seen + (n + 1) = (Seen + 1) + n
          BY <2>2
        <5>2. cohqueue[n + 1] = bus_order[Seen + (n + 1)]
          BY <5>1 DEF Order, SnoopsInOrder
        <5> QED BY <3>2, <5>1, <5>2
      <4>2. answered \cup {r} = {bus_order[n] : n \in 1 .. (Seen + 1)}
        <5>1. answered = {bus_order[n] : n \in 1 .. Seen}
          BY DEF Order, SnoopsInOrder
        <5>2. \A n : n \in 1 .. (Seen + 1) <=> n \in 1 .. Seen \/ n = Seen + 1
          BY <2>2
        <5> QED BY <2>3, <5>1, <5>2
      <4>3. Len(cohqueue') <= Len(bus_order')
        BY <1>1, <2>2, <3>2
      <4> QED BY <1>1, <2>2, <2>7, <3>1, <3>2, <3>3, <4>1, <4>2, <4>3 DEF SnoopsInOrder
    <3>5. CachesAskOnce'
      BY <1>1 DEF Order, CachesAskOnce, IsOwn
    <3>6. BoardKeepsOwned'
      <4>1. scoreboard' \in Seq(DOMAIN dma')
        BY <1>1, <2>1, <2>5
      <4>2. ASSUME NEW n \in 1 .. Seen', OwnsLine(bus_order[n])'
            PROVE  \E i \in DOMAIN scoreboard' : scoreboard'[i] = bus_order[n]'[2]
        <5>1. n \in 1 .. Len(bus_order) /\ (n \in 1 .. Seen \/ n = Seen + 1)
          BY <2>2, <3>3
        <5>2. OwnsLine(bus_order[n]) /\ bus_order[n]' = bus_order[n]
          BY <1>1, <2>6, <4>2, <5>1
        <5>3. CASE n \in 1 .. Seen
          <6>1. PICK i \in DOMAIN scoreboard : scoreboard[i] = bus_order[n][2]
            BY <5>2, <5>3 DEF Order, BoardKeepsOwned
          <6> QED BY <2>1, <2>5, <5>2, <6>1
        <5>4. CASE n = Seen + 1
          BY <2>1, <2>3, <2>5, <5>2, <5>4
        <5> QED BY <5>1, <5>3, <5>4
      <4> QED BY <4>1, <4>2 DEF BoardKeepsOwned
    <3>7. OwnerGoesFirst'
      <4> SUFFICES ASSUME NEW n \in 1 .. Seen', NEW m \in 1 .. Len(bus_order)',
                          m < n, ~IsOwn(bus_order[n])', OwnsLine(bus_order[m])'
                   PROVE  dma'[bus_order[m]'[2]].line # snoops'[bus_order[n]'[2]].line
        BY DEF OwnerGoesFirst
      <4>1. /\ n \in 1 .. Len(bus_order) /\ (n \in 1 .. Seen \/ n = Seen + 1)
            /\ m \in 1 .. Len(bus_order) /\ m \in 1 .. Seen
        BY <1>1, <2>2, <3>3
      <4>2. OwnsLine(bus_order[m]) /\ ~IsOwn(bus_order[n])
        BY <1>1, <2>6, <4>1 DEF IsOwn
      <4>3. CASE n \in 1 .. Seen
        BY <1>1, <4>1, <4>2, <4>3 DEF Order, OwnerGoesFirst
      <4>4. CASE n = Seen + 1
        <5>1. PICK s \in 1 .. snooped : r = Cpu(s) /\ r[2] = s
          BY <2>3, <4>2, <4>4, Kinds
        <5>2. s \in 1 .. Len(snoops)
          BY <1>2 DEF WorkloadTypes
        <5>3. ~IsOwn(r) /\ board = scoreboard /\ Request(r) = snoops[s]
          BY <2>3, <2>5, <4>2, <4>4, <5>1 DEF Request
        <5>4. Answers(Cpu(s), snoops[s], scoreboard)
          BY <2>9, <5>1, <5>3
        <5>5. dma[bus_order[m][2]].line # snoops[s].line
          BY <1>2, <4>1, <4>2, <5>2, <5>4, OwnerIsAsked
        <5> QED BY <1>1, <2>3, <4>4, <5>1, <5>5
      <4> QED BY <4>1, <4>3, <4>4
    <3> QED BY <3>4, <3>5, <3>6, <3>7 DEF Order
  <2> QED BY <2>8, <2>9
<1> QED BY <1>3, <1>4

-----------------------------------------------------------------------------
(* The steps together *)

\* The initial states.
LEMMA InitialInv ==
  ASSUME WorkloadsAreOrdinary, Init
  PROVE  Inv
<1>1. PICK w \in Workloads :
        BufferInit(w.prog) /\ DeviceInit(w.dma) /\ snoops = w.snoops /\ snooped = 0 /\ bus_order = <<>>
  BY DEF Init
<1>2. /\ prog \in Seq(Access) /\ dma \in Seq(Transfer) /\ snoops \in Seq(Snoop)
      /\ \A d, e \in DOMAIN dma :
           dma[d].kind = "READ_OWN" /\ dma[e].kind = "READ_CURRENT" => dma[d].line # dma[e].line
  BY <1>1 DEF WorkloadsAreOrdinary, BufferInit, DeviceInit
<1>3. \A S : <<>> \in Seq(S)
  OBVIOUS
<1>4. BufferTypes
  <2>1. ubufsize \in Nat /\ Len(prog) \in Nat
    BY <1>2, BufferAssumption
  <2>2. /\ issued = 0 /\ entries = <<>> /\ cur_reads = 0 /\ transaction_pending = FALSE
        /\ bus_waiter = <<>> /\ completed = {} /\ hung = FALSE
    BY <1>1 DEF BufferInit, NoAccesses
  <2>3. entries \in Seq(Entry) /\ bus_waiter \in Seq(Accesses)
    BY <1>3, <2>2
  <2>4. Len(entries) <= ubufsize /\ \A n \in DOMAIN entries : Occupied(entries[n].reqs) # {}
    BY <2>1, <2>2
  <2>5. issued \in 0 .. Len(prog) /\ cur_reads \in Int /\ completed \in SUBSET Accesses
    BY <2>1, <2>2
  <2>6. transaction_pending \in BOOLEAN /\ hung \in BOOLEAN
    BY <2>2
  <2> QED BY <1>2, <2>3, <2>4, <2>5, <2>6 DEF BufferTypes
<1>5. WorkloadTypes /\ DmaTypes
  BY <1>1, <1>2 DEF WorkloadTypes, DmaTypes, DeviceInit
<1>6. HostQueues /\ ControllerQueues /\ WaysOut
  BY <1>1, <1>3 DEF HostQueues, ControllerQueues, WaysOut, DeviceInit
<1>7. Order
  BY <1>1, <1>3 DEF Order, SnoopsInOrder, CachesAskOnce, BoardKeepsOwned, OwnerGoesFirst, Seen, DeviceInit
<1> QED BY <1>4, <1>5, <1>6, <1>7 DEF Inv, DeviceTypes

\* The device's own steps.
LEMMA DeviceStepInv ==
  ASSUME Inv, DeviceStep
  PROVE  Inv'
<1>1. BufferTypes /\ DeviceTypes /\ WorkloadTypes /\ Order /\ DmaTypes
  BY DEF Inv, DeviceTypes
<1>2. UNCHANGED <<bufferVars, snoops, snooped, bus_order>>
  BY DEF DeviceStep
<1>3. BufferTypes'
  BY <1>1, <1>2, BufferTypesStay
<1>4. DeviceTypes'
  BY <1>1, <1>2, HostIssueTypes, BusInterfaceTypes, HandleOutqueueTypes DEF DeviceStep
<1>5. UNCHANGED <<cohqueue, answered, scoreboard, dma>>
  BY DEF DeviceStep, HostIssue, HostInterrupt, BusInterface, HandleOutqueue, interfaceVars, controllerVars
<1>6. Keeps
  <2>1. scoreboard' \in Seq(DOMAIN dma)
    BY <1>1, <1>5 DEF Order, BoardKeepsOwned
  <2>2. CASE HostIssue \/ HostInterrupt
    <3>1. dma_issued' = dma_issued + 1 /\ dma_type' = [dma_type EXCEPT ![dma_issued + 1] = "REQUEST"]
      BY <2>2 DEF HostIssue, HostInterrupt
    <3>2. dma_issued \in Nat
      BY <1>1 DEF WorkloadTypes
    <3>3. dma_type \in [DOMAIN dma -> {"none", "REQUEST", "REPLY", "WRITEBACK", "done"}]
          /\ \A d \in 1 .. dma_issued : d \in DOMAIN dma /\ d # dma_issued + 1
      BY <1>1 DEF WorkloadTypes, DmaTypes
    <3> QED BY <1>2, <1>5, <2>1, <3>1, <3>2, <3>3 DEF Keeps
  <2>3. CASE BusInterface \/ HandleOutqueue
    <3>1. UNCHANGED <<dma_issued, dma_type>>
      BY <2>3 DEF BusInterface, HandleOutqueue, controllerVars
    <3> QED BY <1>1, <1>2, <1>5, <2>1, <3>1 DEF Keeps, WorkloadTypes
  <2> QED BY <2>2, <2>3 DEF DeviceStep
<1>7. Order'
  BY <1>1, <1>2, <1>5, <1>6, OrderStays
<1> QED BY <1>3, <1>4, <1>7 DEF Inv

\* The steps that leave the snoops and what is done about them alone.
LEMMA QuietOrder ==
  ASSUME DeviceTypes, Order,
         UNCHANGED <<dma, dma_issued, dma_type, scoreboard, snoops, snooped, bus_order, cohqueue, answered>>
  PROVE  Order'
<1>1. WorkloadTypes /\ dma_issued \in Nat
  BY DEF DeviceTypes, WorkloadTypes
<1>2. Keeps
  BY <1>1 DEF Keeps, Order, BoardKeepsOwned
<1> QED BY <1>1, <1>2, OrderStays

\* A request of the device, or its last transaction, has the bus.
LEMMA GrantOwnOrder ==
  ASSUME DeviceTypes, Order, GrantRequest \/ GrantWrite
  PROVE  Order'
<1> DEFINE d == arb_slot[2]
<1>1. /\ arb_slot # NoItem /\ IsOwn(arb_slot) /\ UNCHANGED <<dma, dma_issued, snoops, snooped, answered>>
      /\ dma_type' = dma_type \/ dma_type' = [dma_type EXCEPT ![d] = "done"]
  BY DEF GrantRequest, GrantWrite
<1>2. WorkloadTypes /\ dma_issued \in Nat /\ snooped \in Nat
  BY DEF DeviceTypes, WorkloadTypes
<1>3. d \in 1 .. dma_issued /\ arb_slot = Own(d) /\ d \in DOMAIN dma
  BY <1>1, Kinds DEF DeviceTypes, WaysOut, WorkloadTypes
<1>4. dma_type \in [DOMAIN dma -> {"none", "REQUEST", "REPLY", "WRITEBACK", "done"}]
      /\ \A e \in 1 .. dma_issued : e \in DOMAIN dma
  BY <1>2 DEF DeviceTypes, DmaTypes, WorkloadTypes
<1>5. scoreboard \in Seq(DOMAIN dma)
  BY DEF Order, BoardKeepsOwned
<1>6. CASE GrantRequest
  <2>1. scoreboard' = scoreboard
    BY <1>6 DEF GrantRequest
  <2> HIDE DEF d
  <2>2. Keeps
    BY <1>1, <1>2, <1>3, <1>4, <1>5, <2>1 DEF Keeps
  <2>3. bus_order' = Append(bus_order, arb_slot) /\ cohqueue' = Append(cohqueue, arb_slot)
    BY <1>6 DEF GrantRequest
  <2>4. PICK x \in Coherent' : x = arb_slot /\ IsOwn(x)
    <3>1. arb_slot \in Coherent'
      BY <1>1, <1>3 DEF Coherent
    <3> QED BY <1>1, <3>1
  <2> QED BY <1>1, <1>2, <2>2, <2>3, <2>4, OrderGrows
<1>7. CASE GrantWrite
  <2>1. /\ dma_type' = [dma_type EXCEPT ![d] = "done"] /\ UNCHANGED <<bus_order, cohqueue>>
        /\ scoreboard' = scoreboard \/ scoreboard' = ScoreboardRemove(d)
    BY <1>7 DEF GrantWrite
  <2> HIDE DEF d
  <2>2. \/ scoreboard' = scoreboard
        \/ /\ scoreboard' \in Seq(DOMAIN dma)
           /\ \A i \in DOMAIN scoreboard : scoreboard[i] # d =>
                \E j \in DOMAIN scoreboard' : scoreboard'[j] = scoreboard[i]
    BY <1>5, <2>1, RemoveKeepsOthers
  <2>3. dma_type'[d] = "done"
    BY <1>3, <1>4, <2>1
  <2>4. \A i \in DOMAIN scoreboard : dma_type'[scoreboard[i]] # "done" => scoreboard[i] # d
    BY <2>3
  <2>5. \A e \in 1 .. dma_issued : dma_type[e] = "done" => dma_type'[e] = "done"
    BY <1>3, <1>4, <2>1
  <2>6. Keeps
    BY <1>1, <1>2, <1>5, <2>2, <2>4, <2>5 DEF Keeps
  <2> QED BY <1>1, <1>2, <2>1, <2>6, OrderStays
<1> QED BY <1>6, <1>7

\* A cache's request is a new one.
LEMMA GrantSnoopOrder ==
  ASSUME DeviceTypes, Order, GrantSnoop
  PROVE  Order'
<1>1. /\ snooped' = snooped + 1 /\ bus_order' = Append(bus_order, Cpu(snooped + 1))
      /\ cohqueue' = Append(cohqueue, Cpu(snooped + 1))
      /\ UNCHANGED <<dma, dma_issued, dma_type, snoops, scoreboard, answered>>
  BY DEF GrantSnoop, controllerVars
<1>2. WorkloadTypes /\ dma_issued \in Nat /\ snooped \in Nat
  BY DEF DeviceTypes, WorkloadTypes
<1>3. Keeps
  BY <1>1, <1>2 DEF Keeps, Order, BoardKeepsOwned
<1>4. PICK x \in Coherent' : x = Cpu(snooped + 1)
  <2>1. Cpu(snooped + 1) \in Coherent'
    BY <1>1, <1>2 DEF Coherent, Cpu
  <2> QED BY <2>1
<1>5. \A n \in 1 .. Len(bus_order) : bus_order[n] # x
  <2>1. \A n \in 1 .. Len(bus_order) : bus_order[n] \in Coherent
    BY DEF Order, SnoopsInOrder
  <2>2. x \notin Coherent
    BY <1>2, <1>4 DEF Coherent, Cpu, Own
  <2> QED BY <2>1, <2>2
<1> QED BY <1>1, <1>2, <1>3, <1>4, <1>5, OrderGrows

\* Replies change the state of a transfer that is not done.
LEMMA MemoryAnswersOrder ==
  ASSUME DeviceTypes, Order, MemoryAnswers
  PROVE  Order'
<1>1. PICK r \in outstanding \cap answered :
        /\ IsOwn(r) => dma_type[r[2]] = "REQUEST"
        /\ dma_type' = IF IsOwn(r) THEN [dma_type EXCEPT ![r[2]] = "REPLY"] ELSE dma_type
  BY DEF MemoryAnswers
<1>2. UNCHANGED <<dma, dma_issued, scoreboard, snoops, snooped, bus_order, cohqueue, answered>>
  BY DEF MemoryAnswers, interfaceVars
<1>3. WorkloadTypes /\ dma_issued \in Nat /\ \A d \in 1 .. dma_issued : d \in DOMAIN dma
  BY DEF DeviceTypes, WorkloadTypes
<1>4. dma_type \in [DOMAIN dma -> {"none", "REQUEST", "REPLY", "WRITEBACK", "done"}]
  BY DEF DeviceTypes, DmaTypes
<1>5. \A d \in 1 .. dma_issued : dma_type[d] = "done" => dma_type'[d] = "done"
  BY <1>1, <1>3, <1>4
<1>6. scoreboard \in Seq(DOMAIN dma)
  BY DEF Order, BoardKeepsOwned
<1>7. Keeps
  BY <1>2, <1>3, <1>5, <1>6 DEF Keeps
<1> QED BY <1>2, <1>3, <1>7, OrderStays

LEMMA ReplyArrivesOrder ==
  ASSUME DeviceTypes, Order, ReplyArrives
  PROVE  Order'
<1>1. PICK d \in DOMAIN dma : GetReply(d)
  BY DEF ReplyArrives
<1>2. UNCHANGED <<dma, dma_issued, snoops, snooped, bus_order, cohqueue, answered>>
  BY <1>1 DEF ReplyArrives, GetReply
<1>3. WorkloadTypes /\ dma_issued \in Nat /\ \A e \in 1 .. dma_issued : e \in DOMAIN dma
  BY DEF DeviceTypes, WorkloadTypes
<1>4. dma_type \in [DOMAIN dma -> {"none", "REQUEST", "REPLY", "WRITEBACK", "done"}]
  BY DEF DeviceTypes, DmaTypes
<1>5. scoreboard \in Seq(DOMAIN dma)
  BY DEF Order, BoardKeepsOwned
<1>6. \A e \in 1 .. dma_issued : dma_type[e] = "done" => dma_type'[e] = "done"
  <2>1. dma_type[d] = "REPLY" /\ (\/ dma_type' = [dma_type EXCEPT ![d] = "WRITEBACK"]
                                 \/ dma_type' = [dma_type EXCEPT ![d] = "done"])
    BY <1>1 DEF GetReply
  <2> QED BY <1>3, <1>4, <2>1
<1>7. Keeps
  <2>1. CASE dma[d].kind = "READ_OWN"
    <3>1. scoreboard' = scoreboard
      BY <1>1, <2>1 DEF GetReply
    <3> QED BY <1>2, <1>3, <1>5, <1>6, <3>1 DEF Keeps
  <2>2. CASE dma[d].kind # "READ_OWN"
    <3>1. scoreboard' = ScoreboardRemove(d)
      BY <1>1, <2>2 DEF GetReply
    <3>2. /\ scoreboard' \in Seq(DOMAIN dma)
          /\ \A i \in DOMAIN scoreboard : scoreboard[i] # d =>
               \E j \in DOMAIN scoreboard' : scoreboard'[j] = scoreboard[i]
      BY <1>5, <3>1, RemoveKeepsOthers
    <3>3. \A i \in DOMAIN scoreboard : dma[scoreboard[i]].kind = "READ_OWN" => scoreboard[i] # d
      BY <2>2
    <3> QED BY <1>2, <1>3, <1>6, <3>2, <3>3 DEF Keeps
  <2> QED BY <2>1, <2>2
<1> QED BY <1>2, <1>3, <1>7, OrderStays

\* Every step.
LEMMA StepInv ==
  ASSUME Inv, [Next]_vars
  PROVE  Inv'
<1>1. BufferTypes /\ DeviceTypes /\ Order
  BY DEF Inv
<1>2. CASE ProcessorStep
  <2>1. BufferStep /\ UNCHANGED <<deviceVars, snoops, snooped, outstanding, bus_order>>
    BY <1>2 DEF ProcessorStep
  <2>2. BufferTypes'
    BY <1>1, <2>1, AddBarrierTypes, AddRequestTypes, SendTransactionTypes DEF BufferStep
  <2>3. UNCHANGED prog
    BY <2>1 DEF BufferStep, AddBarrier, AddRequest, SendTransaction
  <2>4. Items' = Items /\ Seq(Accesses)' = Seq(Accesses)
    BY <2>1, <2>3, ItemsSame DEF deviceVars, controllerVars
  <2>5. WorkloadTypes' /\ DmaTypes' /\ HostQueues' /\ ControllerQueues' /\ WaysOut'
    BY <1>1, <2>1, <2>4 DEF DeviceTypes, WorkloadTypes, DmaTypes, HostQueues, ControllerQueues,
                            WaysOut, NoItem, deviceVars, interfaceVars, controllerVars
  <2>6. Order'
    BY <1>1, <2>1, QuietOrder DEF deviceVars, interfaceVars, controllerVars
  <2> QED BY <2>2, <2>5, <2>6 DEF Inv, DeviceTypes
<1>3. CASE DeviceStep
  BY <1>3, DeviceStepInv
<1>4. CASE DeviceInput
  BY <1>1, <1>4, DeviceInputTypes, DeviceInputOrder DEF Inv
<1>5. CASE GrantUncached
  <2>1. Order'
    BY <1>1, <1>5, QuietOrder DEF GrantUncached, controllerVars
  <2> QED BY <1>1, <1>5, <2>1, GrantUncachedTypes DEF Inv
<1>6. CASE GrantReply
  <2>1. Order'
    BY <1>1, <1>6, QuietOrder DEF GrantReply, controllerVars
  <2> QED BY <1>1, <1>6, <2>1, GrantReplyTypes DEF Inv
<1>7. CASE GrantRequest \/ GrantWrite
  BY <1>1, <1>7, GrantOwnTypes, GrantOwnOrder DEF Inv
<1>8. CASE GrantSnoop
  BY <1>1, <1>8, GrantSnoopTypes, GrantSnoopOrder DEF Inv
<1>9. CASE MemoryAnswers
  BY <1>1, <1>9, MemoryAnswersTypes, MemoryAnswersOrder DEF Inv
<1>10. CASE ReplyArrives
  BY <1>1, <1>10, ReplyArrivesTypes, ReplyArrivesOrder DEF Inv
<1>11. CASE UNCHANGED vars
  <2>1. BufferTypes'
    BY <1>1, <1>11, BufferTypesStay DEF vars
  <2>2. Items' = Items /\ Seq(Accesses)' = Seq(Accesses)
    BY <1>11, ItemsSame DEF vars, bufferVars, deviceVars, controllerVars
  <2>3. WorkloadTypes' /\ DmaTypes' /\ HostQueues' /\ ControllerQueues' /\ WaysOut'
    BY <1>1, <1>11, <2>2 DEF DeviceTypes, WorkloadTypes, DmaTypes, HostQueues, ControllerQueues,
                             WaysOut, NoItem, vars, deviceVars, interfaceVars, controllerVars
  <2>4. Order'
    BY <1>1, <1>11, QuietOrder DEF vars, deviceVars, interfaceVars, controllerVars
  <2> QED BY <2>1, <2>3, <2>4 DEF Inv, DeviceTypes
<1> QED BY <1>2, <1>3, <1>4, <1>5, <1>6, <1>7, <1>8, <1>9, <1>10, <1>11 DEF Next, Done

\* The inductive invariant.
LEMMA InvHolds == WorkloadsAreOrdinary => (Spec => []Inv)
<1> SUFFICES ASSUME WorkloadsAreOrdinary PROVE Spec => []Inv
  OBVIOUS
<1>1. Init => Inv
  BY InitialInv
<1>2. Inv /\ [Next]_vars => Inv'
  BY StepInv
<1> QED BY <1>1, <1>2, PTL DEF Spec

\* The buffer's part of TypeOK: no access is lost from its entries' bounds, no
\* entry is empty (UBuffer_out_sim takes the smallest occupied slot of the
\* oldest entry), for every size of the buffer and every program.
THEOREM BufferStaysInBounds == WorkloadsAreOrdinary => (Spec => []BufferTypeOK)
<1> SUFFICES ASSUME WorkloadsAreOrdinary PROVE Spec => []BufferTypeOK
  OBVIOUS
<1>1. Inv => BufferTypeOK
  <2> SUFFICES ASSUME Inv PROVE BufferTypeOK
    OBVIOUS
  <2>1. BufferTypes
    BY DEF Inv
  <2>2. \A n \in DOMAIN entries : entries[n] \in Entry
    BY <2>1 DEF BufferTypes
  <2> QED BY <2>1, <2>2 DEF BufferTypes, BufferTypeOK, Entry, Accesses
<1> QED BY <1>1, InvHolds, PTL

\* Between the READ_OWN of a line and its write-back no cache's request for the
\* line is answered, for every number of transfers and of requests and whatever
\* the sizes of the queues (IO_handle_inqueue's scoreboard).
THEOREM SnoopsWait == WorkloadsAreOrdinary => (Spec => []SnoopsWaitForTheOwner)
<1> SUFFICES ASSUME WorkloadsAreOrdinary PROVE Spec => []SnoopsWaitForTheOwner
  OBVIOUS
<1>1. Inv => SnoopsWaitForTheOwner
  <2> SUFFICES ASSUME Inv, NEW n \in DOMAIN bus_order, ~IsOwn(bus_order[n]), bus_order[n] \in answered,
                      NEW m \in 1 .. (n - 1), IsOwn(bus_order[m]),
                      Request(bus_order[m]).kind = "READ_OWN",
                      Request(bus_order[m]).line = Request(bus_order[n]).line
               PROVE  dma_type[bus_order[m][2]] = "done"
    BY DEF SnoopsWaitForTheOwner
  <2>1. /\ DOMAIN bus_order = 1 .. Len(bus_order) /\ Len(bus_order) \in Nat
        /\ Seen \in 0 .. Len(bus_order) /\ answered = {bus_order[k] : k \in 1 .. Seen}
    BY DEF Inv, Order, SnoopsInOrder, Seen
  <2>2. PICK k \in 1 .. Seen : bus_order[k] = bus_order[n]
    BY <2>1
  <2>3. k = n /\ m \in 1 .. Len(bus_order) /\ m < n
    BY <2>1, <2>2 DEF Inv, Order, CachesAskOnce
  <2>4. dma[bus_order[m][2]].line = snoops[bus_order[n][2]].line
        /\ dma[bus_order[m][2]].kind = "READ_OWN"
    BY DEF Request
  <2> QED BY <2>2, <2>3, <2>4 DEF Inv, Order, OwnerGoesFirst, OwnsLine
<1> QED BY <1>1, InvHolds, PTL
=============================================================================
