----------------------------- MODULE MemoryUnit -----------------------------
(***************************************************************************)
(* The memory unit of a processor under release consistency                *)
(* (src/src/Processor/memunit.cc, memunit.hh, memprocess.cc and            *)
(* active.cc, built without STORE_ORDERING; spec_stores = SPEC_EXCEPT and  *)
(* Speculative_Loads = 0, proc_config.h:61-63).                            *)
(*                                                                         *)
(* Loads may pass older stores whose addresses are not known yet: such a   *)
(* load is "in limbo", and a store that turns out to overlap it flags a    *)
(* soft exception that replays the load.  Stores leave for the cache after *)
(* they graduate, and memory barriers order both.                          *)
(*                                                                         *)
(* An instruction is named by its place in the program.  The code counts   *)
(* tags on after a flush and skips the references to flushed instances;    *)
(* here a flush removes them, and the tags of a program never change       *)
(* their order.  Addresses are intervals of bytes, and the value of a byte *)
(* is the store that wrote it.  Uncached accesses (UncachedIO.tla),        *)
(* prefetches, SYNC barriers and the TLB are left out.                     *)
(***************************************************************************)
EXTENDS Integers, FiniteSets, SequencesExt

CONSTANTS
    Programs,           \* sequences of instructions
    Bytes,              \* byte addresses
    MAX_STORE_BUF,      \* stores ready but not issued
    GRADUATE_RATE,      \* instructions looked at by mark_memops_ready
    L1Ports             \* requests the L1 cache takes in a cycle, at most

ASSUME MemoryUnitAssumption ==
    /\ MAX_STORE_BUF \in Nat \ {0} /\ GRADUATE_RATE \in Nat \ {0}
    /\ L1Ports \in Nat \ {0}
    /\ \A p \in Programs :
          p \in Seq([k : {"ld", "st", "rmw", "mb", "br", "trap"}, bytes : SUBSET Bytes,
                    order : SUBSET {"SS", "LS", "SL", "LL", "MEMISSUE"}])

VARIABLES
    prog,                   \* the program of this behaviour
    head, next,             \* the active list holds head .. next - 1
    op,                     \* the instance of each instruction
    LoadQueue, StoreQueue,  \* instructions in the memory unit
    ambig_st_tags,          \* stores whose address waits for an operand
    membar_tags,            \* barriers not yet retired
    ReadyUnissuedStores,
    in_exception,           \* 0, or a trap that waits for the stores
    mispredicted,           \* bound: a branch is mispredicted once
    dcache,                 \* external: requests the L1 cache has not performed
    memory                  \* external: the last writer of each byte

queues == <<LoadQueue, StoreQueue, ambig_st_tags, membar_tags>>
vars == <<prog, head, next, op, queues, ReadyUnissuedStores, in_exception,
          mispredicted, dcache, memory>>

Tags == DOMAIN prog
None == 0
NoMembar == Len(prog) + 1
InCache == -1           \* memprogress: 0 before the issue, 1 when complete,
Mark(st) == -st - 3     \* and Mark(st) when the value is forwarded from st
NewInstance ==
    [addr_ready |-> FALSE, truedep |-> TRUE, mem_ready |-> FALSE,
     memprogress |-> 0, vsbfwd |-> 0, limbo |-> 0, exception_code |-> "OK",
     done |-> FALSE, flag |-> "OK", val |-> [b \in {} |-> None], seen |-> {}]

IsRMW(i) == prog[i].k = "rmw"
IsStore(i) == prog[i].k \in {"st", "rmw"}
IsLoad(i) == prog[i].k = "ld"
Reads(i) == prog[i].k \in {"ld", "rmw"}
Membar(i) == prog[i].k = "mb"
Overlap(i, j) == prog[i].bytes \cap prog[j].bytes # {}
\* A read-modify-write of one byte is LDSTUB, whose value is known; a load waits for SWAP
\* and CAS, which are wider.
MemMatch(ld, st) ==
    prog[ld].bytes = prog[st].bytes /\ (IsRMW(st) => Cardinality(prog[st].bytes) = 1)
Older(Q, i) == {j \in Q : j < i}
\* Take a step for each instruction of Q, the oldest first.
InOrder(Step(_, _), start, Q) ==
    LET after[i \in 0 .. Len(prog)] ==
            IF i \in Q THEN CHOOSE t \in {Step(s, i) : s \in {after[i - 1]}} : TRUE
            ELSE IF i = 0 THEN start ELSE after[i - 1] IN
    after[Len(prog)]
MinOf(Q) == IF Q = {} THEN NoMembar ELSE Min(Q)
MaxOf(Q) == IF Q = {} THEN None ELSE Max(Q)
InMemunit(i) == i \in LoadQueue \/ (i \in StoreQueue /\ (IsRMW(i) \/ ~op[i].mem_ready))

-----------------------------------------------------------------------------
(* Barriers *)

\* SStag, LStag, SLtag, LLtag, MEMISSUEtag: the oldest barrier of a kind
MembarTag(mbs, kind) == MinOf({m \in mbs : kind \in prog[m].order})

minload == MinOf(LoadQueue \cup {i \in StoreQueue : IsRMW(i)})
minstore == MinOf(StoreQueue)

\* instruction i follows the first barrier of a kind, which follows min
BehindMembar(mbs, kind, i, min) ==
    LET m == MembarTag(mbs, kind) IN i > m /\ min < m

MembarRetires(m) ==
    /\ prog[m].order \cap {"LL", "LS", "MEMISSUE"} # {} => minload > m
    /\ prog[m].order \cap {"SL", "SS", "MEMISSUE"} # {} => minstore > m

-----------------------------------------------------------------------------
(* The answers of the cache *)

\* CompleteMemOp() of a load, for the instances o: the instance it becomes.  A
\* load issued before an older store that overlaps it is issued again; a store
\* whose address is unknown leaves the load in limbo.
CompleteLoad(o, i) ==
    LET x == o[i]
        seen == {j \in Older(StoreQueue, i) : ~(x.memprogress <= Mark(j))}
        redo == MinOf({j \in seen : o[j].addr_ready /\ Overlap(i, j) /\ j \notin x.seen})
        limbo == x.limbo + Cardinality({j \in seen : ~o[j].addr_ready /\ j < redo}) IN
    CASE x.exception_code = "SOFT_LIMBO" ->
            [x EXCEPT !.memprogress = 0, !.vsbfwd = 0, !.exception_code = "OK"]
      [] x.exception_code = "OK" /\ redo # NoMembar ->
            [x EXCEPT !.memprogress = 0, !.vsbfwd = 0, !.limbo = limbo - 1]
      [] x.exception_code = "OK" /\ redo = NoMembar /\ limbo # 0 -> [x EXCEPT !.limbo = limbo]
      [] OTHER -> [x EXCEPT !.limbo = 0, !.memprogress = 1, !.done = TRUE, !.flag = "OK"]

\* PerformMemOp() takes a load that is complete off the load queue.
StillQueued(o) == {i \in LoadQueue : ~o[i].done}

Perform(k) ==
    LET i == dcache[k]
        x == op[i]
        Load == [b \in prog[i].bytes |-> memory[b]]
        read == IF x.vsbfwd # 0 THEN [x EXCEPT !.memprogress = x.vsbfwd, !.vsbfwd = 0]
                ELSE [x EXCEPT !.val = Load]
        new == CASE IsLoad(i) -> CompleteLoad([op EXCEPT ![i] = read], i)
                 [] IsRMW(i) -> [x EXCEPT !.val = Load, !.memprogress = 1, !.done = TRUE]
                 [] OTHER -> [x EXCEPT !.memprogress = 1] IN
    /\ \A e \in 1 .. k - 1 : ~Overlap(dcache[e], i)
    /\ dcache' = RemoveAt(dcache, k)
    /\ op' = [op EXCEPT ![i] = new]
    /\ LoadQueue' = StillQueued(op')
    /\ StoreQueue' = StoreQueue \ {i}
    /\ memory' = IF IsStore(i) THEN [b \in Bytes |-> IF b \in prog[i].bytes THEN i ELSE memory[b]]
                 ELSE memory
    /\ UNCHANGED <<prog, head, next, ambig_st_tags, membar_tags, ReadyUnissuedStores,
                   in_exception, mispredicted>>

-----------------------------------------------------------------------------
(* IssueMem: the memory unit's part of a cycle *)

\* An order that a store, or a load, must wait for
StoreBlocked(mbs, i) ==
    \/ BehindMembar(mbs, "SS", i, minstore)
    \/ BehindMembar(mbs, "LS", i, minload)
    \/ IsRMW(i) /\ BehindMembar(mbs, "SL", i, minstore)
    \/ BehindMembar(mbs, "LL", i, minload)
LoadBlocked(mbs, i) ==
    BehindMembar(mbs, "SL", i, minstore) \/ BehindMembar(mbs, "LL", i, minload)
ForwardPastStoreLoad(mbs, i, st) == BehindMembar(mbs, "LL", i, minload)
ForwardBlocked(mbs, i, st) ==
    BehindMembar(mbs, "SL", i, st) \/ BehindMembar(mbs, "LL", i, minload)

\* s: [op, room, sent, count, fwds, full], before the queue's next entry
SendToCache(s, i) ==
    [s EXCEPT !.room = @ - 1, !.sent = Append(@, i),
              !.op[i] = [@ EXCEPT !.memprogress = InCache,
                                  !.seen = {j \in StoreQueue : s.op[j].memprogress # 0}]]

MustFollow(s, i) == \E j \in Older(StoreQueue, i) : Overlap(i, j) /\ s.op[j].memprogress = 0

CountIssuedPlain(i, n) == IF IsRMW(i) THEN n ELSE n - 1
CountIssued(i, n) == n - 1

IssueStore(mbs, s, i) ==
    IF /\ s.op[i].mem_ready /\ s.op[i].memprogress = 0 /\ i <= MembarTag(mbs, "MEMISSUE")
       /\ ~MustFollow(s, i) /\ ~StoreBlocked(mbs, i) /\ s.room > 0
    THEN [SendToCache(s, i) EXCEPT !.count = CountIssued(i, @)] ELSE s

\* What the store st makes of the load i: r is [mp, vsb, can, val]
MeetStore(mbs, o, i, r, st) ==
    LET stopped == [r EXCEPT !.mp = 0, !.vsb = 0, !.can = FALSE]
        value == [b \in prog[i].bytes |-> st] IN
    CASE ~o[st].addr_ready \/ ~Overlap(i, st) -> r
      [] o[st].addr_ready /\ Overlap(i, st) /\ MemMatch(i, st) /\ ~o[st].truedep
           /\ ~ForwardBlocked(mbs, i, st) ->
            IF o[st].memprogress # 0
            THEN [mp |-> 0, vsb |-> Mark(st), can |-> TRUE, val |-> value]
            ELSE [mp |-> Mark(st), vsb |-> 0, can |-> TRUE, val |-> value]
      [] OTHER -> IF o[st].memprogress = 0 \/ IsRMW(st) \/ ~LoadBlocked(mbs, i)
                  THEN stopped ELSE r

\* What the older stores make of the load i
Scan(mbs, s, i) ==
    InOrder(LAMBDA r, st : MeetStore(mbs, s.op, i, r, st),
            [mp |-> 0, vsb |-> 0, can |-> TRUE, val |-> s.op[i].val], Older(StoreQueue, i))

IssueLoad(mbs, s, i) ==
    LET x == s.op[i]
        waits == x.memprogress # 0 \/ ~x.addr_ready \/ i > MembarTag(mbs, "MEMISSUE")
        scan == Scan(mbs, s, i)
        found == [s EXCEPT !.op[i] = [@ EXCEPT !.val = scan.val, !.vsbfwd = scan.vsb]] IN
    IF s.full \/ waits \/ ~scan.can THEN s
    ELSE IF scan.mp # 0
         THEN [found EXCEPT !.fwds = @ \cup {i},
                            !.op[i] = [@ EXCEPT !.memprogress = scan.mp,
                                                !.seen = {j \in StoreQueue : s.op[j].memprogress # 0}]]
    ELSE IF LoadBlocked(mbs, i) THEN s
    ELSE IF s.room = 0 THEN [s EXCEPT !.full = TRUE]
    ELSE SendToCache(found, i)

IssueStores(mbs, start) == InOrder(LAMBDA s, i : IssueStore(mbs, s, i), start, StoreQueue)
IssueLoads(mbs, start) == InOrder(LAMBDA s, i : IssueLoad(mbs, s, i), start, LoadQueue)

\* The barriers that retire take a slot of the L1 queue each, and when it is
\* full nothing issues.  At the start of the next cycle CompleteMemQueue()
\* completes the forwards.
IssueMem(room) ==
    LET retiring == {m \in membar_tags : \A d \in membar_tags : d <= m => MembarRetires(d)}
        gone == {m \in retiring : Cardinality(Older(retiring, m)) < room}
        start == [op |-> op, room |-> room - Cardinality(gone), sent |-> <<>>,
                  count |-> ReadyUnissuedStores, fwds |-> {}, full |-> FALSE]
        Issued(mbs) == IssueLoads(mbs, IssueStores(mbs, start)) IN
    /\ LoadQueue \cup StoreQueue # {}
    /\ membar_tags' = membar_tags \ gone
    /\ \E all \in {IF gone # retiring THEN start ELSE Issued(membar_tags \ gone)} :
          /\ dcache' = dcache \o all.sent
          /\ ReadyUnissuedStores' = all.count
          /\ op' = [i \in Tags |-> IF i \in all.fwds THEN CompleteLoad(all.op, i) ELSE all.op[i]]
    /\ LoadQueue' = StillQueued(op')
    /\ UNCHANGED <<prog, head, next, StoreQueue, ambig_st_tags, in_exception, mispredicted, memory>>

-----------------------------------------------------------------------------
(* Instructions enter; their addresses and operands become known *)

\* AddToMemorySystem(), ComputeMembarInfo(): a store's address may wait.
Decode ==
    /\ next \in Tags /\ in_exception = None
    /\ next' = next + 1
    /\ op' = [op EXCEPT ![next] = [NewInstance EXCEPT !.done = Membar(next) \/ prog[next].k = "trap",
                                      !.flag = IF prog[next].k = "trap" THEN "SERIALIZE" ELSE "OK"]]
    /\ LoadQueue' = IF IsLoad(next) THEN LoadQueue \cup {next} ELSE LoadQueue
    /\ StoreQueue' = IF IsStore(next) THEN StoreQueue \cup {next} ELSE StoreQueue
    /\ membar_tags' = IF Membar(next) THEN membar_tags \cup {next} ELSE membar_tags
    /\ \E addrdep \in BOOLEAN :
          ambig_st_tags' = IF IsStore(next) /\ addrdep THEN ambig_st_tags \cup {next} ELSE ambig_st_tags
    /\ UNCHANGED <<prog, head, ReadyUnissuedStores, in_exception, mispredicted, dcache, memory>>

SoftLimbo(x) ==
    IF x.exception_code = "OK" THEN [x EXCEPT !.exception_code = "SOFT_LIMBO", !.flag = "SOFT_LIMBO"] ELSE x
DoneWith(x) == [x EXCEPT !.done = TRUE, !.flag = x.exception_code]

DisambiguatedLimboOnly(i, st, lowambig) ==
    LET x == op[i] IN
    CASE x.limbo # 0 /\ Overlap(i, st) -> DoneWith(SoftLimbo([x EXCEPT !.limbo = @ - 1]))
      [] x.limbo = 1 /\ ~Overlap(i, st) -> DoneWith([x EXCEPT !.limbo = 0, !.memprogress = 1])
      [] x.limbo > 1 /\ ~Overlap(i, st) -> [x EXCEPT !.limbo = @ - 1]
      [] OTHER -> x

\* The store st has its address now; what that makes of the younger load i
Disambiguated(i, st, lowambig) ==
    LET x == op[i]
        less == [x EXCEPT !.limbo = @ - 1,
                          !.memprogress = IF lowambig > i \/ x.limbo = 1 THEN 1 ELSE @] IN
    CASE x.limbo # 0 /\ Overlap(i, st) -> DoneWith(SoftLimbo([x EXCEPT !.limbo = @ - 1]))
      [] x.limbo # 0 /\ ~Overlap(i, st) -> IF less.limbo = 0 THEN DoneWith(less) ELSE less
      [] OTHER -> IF x.memprogress < 0 /\ Overlap(i, st) THEN SoftLimbo(x) ELSE x

Disambiguate(i) ==
    /\ i \in LoadQueue \cup StoreQueue /\ ~op[i].addr_ready
    /\ ambig_st_tags' = ambig_st_tags \ {i}
    /\ LET lowambig == MinOf(ambig_st_tags')
           younger == {j \in LoadQueue : j > i /\ IsStore(i)} IN
       op' = [j \in Tags |-> IF j = i THEN [op[i] EXCEPT !.addr_ready = TRUE]
                             ELSE IF j \in younger THEN Disambiguated(j, i, lowambig) ELSE op[j]]
    /\ LoadQueue' = StillQueued(op')
    /\ UNCHANGED <<prog, head, next, StoreQueue, membar_tags, ReadyUnissuedStores, in_exception,
                   mispredicted, dcache, memory>>

OperandReady(i) ==
    /\ i \in StoreQueue /\ op[i].truedep
    /\ op' = [op EXCEPT ![i].truedep = FALSE]
    /\ UNCHANGED <<prog, head, next, queues, ReadyUnissuedStores, in_exception, mispredicted,
                   dcache, memory>>

-----------------------------------------------------------------------------
(* The active list *)

MarkMemopReadyEarly(s, i) ==
    IF /\ IsStore(i) /\ op[i].addr_ready /\ ~op[i].truedep /\ ~op[i].mem_ready
       /\ s.count < MAX_STORE_BUF
    THEN [op |-> [s.op EXCEPT ![i].mem_ready = TRUE, ![i].done = ~IsRMW(i)], count |-> s.count + 1]
    ELSE s

\* The oldest instructions, up to the first that is not done or has an exception.
\* A plain store is done with a copy of it in the store queue.
MarkMemopReady(s, i) ==
    IF /\ IsStore(i) /\ op[i].addr_ready /\ ~op[i].truedep /\ ~op[i].mem_ready
       /\ s.count < MAX_STORE_BUF
       /\ \A j \in head .. i - 1 : s.op[j].done /\ op[j].flag = "OK"
    THEN [op |-> [s.op EXCEPT ![i].mem_ready = TRUE, ![i].done = ~IsRMW(i)], count |-> s.count + 1]
    ELSE s

MarkedInOrder ==
    InOrder(MarkMemopReady, [op |-> op, count |-> ReadyUnissuedStores],
            {i \in head .. next - 1 : i < head + GRADUATE_RATE})

MarkMemopsReady ==
    /\ in_exception = None
    /\ \E s \in {MarkedInOrder} : op' = s.op /\ ReadyUnissuedStores' = s.count
    /\ UNCHANGED <<prog, head, next, queues, in_exception, mispredicted, dcache, memory>>

MayGraduate ==
    head < next /\ op[head].done /\ op[head].flag = "OK" /\ ~InMemunit(head)

Graduate ==
    /\ in_exception = None /\ MayGraduate
    /\ head' = head + 1
    /\ UNCHANGED <<prog, next, op, queues, ReadyUnissuedStores, in_exception, mispredicted,
                   dcache, memory>>

\* The requests of d for instructions older than i, in their order
RequestsBefore(d, i) ==
    LET kept[k \in 0 .. Len(d)] ==
            IF k = 0 THEN <<>> ELSE IF d[k] < i THEN Append(kept[k - 1], d[k]) ELSE kept[k - 1] IN
    kept[Len(d)]

\* FlushMems(), and the rest of the active list, from instruction i on
Flush(o, i) ==
    LET Kept(Q) == Older(Q, i) IN
    /\ next' = i
    /\ op' = [j \in Tags |-> IF j < i THEN o[j] ELSE NewInstance]
    /\ LoadQueue' = Kept(LoadQueue) /\ StoreQueue' = Kept(StoreQueue)
    /\ ambig_st_tags' = Kept(ambig_st_tags) /\ membar_tags' = Kept(membar_tags)
    /\ dcache' = RequestsBefore(dcache, i)
    /\ UNCHANGED <<prog, ReadyUnissuedStores, memory>>

\* remove_from_active_list(), PreExceptionHandler(), ExceptionHandler()
SoftException ==
    /\ in_exception = None /\ head < next /\ op[head].flag = "SOFT_LIMBO"
    /\ ~(InMemunit(head) /\ op[head].exception_code = "OK")
    /\ Flush(op, head)
    /\ UNCHANGED <<head, in_exception, mispredicted>>

PreException ==
    /\ in_exception = None /\ head < next /\ op[head].flag = "SERIALIZE"
    /\ in_exception' = head
    /\ UNCHANGED <<prog, head, next, op, queues, ReadyUnissuedStores, mispredicted, dcache, memory>>

\* A serialized instruction is carried out by the handler.
ExceptionHandler ==
    /\ in_exception # None /\ ReadyUnissuedStores = 0
    /\ Flush(op, in_exception + 1)
    /\ head' = in_exception + 1 /\ in_exception' = None
    /\ UNCHANGED mispredicted

\* The path fetched after a wrong prediction is taken to be like the right one.
ResolveBranch(i) ==
    /\ in_exception = None /\ i \in head .. next - 1 /\ prog[i].k = "br" /\ ~op[i].done
    /\ op' = [op EXCEPT ![i].done = TRUE]
    /\ UNCHANGED <<prog, head, next, queues, ReadyUnissuedStores, in_exception, mispredicted,
                   dcache, memory>>

Mispredict(i) ==
    /\ in_exception = None /\ i \in head .. next - 1 /\ prog[i].k = "br" /\ ~op[i].done
    /\ ~mispredicted /\ mispredicted' = TRUE
    /\ Flush([op EXCEPT ![i].done = TRUE], i + 1)
    /\ UNCHANGED <<head, in_exception>>

-----------------------------------------------------------------------------
Finished == head > Len(prog) /\ StoreQueue = {}

Init ==
    /\ prog \in Programs
    /\ head = 1 /\ next = 1
    /\ op = [i \in Tags |-> NewInstance]
    /\ LoadQueue = {} /\ StoreQueue = {} /\ ambig_st_tags = {} /\ membar_tags = {}
    /\ ReadyUnissuedStores = 0 /\ in_exception = None /\ mispredicted = FALSE
    /\ dcache = <<>> /\ memory = [b \in Bytes |-> None]

Next ==
    \/ Decode \/ MarkMemopsReady \/ Graduate
    \/ SoftException \/ PreException \/ ExceptionHandler
    \/ \E room \in 0 .. L1Ports : IssueMem(room)
    \/ \E k \in DOMAIN dcache : Perform(k)
    \/ \E i \in Tags : Disambiguate(i) \/ OperandReady(i) \/ ResolveBranch(i) \/ Mispredict(i)
    \/ Finished /\ UNCHANGED vars

\* Every cycle runs the memory unit and graduates; the L1 cache makes room and
\* answers; addresses, operands and branches do not wait for this unit.
Spec ==
    /\ Init /\ [][Next]_vars
    /\ WF_vars(Decode) /\ WF_vars(MarkMemopsReady) /\ WF_vars(Graduate)
    /\ WF_vars(SoftException) /\ WF_vars(PreException) /\ WF_vars(ExceptionHandler)
    /\ WF_vars(IssueMem(L1Ports))
    /\ WF_vars(\E k \in DOMAIN dcache : Perform(k))
    /\ WF_vars(\E i \in Tags : Disambiguate(i))
    /\ WF_vars(\E i \in Tags : OperandReady(i))
    /\ WF_vars(\E i \in Tags : ResolveBranch(i))

-----------------------------------------------------------------------------
(* Properties *)

TypeOK ==
    /\ prog \in Programs /\ head \in 1 .. next /\ next \in 1 .. Len(prog) + 1
    /\ LoadQueue \subseteq {i \in head .. next - 1 : IsLoad(i)}
    /\ StoreQueue \subseteq {i \in 1 .. next - 1 : IsStore(i)}
    /\ ambig_st_tags \subseteq StoreQueue
    /\ membar_tags \subseteq {i \in 1 .. next - 1 : Membar(i)}
    /\ ReadyUnissuedStores \in 0 .. MAX_STORE_BUF
    /\ in_exception \in {None} \cup Tags
    /\ \A k \in DOMAIN dcache : dcache[k] \in LoadQueue \cup StoreQueue
    /\ memory \in [Bytes -> {None} \cup Tags]

LastWriter(b, S) == MaxOf({i \in S : IsStore(i) /\ b \in prog[i].bytes})

\* A load or read-modify-write that leaves the active list has read, for each
\* byte, the youngest older store of the program: whatever was forwarded to it,
\* and whichever stores it passed before their addresses were known.
LoadsReadTheLastStore ==
    MayGraduate /\ Reads(head) =>
        \A b \in prog[head].bytes : op[head].val[b] = LastWriter(b, 1 .. head - 1)

\* The stores that left the store queue reached each byte in program order,
\* although they issue past each other, and none is issued while anything older
\* could still take it back.
StoresReachMemoryInOrder ==
    /\ \A i \in StoreQueue : op[i].memprogress # 0 => \A j \in 1 .. i - 1 : op[j].done
    /\ \A b \in Bytes : memory[b] = LastWriter(b, {i \in 1 .. next - 1 : op[i].memprogress = 1})

\* Nothing is issued, nor a value forwarded, before what a barrier orders ahead
\* of it is performed.
Orders(kind, a, b) ==
    \/ kind = "LL" /\ Reads(a) /\ Reads(b)
    \/ kind = "LS" /\ Reads(a) /\ IsStore(b)
    \/ kind = "SL" /\ IsStore(a) /\ Reads(b)
    \/ kind = "SS" /\ IsStore(a) /\ IsStore(b)
    \/ kind = "MEMISSUE"
Ordered(m, a, b) == Membar(m) /\ \E kind \in prog[m].order : Orders(kind, a, b)
MembarsOrder ==
    \A a \in LoadQueue \cup StoreQueue : \A b \in a + 1 .. next - 1 : \A m \in a .. b :
        Ordered(m, a, b) => op[b].memprogress = 0

\* Of each kind the unit looks at the oldest barrier alone, and of that only when a
\* value is forwarded from a store ahead of it.  A step lets b pass a across a barrier
\* only where one of the same kind is queued ahead of a, or where b may take its value
\* from a store behind the oldest one.
PassesMembars(a, b, kind) ==
    \/ \E d \in membar_tags' : d < a /\ kind \in prog[d].order
    \/ /\ kind = "SL" /\ IsLoad(b)
       /\ \E st \in Older(StoreQueue, b) :
             MemMatch(b, st) /\ \E d \in membar_tags' : d < st /\ kind \in prog[d].order
ObeysMembars ==
    \A a \in LoadQueue \cup StoreQueue : \A b \in a + 1 .. next - 1 : \A m \in a .. b :
        Membar(m) /\ op[b].memprogress = 0 /\ op'[b].memprogress # 0 =>
            \A kind \in prog[m].order : Orders(kind, a, b) => PassesMembars(a, b, kind)
IssuesObeyMembars == [][ObeysMembars]_vars

\* The programs in which neither can happen: no access between two barriers of a kind,
\* and no store behind a store-load barrier with the bytes of a load behind it.
Apart(p) ==
    \A d, i, m \in DOMAIN p : d < i /\ i < m /\ p[d].k = "mb" =>
        /\ p[m].k = "mb" /\ p[i].k \in {"ld", "st", "rmw"} => p[d].order \cap p[m].order = {}
        /\ p[m].k = "ld" /\ p[i].k \in {"st", "rmw"} /\ "SL" \in p[d].order => p[i].bytes # p[m].bytes
BarriersApart == \A p \in Programs : Apart(p)

\* An exception waits for the ready stores by their number alone: it is that of
\* the stores that graduated and have not been issued, through every flush.
ReadyStoresAreCounted ==
    ReadyUnissuedStores = Cardinality({i \in StoreQueue : op[i].mem_ready /\ op[i].memprogress = 0})

\* The queues and counters of the unit hold what they say.
QueuesAreExact == TypeOK /\ ReadyStoresAreCounted

\* No load waits for ever in limbo, no store behind a barrier, no exception for
\* the stores: the program is carried out and its stores are performed.
EveryInstructionFinishes == <>Finished

=============================================================================
