# Verification of ML-RSIM

ML-RSIM is an execution-driven simulator of shared-memory multiprocessor nodes:
out-of-order SPARC processors, two levels of caches kept coherent by snooping, a
split-transaction bus, a memory controller with DRAM behind it, and I/O devices.
Its components are event-driven state machines that share queues, pointers and
counters; what each does is simple, and what they do to each other in an order
nobody wrote down is not. This directory holds TLA+ models of those state
machines, TLC configurations that check them on small instances, and TLAPS proofs.

Paths below are relative to `src/src/`. `PROJECT.json` maps every definition to
the lines it models.

## 1. The system

| Component | Code | State it keeps | Operations |
|---|---|---|---|
| Bus | `Bus/bus.c` | arbitrator, issuer and performer events; `busy_until`, the last start and end; one slot per module; `req_count`, `write_flowcontrol` | `Bus_recv_arb_req`, `Bus_arbitrator`, `Bus_wakeup_winner`, `Bus_start`, `Bus_issuer`, `Bus_perform` |
| L2 cache | `Caches/l2cache.c`, `cache.c` | tag array, MSHRs, five queues, tag and data pipes, `data_cohe_pending` | requests, replies, snoops, flushes, writebacks, copies |
| L1 caches | `Caches/l1d_cache.c`, `l1i_cache.c` | tags, MSHRs, queues | the same towards the processor and the L2 |
| Write buffer | `Caches/cache_wb.c` | FIFO of writes, each with `wb_cohe_pending` | issue, drain, search |
| System interface | `Caches/cache_bus.c` | `reqbuffer`, `outbuffer`, `pending_request`, `pending_writeback`, `cohe_reply`, three stall counters, `arbwaiters` | start, arbitrate, drive, retire |
| Uncached buffer | `Caches/ubuf.c` | combining entries with fences | insert, coalesce, send |
| Memory controller | `Memory/mmc_bus.c`, `mmc_main.c` | per request: reports outstanding, data returned, copied; transactions, `wb_count` | snoop scoreboard, replies, flow control |
| DRAM | `DRAM/*.c` | address and data buses, chips, banks | schedule, access, refresh |
| I/O interface | `IO/io_generic.c`, `scsi_controller.c` | pipes, snoop queue, scoreboard, write-backs, the controller's queues | host access, DMA, interrupt, snoop |
| SCSI | `IO/ahc.c`, `scsi_bus.c`, `scsi_disk.c`, `disk_*.c` | SCBs and sequencer, bus phase, disk queue, cache segments | command, disconnect and reconnect, transfer, write-back |
| Core | `Processor/exec.cc`, `active.cc`, `branchpred.cc`, `except.cc` | active list, rename maps and their shadows, stall queues, tag converter | fetch, rename, issue, complete, graduate, recover |
| Memory unit | `Processor/memunit.cc`, `memprocess.cc` | load and store queues, ambiguous stores, barriers | disambiguate, forward, issue, perform |
| Translation, traps | `Processor/tlb.cc`, `except.cc` | TLB entries, privileged registers, trap stack | look up, fill, trap, return |
| Instructions | `Processor/predecode_*.cc`, `funcs.cc`, `fsr.cc` | registers, Y, condition codes, FSR | decode, compute |
| Kernel | `sim_main/*.c` | the event list, object pools, user queues | schedule, remove, run |

How they interact. A processor puts REQs into the L1 queues; misses and
written-back or written-through lines go down to the L2. An L2 miss takes an MSHR
and becomes a REQUEST in the system interface, which queues for its bus slot. A
request that has crossed the bus is put at once into the coherence queue of every
L2 and I/O module and given to the memory controller. Each reports a state; the
last report, the data from DRAM and a copy from another L2 complete the request
in an order nobody fixes. A dirty line leaves an L2 as a WRITEBACK when evicted
and as a COHE_REPLY when another cache asks for it. The components share memory:
an MSHR of one cache holds a pointer to a REQ of another (`pending_cohe`), the
memory controller writes fields of the REQ that the caches test, and the slot of
the bus is read and rewritten by the cache behind it. Inside the processor the
queues hold instances by tag and skip those that were flushed since; every flush
has to return exactly what the stages it undoes had taken.

What is hard:

* **order**: a snoop against the fill of the same line; the copy against the
  last report; a victim on its way out against a snoop; a load against the
  address of an older store; a misprediction against a trap and an interrupt;
* **counters that mirror state**: stall counters, `arbwaiters_count`,
  `req_count`, `write_flowcontrol`, `ReadyUnissuedStores`, unit and queue counters;
* **circular waiting**: snoops, write buffer, request queue and MSHRs; replies
  and locked ways; an I/O module's snoops and its own requests; branches that
  wait for a shadow mapper;
* **pointers to recycled objects**: `pending_cohe`, `memtrans`, `ireq`;
* **what is done early**: acknowledged writes of a disk, forwarded loads,
  predicted branches, retired barriers.

What makes each part correct: the *bus* never carries two transactions, forgets
no waiter, keeps its limits and serves the memory controller; the *caches* have
one writer per line, answer with current data, complete each request once and
answer each snoop; the *uncached buffer* keeps program order across barriers; an
*I/O module* owns a line from its READ_OWN to its write-back; a *disk* has the
data it said it has; the *processor* graduates what the sequential machine would
execute, its loads read the last store, its traps cannot be noticed by the program
they interrupt. `PROJECT.json` lists the hazards by line with the properties that
cover them.

## 2. The modules

| Module | Contents |
|---|---|
| `Snooping`, `SnoopingProofs` | what the L2 caches of a node promise together; its inductive invariant |
| `L2Coherence`, `MCL2Coherence` | L2 caches, write buffers, system interfaces, bus and coherence scoreboard of one node; no time; implements `Snooping` |
| `L2InvariantProofs`, `L2CoherenceProofs` | the invariant that ties these together, kept by the steps of a cache, then by those of the bus, the memory controller and the snoops; the refinement |
| `CacheHierarchy`, `MCCacheHierarchy`, `CacheHierarchyProofs` | the two levels of one processor in write-back mode; where each of its accesses is |
| `Bus`, `MCBus`, `BusProofs` | the bus with its events and its clock; its inductive invariants and theorems |
| `UncachedBuffer`, `IODevice`, `UncachedIO`, `MCUncachedIO`, `UncachedIOProofs` | the uncached buffer; an I/O module; both on a bus with the requests of the caches; theorems about them |
| `DiskCache`, `ScsiDisk`, `Ahc`, `Scsi`, `MCScsi` | segments of a disk; the disk; the host adapter; both on a SCSI bus with the driver and memory |
| `Instructions`, `Sequential`, `Pipeline`, `MCPipeline` | kinds of instruction; the machine that executes one at a time; the out-of-order core that implements it |
| `MemoryUnit`, `MCMemoryUnit`, `MemoryUnitProofs` | load and store queues of a processor; its invariant and theorems |
| `Tlb`, `UserProgram`, `Traps`, `MCTraps` | translation buffers; what a program may rely on; traps, interrupts and address spaces, which implement it |
| `IntegerUnit`, `Predecode`, `Execute`, `Sparc`, `MCSparc` | the instruction set: arithmetic, decoding, the functional units, a program running on them |
| `ProcessorProofs` | what holds of traps whatever the kernel does; the meaning of the condition codes |

### `Snooping`

The abstract specification of the L2 caches: the state of each line in each cache
(`line`), the requests each cache has yet to answer (`queue`) and how far a request
is (`req`). There are no pipes, MSHRs, buffers or transfers. `Place` gives a request
its place in the order of the bus; `PassOwn` and `Answer` take the head of a cache's
queue, and a cache whose own request has passed holds back the answers for its line;
with the last answer, or later when the data come (`Complete`), a request is
complete, and `Install` and `Release` are its fill. `Flush` stands for evictions,
flushes and purges. It promises `OneOwner`, `OneGrant` and `OneCopy`.

The mapping in `L2Coherence` reads `line` from the tags (`LineOf`), `queue` from the
snoop queues (`coheq`) and `req` from the MSHRs, the scoreboard and the replies
under way (`RequestOf`). One step of the caches is one step of `Snooping` or none.

### `L2Coherence`

A request is named `<<cpu, line>>`: a cache has one MSHR per line, and the
request lives as long as its MSHR, so the fields of `REQ` and `MSHR` that matter
are one record `mshr[r]`. `tags` is the tag array, `wbuf`, `reqq`, `replyq`,
`coheq` and `dpipe` the queues, `sif` the system interface, `mmcq` and `bus` the
bus with the replies that wait for it. Each action is one handler up to its
return: `TagRequestHit/Miss/StallWAR/Coalesce/Retry` and `FlushPurge` are the
outcomes of `L2ProcessTagRequest`; `TagReplyInstall/Writeback/Release` the
progress steps of `L2ProcessTagReply`; `SnoopOwn/StallOnWriteBuffer/StallOnMSHR/
Answer` those of `L2ProcessTagCohe`; `Data*` those of `L2ProcessDataReq`;
`Arbitrate`, `MMCStart`, `Wakeup` and `Perform*` the bus. Handlers that call one
another inside one event (`MMCSendReply` calls `CacheGetReply` calls `ArbForBus`)
are operators on the state they share, applied in the order of the calls.

Abstractions: a queue and the tag pipe it feeds are one FIFO; all lines fall in
one set, with `Ways` ways; within a class of states the victim is any line (ages
are left open); an L2 serves one item per step; which cache wins arbitration is
left open here and settled in `Bus`. A snoop that nothing holds back is answered
before a copy from another L2 crosses the bus (`SnoopsAreFast`), because the tag
delay is a few cycles and a copy takes a data-array access, an arbitration and
a line transfer. The set of programs is `Issue`; `Window` bounds the operations
a processor has under way. The L1 writes through here (`L1D_writeback = 0`).

### `CacheHierarchy`

The default write-back mode of one processor: `l1["D"]`, `l1["I"]` and `l2` are
records of their queues, tags and MSHRs, `bus` the state of the other processors
and the snoops they send. Actions ending in `1` are the handlers of
`l1d_cache.c` and `l1i_cache.c`, those in `2` of `l2cache.c`; a request keeps its
`progress` over a retry as in the code. `Tell` and `Deliver` are the messages down
to the first level (REPLY, INVALIDATE, SHARED), `Cohe1` its answers, `Resume` the
handler in the L2 that was waiting for one: a snoop, a flush or a victim. The two
caches are the same code with different reference kinds, so the actions take the
cache as a parameter. The dirtiness of a victim is kept as the code keeps it.

### `Bus`

Time is `YS__Simtime` in whole cycles. An event is the cycle it is due, or -1.
`Perform`, `Issuer`, `ArbitratorChooses`/`ArbitratorRetries` and `WakeupWinner`
are the handlers of the three events; `CacheArbForBus`, `IOArbForBus` and
`MMCStartSendToBus` are the modules' side, each of which may take the slot, queue
behind it, or start at once; `CompleteUpgrade` and `WriteDone` return a request
number and a write buffer. `Tick` advances the clock when no event is due. Events
of one cycle run in any order, except where the event list fixes it: the
performer is scheduled 0.1 cycle before the issuer, and of issuer and arbitrator
the one scheduled first runs first (`issuer_first`). A WRITEPURGE counts as a
WRITEBACK; what the modules ask for is `Issue`.

### `UncachedBuffer`, `IODevice`, `UncachedIO`

An access of the program is its index; an entry of the buffer has the fields of
`UBUF_ITEM`, and `MaxCoalesce` chooses the next transaction from its request
slots, word by word as in `ubuf.c`. The device keeps a host transaction as the
sequence of its accesses, so that `log` is what the registers have seen. `inpipe`,
`inqueue`, `cohqueue`, `outpipe`, `outqueue`, `writebacks`, `scoreboard` and
`arb_slot` are those of `IO_GENERIC`; `HandleInqueue` and `HandleOutqueue` are its
two events with everything they do in one call. `UncachedIO` gives both the bus:
a transaction takes it and arrives in one step, the caches answer snoops at once,
memory in its own time. A word is the unit of an address; a byte access is one
that never combines.

### `DiskCache`, `ScsiDisk`, `Ahc`, `Scsi`

`DiskCache` has one operator per function of `disk_cache.c` on the array of
segments, ages included. `ScsiDisk` takes the record of a disk to the next one for
each of its events (`RequestHandler`, `SeekHandler`, `SectorHandler`) and for a
request that arrives; a failed assertion of the code is `fault`. `Ahc` does the
same for the states of the sequencer. `Scsi` has the phases of the bus as actions
and the driver and memory as environment. Seek and rotation times are left open,
and so is whether the next sector comes without a seek. A read that asks for the bus before
it has its last sectors has them when the transfer ends (`Reading`), as the disk estimated,
unless the arrival of another read made the disk start it anew (`scsi_disk.c:1541`, `413`).

### `Instructions`, `Sequential`, `Pipeline`

`Instructions` has the families of instruction the control of the core tells apart:
plain, with condition codes, conditional and unconditional branches, annulled
slots, register windows, loads, serialized instructions, traps and returns.
`Sequential` executes one at a time. In `Pipeline` an operator named after a
function takes the record `proc` to the next one; the actions are the phases of a
cycle: `Decode`, `RetryDecode` (`unstall_the_rest`), `IssueReady`, `Complete`,
`MemoryAnswer`, `FlagException`, `FreeUnit`, `Graduate`. Latencies are left open,
so any instruction in execution may complete next, and a prediction may be either.
A flushed instruction leaves the queues with its flush, except in `ReadyQueue`,
where the skipped entry gives a unit back. The code's own DEBUG checks set
`proc.error`. The refinement mapping takes the architectural registers, and
reconstructs the windows and program counters of the head of the active list from
what the instructions behind it have already changed.

### `MemoryUnit`

Release consistency as `memunit.cc` is built by default (without
`STORE_ORDERING`). An address is a set of bytes and the value of a byte the store
that wrote it, so forwarding from a wrong or partial store shows. `Disambiguate`
is what a store does to the younger loads when its address arrives, `IssueMem` a
whole pass over both queues with at most `L1Ports` requests, `Perform` an answer of
the cache in any order, `MarkMemopsReady`, `Graduate`, `SoftException`,
`PreException` and `ExceptionHandler` the active list.

`MembarsOrder` is what a barrier promises: while something it orders ahead is queued,
nothing behind it is issued. The unit looks only at the oldest barrier of each kind
(`ComputeMembarQueue`), and barriers retire in order. So it keeps the promise for programs
whose barriers are `BarriersApart`, as those of the run are; three programs whose are not
are refuted by hand below. What the unit keeps in every program is `IssuesObeyMembars`.

### `Tlb`, `UserProgram`, `Traps`

`UserProgram` is the specification: address spaces that execute their instructions
one after the other on their own registers and memory. `Traps` runs them on one
processor with a small kernel: `Step` executes an instruction of the program or
the handler, `SaveCPUState` and `DONERETRY` are the trap stack, `WRPR` and
`RDPR` the privileged registers with their effects on the buffers,
`FetchInterrupt` and `TakeInterrupt` the two halves of an interrupt, `Speculate` a
lookup of an arbitrary page by instructions that never graduate, `Drain` a store
that reaches memory after its instruction. The kernel's handlers are a constant
and part of the instance; they fill, fault in and copy pages, and switch address
spaces.

### `IntegerUnit`, `Predecode`, `Execute`, `Sparc`

The functions of `funcs.cc` on words of `Width` bits with a byte of one bit, so
that a word has four bytes as in the code; floats are a sign and a magnitude. `Predecode`
maps instruction words to the fields the pipeline uses, `Execute` each handler to
its outcome, and `Sparc` runs a program in order, with one store still in the memory
queue so that loads may take its value. `MCSparc` has the programs: idioms whose
result is known independently of how the instructions compute it.

## 3. The runs

A run `X` is `X.cfg`; `PROJECT.json` names its module.

| Run | Instance | Shows |
|---|---|---|
| `L2Sharing` | one cache reads and writes a line that the other writes (`Contending`), through 1 MSHR and 1 request slot each, the way of the first still taken by a dirty line (`VictimSpec`); 607k states | one writer, answers with current data, and `BookkeepingAgrees`: one fill per line, every counter equal to what it counts, live pointers, no lost completion, with the write-back of the victim between the snoops; no deadlock |
| `L2Liveness` | a writer that flushes and purges and a reader of its line, fair; 24k states | every request completes, every held-back snoop is answered, refinement of `Snooping`; no deadlock |
| `CacheHierarchy` | 8 programs on 3 lines, 1 way above and 2 below, 2 MSHRs each, a snoop; 181k states | every access is performed exactly once, every L1 MSHR has its request or reply in exactly one place |
| `HierarchyInclusion` | the same | a counterexample, see below |
| `BusNode` | a processor, an I/O module that may bypass the arbitrator, memory; 10 cycles; 762k states | no overlap, no lost wake-up, exact counts, every request number accounted for, replies served within a bound that is reached |
| `BusWriteBuffers` | the same with 3 request numbers, 15 cycles | a counterexample, see below |
| `UncachedIO` | 3 programs of uncached accesses, 2 of DMA against snoops; 160k states | combining keeps the order of the program at the device, snoops wait for the owner, everything finishes |
| `Scsi` | 8 sequences of up to 4 commands, 4 segments of 2 blocks, 2 of them for writes; 104k states | no assertion of disk or adapter fails, data and completion agree, writes reach the media, every command ends |
| `Pipeline` | 5 programs of up to 6 instructions, 4 in flight, 1 shadow mapper, 1 unit; 295k states | refinement of `Sequential`; registers and units conserved; shadow maps exact; the core never stops before the end |
| `MemoryUnit` | 11 programs of 4 or 5 accesses on 2 bytes, a misprediction; 61k states | loads read the last store, stores reach each byte in order, barriers order, counters exact, every program ends |
| `Traps` | 2 address spaces, 5 kinds of buffer, 2 interrupts; 184k states | refinement of `UserProgram`; buffers agree with the page table; no masked interrupt is taken; the running program ends |
| `Sparc` | 35 idioms on 4-bit words, every operand, condition and register pair; 276k states | integer, memory and floating-point idioms compute what they are used for |

**Bounds.** Two caches are every pair of roles: requester, owner, sharer; a third
sharer adds only another report. One line per cache is where the races are; a dirty
line on the only way is the smallest case with an eviction. One MSHR, one request
buffer and one out buffer make every "full" branch happen; two request numbers make
arbitration refuse requests. `CacheHierarchy` has a third line so that both levels
evict, and as many L2 ways as MSHRs (see the deadlock below). Ten cycles of the bus
cover three transactions with their turnarounds; the clock stops at `Horizon`, so
`BusNode` does not check for deadlock: that a waiter is never without an arbitrator
event is `WaitersAreSeen`, an invariant. Two entries and a threshold of two make the
uncached buffer fill, flush by itself and flush for a read. Four commands are more
than the disk's queue of two takes, and a command of four blocks more than its write
segments hold. Four instructions in flight are a branch, its slot and two behind
it, and one shadow mapper makes the second branch wait; `MaxTag` bounds the
instructions a behaviour decodes, replays included. Words of four bits have every
combination of flags; `Half` is `2^(Width-1)`.

**Deadlock** is checked except where an instance really stops: `BusNode` and
`BusWriteBuffers` (the horizon) and `CacheHierarchy`, `Sparc` and `Traps`, whose
programs end; there `EveryAccessEnds` and `EveryRunEnds` say that nothing stops earlier
(a program of `Sparc` is a straight line).

**Fairness.** In all modules each component's handler is called every cycle while it
has work, so weak fairness of each is what the simulator's main loop does. The sets
of actions are as coarse as the calls: all outcomes of the head of a pipeline are one
set (`Requests1`, `L2TagStep`, `Host`, `Disk`). In `Scsi` the condition written for ENABLED is the guard
of each party. Two assumptions are stronger. Arbitration in `L2Coherence` is strongly fair per
cache, since the arbitrator picks the earliest eligible waiter and a waiter that is
eligible again and again becomes the earliest. `WritersPause` is an assumption on
the program: a processor that writes a line without pause keeps its snoops waiting
in the write buffer for ever, in the code as in the model. `EveryRunEnds` is
claimed for separate instruction and data buffers; a unified direct-mapped buffer
can miss for ever, each entry evicting the other.

**Refinement.** `L2Coherence` implements `Snooping` (`ImplementsSnooping`), `Pipeline`
implements `Sequential` (`ImplementsSequential`) and `Traps` implements `UserProgram`
(`TrapsAreInvisible`). In the last two the mapping rebuilds the architectural state
from wherever the code keeps it at that moment: the logical registers and the head of
the active list; the trap stack, the alternate globals, or the save area of a
switched-out address space.

**Two counterexamples are runs.** `HierarchyInclusion`: in write-back mode the L1 data
cache passes a FLUSHC on without a look at its own MSHRs (`l1d_cache.c:387-391`). If a
miss of the line is under way, the L2 remembers the flush in its MSHR and drops the line
after the fill (`l2cache.c:399`); the L1 installs what it was sent and keeps a line the
L2 does not have, against `cache_init.c:174-175`. Snoops of it no longer reach the L1. The
last state of the trace has nothing under way for the line.

`BusWriteBuffers`: an I/O module that is bus master starts its next write or copy without
the arbitrator (`io_generic.c:653`), and only the arbitrator looks at the flow control of
writes (`bus.c:312`, `333`). With three requests outstanding the write finds the buffers of
the memory controller (`mmc_writebacks`) full. With the two of `BusNode` there are never
enough writes, which is why that run does not claim the limits.

**Instances to run by hand**, `tlc -config X.cfg M`; TLC refutes each in seconds.

| Instance | Property | What happens |
|---|---|---|
| `L2Eviction.cfg` | `MemoryReplyIsCurrent` | a dirty victim in the data pipe is invisible to a snoop; memory answers with old data (`l2cache.c:1178`, `1482`) |
| `L2LostCompletion.cfg` | `AnsweredRequestCompletes` | the copy arrives before the last report and nobody completes the request (`mmc_bus.c:165`, `210`) |
| `L2LockedWay.cfg` | `LockedLineStays` | an invalid line is refilled into its old way, over a line locked for an upgrade (`l2cache.c:1064`) |
| `L2WriteBufferDeadlock.cfg` | `SnoopsResume` | snoop, write buffer, request queue and MSHR wait in a circle (`l2cache.c:1470`) |
| `MemoryUnitLimbo.cfg` | `LoadsReadTheLastStore` | a load that forwards from the second of three stores: an entry in limbo is compared with the wrong store (`memunit.cc:778`, `1300-1318`) |
| `PipelineCleanWindow.cfg` | `ImplementsSequential` | a SAVE that takes a CLEANWINDOW trap has already changed the window counters, and nothing takes that back |
| `ScsiMixedTags.cfg` | deadlock | an untagged command among tagged ones: its answer goes to the first SCB in use for the target |

The others differ from a run in the lines named; "`L2Sharing`, cold" is `L2Sharing` from empty
caches with both programs: `SPECIFICATION Spec`, `Lines = {x}`, `Issue <- Sharing`, `L2_REQQ = 2`.

| Run | Changed | Property | What happens |
|---|---|---|---|
| `BusNode` | `Issue <- IORequests` | `RequestLimit` | an I/O module that is master starts requests without looking at the limit (`io_generic.c:653`) |
| `BusNode` | `MMC_writebacks = 1` | `WriteBuffersSuffice` | flow control comes too late (`mmc_main.c:113`) |
| `BusNode` | | `DriverChangesCostTurnaround` | the turnaround after a direct start is not counted (`bus.c:382-402`) |
| `BusNode` | | `MMCHasPriority` | memory loses to a processor that asked earlier (`bus.c:347-350`) |
| `L2LockedWay` | `LostWay` with `<<c2, "READ", x>>` | `SingleWriter` | the overwritten line is granted for writing once more (`l2cache.c:1064`); `ImplementsSnooping` fails too |
| `L2Sharing`, cold | | `WritesLeaveLineDirty` | a coalesced write is forgotten and the line installed clean: `req_type` read for `prcr_req_type` (`l2cache.c:962`) |
| `L2Sharing`, cold | | `CopyMarksOwnTransaction` | a copy marks a memory transaction its request no longer has (`mmc_bus.c:213`) |
| `L2Sharing`, cold | `Issue <- FlushedUpgrade`, no deadlock check | `UpgradeNeedsNoData` | the line is gone when its upgrade is granted, and nobody sends data (`mmc_bus.c:109-114`) |
| `L2Sharing`, cold | `Issue <- BusyOwner`, `Lines = {x, y, z}`, `Ways <- FourWays`, 3 MSHRs and request buffers, no deadlock check | `CopiesBypassStalledRequests` | a copy queues behind requests that wait for request numbers (`cache_bus.c:230`) |
| `CacheHierarchy` | `Ways2 = 1` | `EveryAccessEnds` | the locked way above (`l2cache.c:1076`) |
| `UncachedIO` | `Workloads <- ByteThenWord`, `DoubleThenWord` | deadlock | the loop that chooses the size of a transaction never ends |
| `UncachedIO` | `Workloads <- ManyRequests`, `BUS_TOTAL_REQUESTS = 2` | `EverythingFinishes` | snoops wait for a request that waits for a request number |
| `UncachedIO` | `Workloads <- Transfers`, `IO_MAX_TRANS = 1` | deadlock | a second write-back finds the queue full |
| `UncachedIO` | `Workloads <- SameLine` | `SnoopsWaitForTheOwner` | the scoreboard is searched by line and finds the older of two requests (`io_generic.c:282`) |
| `Scsi` | `Workloads <- FastWrites` | `NoFault` | a fast write is freed while it is served, or finds no segment |
| `Scsi` | `Workloads <- LongWrite` | `CompleteWritesAreOnTheMedia` | a write larger than the write segments |
| `MemoryUnit` | `Programs <- BarrierPrograms` | `MembarsOrder` | a value is forwarded across a store-load barrier, since an older one is still queued ahead of the store (`memunit.cc:1757`); the comment there says "no forward across membar" |
| `MemoryUnit` | `Programs <- MixedBarrierPrograms` | `MembarsOrder` | a load-load barrier that cannot retire, because one of another kind waits ahead of it, hides the next of its kind: a load passes a load (`memunit.cc:1490`, `1889`) |
| `MemoryUnit` | `Programs <- ForwardPrograms` | `MembarsOrder` | a load takes its value from a store behind a store-load barrier, while the store ahead of the barrier waits (`memunit.cc:1757`) |
| `Pipeline` | `Programs <- TwoDestinationPrograms`, `Handler <- WindowHandlers`, `MAX_ACTIVE = 2`, `MAX_ALU = 2`, `MaxTag = 6` | `ImplementsSequential` | the free list runs out and hands out physical register 0, which reads as "no register" (`active.cc:311`) |
| `Sparc` | `Idioms = {"trapcc"}` | `TrapOnCondition` | a conditional trap is decoded without the condition codes it tests (`predecode_instr.cc:1356-1371`) |
| `Sparc` | `Idioms = {"popc"}` | `PopulationIsCounted` | POPC counts `rs1` for `rs2` (`funcs.cc:1478`) |
| `Sparc` | `Idioms = {"shift0"}` | `ShiftByNothing` | SRA of a negative word by 0 builds its mask with a shift by 32 (`funcs.cc:1264-1268`) |
| `Sparc` | `Idioms = {"gzero"}` | `RegisterZero` | a multiplication with flags writes `%g0` (`funcs.cc:1119`) |
| `Sparc` | `Idioms = {"halvesf"}` | `DoubleIsTwoWords` | a word forwarded from a stored double is the wrong half (`memunit.cc:250-267`) |
| `Sparc` | `Idioms = {"fsr1"}` | `FloatIdioms` | the FSR read back has FCC1 shifted into the place of FCC3 (`fsr.cc:217-220`) |

`L2LockedWay` and `L2LostCompletion` start from caches filled by an earlier history
(`IdleWith`): lines that were read, written or invalidated and are now at rest.
From empty caches the same states are reached by reading, writing and evicting the
lines one after the other, which only makes the traces longer.

Two instances that hold are left out of the runs. `L2Sharing`, cold, with `SYMMETRY CPUSymmetry`
satisfies the three properties of `L2Sharing` in its 640k states. Two lines that contend for
one way again and again, `L2Sharing` with `SPECIFICATION Spec`, `Issue <- Evicting`, `MSHRS = 2`,
`MAX_COALS = 1`, without the deadlock check (the reply for one line can wait for a way that is
locked for an upgrade whose reply is queued behind it; `l2cache.c:1075-1079` warns of it),
satisfy `BookkeepingAgrees` in their 634k states.

## 4. The proofs

A theorem holds for every value of the constants that its module's named assumptions
and its own hypotheses allow. All are machine-checked; every invariant was model-checked
on the runs before it was proved.

### The bus: `BusProofs`

For any number of processors and I/O modules and any timing parameters
(`ConstantsAssumption`: counts and cycles are naturals, a bus cycle and
a transaction take at least one cycle, at least one request number and one write
buffer):

* `TypeCorrect`: `Spec => []TypeOK`. Its substance is that the round-robin index
  stays within the modules, also when the memory controller, numbered
  `NUM_MODULES`, is the winner.
* `BusSafe`: `Spec => []NoErrors`. No transaction starts while one is on the bus,
  nothing is performed or issued that never started, no slot is overwritten.
* `WaitersCounted`, `WaitersSeen`: the counts the modules and the arbitrator decide by
  are exact, and while anybody waits the arbitrator is scheduled: no wake-up is lost.
* `RequestsAreBalanced`: `req_count` is the number of requests under way plus the
  answers still in queues, slots and hands.
* `OnlyMastersPassTheRequestLimit`: as long as the requests under way and the one chosen
  are within `BUS_TOTAL_REQUESTS`, every step leaves them there, except that an I/O module
  starts a request as bus master (`StartsAsMaster`).
* `FlowControlFollowsBuffers`: with two write buffers or more, flow control is up exactly
  when at most one is left. `OnlyMastersOverfillTheWriteBuffers`: as long as the buffered
  writes, the one on the bus and the one chosen fit, every step leaves them so, except
  that an I/O module starts a write or a copy as bus master.

`NoErrors` is not inductive: a state in which a wake-up is due while the bus is
busy satisfies it. The invariant is

    Inv == TypeOK /\ NoErrors /\ EventsInOrder /\ WinnerIsDue
             /\ WaitersAreCounted /\ ChosenLeftSlot

`EventsInOrder`: the issuer is due exactly at `busy_until`, the performer no later,
and no event is overdue. `WinnerIsDue`: a chosen winner has its wake-up scheduled
at `next_start_time`, not before `busy_until`, and behind the issuer if in the
same cycle. These two keep transactions apart. `WaitersAreCounted` and
`ChosenLeftSlot` keep slots from being overwritten: a module with a zero count has
neither a slot nor a win. `StartTimeLater` bounds the start time from below
for every combination of parameters. Relative to `Inv` four more are inductive: the
slots and the arbitrator's event, the balance of requests, the limit including the
request already chosen, and flow control with the write on the bus and the one chosen.

The limits themselves are not invariants of the code: `BusWriteBuffers` breaks that on
writes and `IORequests` that on requests, both by the step the theorems name. What is proved
is that there is no other such step, in any node: the arbitrator counts right.

### Coherence: `SnoopingProofs`, `L2InvariantProofs`, `L2CoherenceProofs`

`SnoopingProofs`, for any number of caches and lines: `Inductive` and, from it,
`PromisesAreKept`: one owner, one grant, data sent once. `OneOwner` is far from
inductive, since whether a cache may install a line depends on who has answered. The
invariant `IInv` goes from order to ownership: queues hold the requests in bus order and
a cache that let its own request pass has not answered a later one (`Queued`,
`Aligned`, `LaterOnesWait`); so of two requests for a line one still waits at the
other's owner (`OneWaits`); who has answered has given the line up
(`AnsweredGivesUp`); while dirty data travel nobody has the line private and every
other request comes later (`CopyIsAlone`, `CopyIsNext`).

`L2CoherenceProofs`, for any number of caches, lines, ways, MSHRs and buffers:

* `CoherenceIsKept`: `Coherent` is `CInv` and the view of it in `Snooping`'s `IInv`. It holds
  at first, and every step from a coherent state leads to another and is a step of
  `Snooping` or changes nothing there, but for two kinds of step: a reply puts its line
  into a way that is locked for an upgrade (`RefillsLockedWay`), or empties such a way
  (`EmptiesLockedWay`).
* `CoherentWritersAreAlone`: `SingleWriter` of every coherent state.
  `CoherentFillsAreAlone`: `OneFillPerLine`, a part of `BookkeepingAgrees`.
* `SnoopingIsImplemented`: `ImplementsSnooping`, if a cache has one MSHR.
  `WritersAreAlone`, `FillsAreAlone`: then `SingleWriter` and `OneFillPerLine` always hold.

`CInv` says that what the controllers keep about each other agrees: a line has one way
and its MSHR knows which (`TagsAreExact`, `WayIsKnown`); the request, the reply, the copy
and the fill of an MSHR are each in one place, only in the phase for it
(`RequestGoesOnce`, `ReplyGoesOnce`, `CopyGoesOnce`, `LineFillsOnce`, `SentOnce`); the
memory controller counts just the caches that have the request in their snoop queue
(`CountIsExact`); a cache whose MSHR is not marked issued has its own request still in the
queue (`IssuedIsSeen`); a request that writes is exclusive (`WritesAreExclusive`).
`CInv` and `IInv` are proved together: that no two dirty caches answer one request is known
from `Snooping` only.

That a line locked for an upgrade keeps its way is what the code takes for granted
(`mshr_out`) and does not ensure: `l2cache.c:1064` refills the old way of an invalid line, also
when it was taken and locked since. With several MSHRs `L2LockedWay` takes this step, and
`SingleWriter` is false after it; so `CoherenceIsKept` assumes nothing and names the step. The
step needs two MSHRs in one cache, since the reply and the lock belong to different ones.
With `MSHRS = 1`, the value in `L2Sharing` and `L2Liveness`, `OneMSHR` (at most one is valid) is
inductive, no way is locked by another request than the reply's own (`LocksAreKept`), and
the theorems hold of every behaviour. No instance was found that takes `EmptiesLockedWay`.

### The caches of one processor: `CacheHierarchyProofs`

For any program of cached accesses and any numbers of lines, ways, MSHRs, queue entries
and snoops (`HierarchyAssumption`: at least one way in each cache):

* `NoAccessIsPerformedTwice`: `PerformedOnce`, and no reply finds its MSHR gone.
* `EveryMSHRIsAnswered`: `MSHRsAreAnswered`.
* `NoAccessIsLost`: when the queues and MSHRs are empty, every access was performed once.
* `HeldAlways`: the invariant they follow from.

None of the three is inductive: that an access will not be performed again depends on
where its request is. The invariant counts. `Below` is the number of requests of an access
on the way down: in the queue of its cache, in that of the L2, in the L2's MSHR of its line
as the first request or a coalesced one, among the answers the L2's data pipe holds. Then

* `AccessHeld`: performed, below without an MSHR waiting for it, in an MSHR of the first
  level, or a flush that waits in the first level's messages: one of these, once, and only
  if it was issued;
* `MSHRCarried`: the one access an MSHR of the first level waits for is below or its reply
  is above, and no other request below claims to be waited for;
* `BusLife`: what an MSHR of the L2 takes its bus transaction to be is what the snoop
  queue, the reply queue and the data pipe hold, so that a fill is unpacked once;
* `L1Type`, `L2Type`, `RestType`: what each place can hold. A valid MSHR of either level
  holds requests of its own line, a queue of a cache requests of that cache, `done.left` is
  the rest of the program.

Each action has a lemma that says which counts it changes (`SameBelow`, `GoesUp`,
`LeavesBelow`, ...), and the invariant follows from the counts. The step that needs more is
the fill, which answers all requests coalesced in an MSHR in one call
(`L2Cache_uncoalesce_mshr`). `Deliver` is a recursive function of the number already
answered; that a cache receives as many replies for a line as there are waiting requests for
it is proved by the smallest number for which it fails (`WFMin`), since the library's
induction needs an operator parameter.

Nothing here needs the second level to include the first, and `Inclusion` is false.
`Ways2 = 1`, for which `EveryAccessEnds` fails, is covered too: there accesses wait for
ever, held in one place.

### The I/O path: `UncachedIOProofs`

For any sizes of buffer and queues and any workload of ordinary accesses
(`WorkloadsAreOrdinary`: a device does not read and write one line by DMA at once, the
case in which `SameLine` above refutes the property): `BufferStaysInBounds`, and
`SnoopsWait`, which is `SnoopsWaitForTheOwner`. The invariant is
`BufferTypes /\ DeviceTypes /\ Order`. `Order` follows a line from the device's
READ_OWN to its write-back: what is snooped is answered in bus order (`SnoopsInOrder`), each
request of a cache is there once (`CachesAskOnce`), every line the device owns is on the
scoreboard (`BoardKeepsOwned`), and no request behind the owner's is answered while the
line is owned (`OwnerGoesFirst`).

### Traps and condition codes: `ProcessorProofs`

Whatever kernel, programs and devices do: `InterruptsPermitted`
(`InterruptsArePermitted`: every change of the mask empties the fetch queue) and, with at
least one trap level, `TrapLevelsStayInBounds`. `RetryUndoesTrap`: a trap and the RETRY of
a handler that leaves its trap level alone are the identity on program counters, codes,
window and state. `RefillIsFound`, `FlushEmpties`: what a buffer of any size and kind
answers after a refill or a flush.

For words of any width, where `Sparc` has four bits: `AdditionCarries`,
`SubtractionBorrows` (what carry and overflow mean), `ConditionsCompare` and
`RegisterConditions` (which comparison each branch computes), `DoubleSum` and
`DoubleDifference` (arithmetic of two words with the carry between them).

### The memory unit: `MemoryUnitProofs`

For any programs and any sizes (`MemoryUnitAssumption`: a program is a sequence of
instructions on the given bytes; every size is at least one):

* `UnitInvariant`: `Spec => []IInv`, the invariant below.
* `QueuesHold`: `QueuesAreExact`; `StoresInOrder`: `StoresReachMemoryInOrder`.
* `MembarsObeyed`: `IssuesObeyMembars`. `MembarsHold`: `MembarsOrder`, if `BarriersApart`.

`StoresReachMemoryInOrder` is about what has been performed; whether it stays true depends
on what is on its way. `IInv` adds

* `StoresOK`: a store is ready only when everything older is done without an exception,
  issued only when ready, and of two that overlap the older is issued, and performed, first;
* `CacheOK`: the cache holds each request once, overlapping stores in program order, and
  every store that was issued and not performed;
* `ListOK`, `UnreadyOK`, `LoadsOK`: what has left the active list was done; a trap that
  waits is the oldest instruction; a store that is not ready is not done; a load is queued
  until it is done, and in limbo only after its answer. With `StoresOK` this is why a flush
  never removes a ready store, and the counter needs no correction;
* `CacheLoadsOK`: a load in the cache has seen each older store that is known to overlap
  it, or takes its value from a younger one. So the answer never finds a store to redo the
  load for, but through a soft exception;
* `Counted`, `MemoryOK`: the counter and the memory.

A cycle of the unit is two passes over the queues, folds written as recursive functions.
`StepsExist` shows once that a function defined by a step from each number to the next
exists and stays in given sets, by the smallest number for which it fails (`WFMin`);
`CycleOK`, `ScanOK` and `MarkOK` are what the folds carry along: the invariant, the counter,
and that whatever is issued is released by the barriers left (`Released`). The theorems
about barriers add one more invariant, `Retired`: a barrier that is gone has nothing ahead
of it to wait for. Every step but the cycle is `Quiet`: it issues nothing and retires no
barrier.

`BarriersApart` says of every program that no access lies between two barriers of a kind,
and no store behind a store-load barrier has the bytes of a load behind it. The code does
not ensure it; without it `MembarsOrder` is false (the three rows above), and
`MembarsObeyed` says where. TLC evaluates it for the programs of the run
(`MCBarriersApart`), and checked `IssuesObeyMembars` on the programs of those rows.

### Only model-checked

* Liveness under fairness, and ENABLED: out of the prover's reach. The `Snooping` theorems
  are about safety.
* `LoadsReadTheLastStore` of `MemoryUnit`: false of some programs (`MemoryUnitLimbo`), by the
  store an entry in limbo is compared with. It holds of those of the run.
* `Pipeline` (folds over the active list) and `OrderAtTheDevice` (the run of the sequential
  program): what they say is about functions defined by recursion, which needs an induction
  written out for each of them, as for `MemoryUnit`.
  `Scsi` needs the recursive operators of `DiskCache`.
* `TranslationHolds` and `TrapsAreInvisible` of `Traps`: they depend on what the handlers
  of the instance do.
* `RepliesAreServed` of `Bus`: the bound is for one I/O module; with more it is another.
* `BookkeepingAgrees` and `MemoryReplyIsCurrent` of `L2Coherence` as wholes: the first includes
  completions that can be lost, the second fails under eviction (`L2LostCompletion`,
  `L2Eviction`); one part of the first is proved.
* `TypeOK` of `UncachedIO` as a whole: its bounds on the lengths of the device's queues are not
  in the proved invariant; the rest is `BufferTypeOK`, `DmaTypes` and `Order`.
* `Inclusion` of `CacheHierarchy` is refuted; which data a line holds is not in that model.

## 5. What is left

Not modelled, and why:

* **DRAM and the pool of memory transactions.** They decide *when* an answer comes;
  `L2Coherence` lets it come at any time. Their own defects are local: after a refresh
  the test for waiting transactions is the wrong way round (`dram_refresh.c:157-175`).
* **The event list and the pools.** `Bus` uses the order of events of one time; the
  bucket search and the free lists are sequential data structures.
* **Prefetches, perfect caches, lines of different size, full queues towards the L1**
  in `CacheHierarchy`; **sequential and processor consistency** in `MemoryUnit`.
  In the first, a retry after a full queue reads the uninitialised `ireq`
  (`l2cache.c:1148`): what happens then is not defined by the code.
* **The hardware table walk** of the TLB: no configuration of the kernel's handlers needs it.
  Of the **privileged registers** `Traps` has those that translate, trap, mask or save;
  TICK, TBA, VER, WSTATE and the counters of windows are left out (the counters are in
  `Pipeline`).
* **Loads of another kind than the store they follow** in `MemoryUnit`: a load and a store of
  the same bytes are taken to be of kinds that forward (`MemMatch`); an integer load of a
  stored double, say, waits in the code. LDSTUB forwards and SWAP and CAS do not, as there.
* **SCBs freed under the sequencer**: the branch of `SequencerResponse` for an inactive SCB
  (`ahc.c:1090`) is translated, but the resets that lead there are not.
* **Floating-point and paired registers in `Pipeline`**, fetch timing, predictor tables:
  the same renaming once more, and choices the model leaves open.
* **VIS instructions, quad floats, rounding modes** in `Execute`.
* **PCI configuration, the address map, the clock**: decoding tables. **System calls**
  (`traps.cc`): host I/O. **Statistics, tracing, parameter files**: output and input.

Worth proving next: more conjuncts of `BookkeepingAgrees` (live pointers, stalls that have a
reason); `ResourcesAreConserved` of `Pipeline`, with the folds of `MemoryUnitProofs`.
