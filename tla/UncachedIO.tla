----------------------------- MODULE UncachedIO -----------------------------
\* A processor with its uncached buffer, a coherent I/O device and the bus
\* between them, with the coherent requests of the caches as the environment.
\* A transaction takes the bus and arrives in one step; the caches answer every
\* snoop at once and memory every request in time.
EXTENDS UncachedBuffer, IODevice

CONSTANT Workloads  \* of [prog, dma, snoops]: what the three parties will do

VARIABLES
  snoops,      \* the coherent requests of the caches: [kind, line]
  snooped,     \* how many of them have had the bus
  outstanding, \* requests that hold one of the bus's numbers (Bus.req_count)
  bus_order    \* coherent requests in the order they had the bus

vars == <<bufferVars, deviceVars, snoops, snooped, outstanding, bus_order>>

Cpu(s)    == <<"cpu", s>>
Uncached  == <<"uncached", 0>>
Request(r) == IF IsOwn(r) THEN dma[r[2]] ELSE snoops[r[2]]
IsRead(t) == prog[t[1]].op = "READ"

Init ==
  \E w \in Workloads :
    /\ BufferInit(w.prog) /\ DeviceInit(w.dma)
    /\ snoops = w.snoops /\ snooped = 0
    /\ outstanding = {} /\ bus_order = <<>>

Numbers == Cardinality(outstanding) < BUS_TOTAL_REQUESTS

\* Steps of the processor and of the device alone.
ProcessorStep ==
  BufferStep /\ UNCHANGED <<deviceVars, snoops, snooped, outstanding, bus_order>>

DeviceStep ==
  /\ HostIssue \/ HostInterrupt \/ BusInterface \/ HandleOutqueue
  /\ UNCHANGED <<bufferVars, snoops, snooped, outstanding, bus_order>>

\* A store is complete when the device has performed it.
DeviceInput ==
  /\ HandleInqueue(Request(Head(cohqueue)), IsRead(Head(inqueue)))
  /\ completed' = IF inqueue = <<>> THEN completed
                  ELSE IF IsRead(Head(inqueue)) THEN completed
                  ELSE completed \cup ToSet(Head(inqueue))
  /\ UNCHANGED <<prog, issued, entries, cur_reads, transaction_pending, bus_waiter,
                 hung, snoops, snooped, outstanding, bus_order>>

\* The uncached transaction has the bus: a write is confirmed to the buffer at
\* once. At one transfer per bus cycle the input pipe always has room.
GrantUncached ==
  /\ bus_waiter # NoAccesses
  /\ Len(inpipe) < PipeDepth
  /\ IsRead(bus_waiter) => Numbers
  /\ inpipe' = Append(inpipe, bus_waiter)
  /\ inq_event' = TRUE
  /\ bus_waiter' = NoAccesses
  /\ transaction_pending' = IsRead(bus_waiter)
  /\ outstanding' = IF IsRead(bus_waiter) THEN outstanding \cup {Uncached} ELSE outstanding
  /\ UNCHANGED <<prog, issued, entries, cur_reads, completed, hung, controllerVars,
                 inqueue, cohqueue, outpipe, outqueue, outq_event, writebacks, scoreboard,
                 arbwaiters, arb_slot, log, answered, snoops, snooped, bus_order>>

\* Cache_get_IO_reply: the accesses of the transaction are complete.
GrantReply ==
  /\ arb_slot # NoItem /\ arb_slot[1] = "reply"
  /\ LeaveArb
  /\ completed' = completed \cup ToSet(arb_slot[2])
  /\ transaction_pending' = FALSE
  /\ outstanding' = outstanding \ {Uncached}
  /\ UNCHANGED <<prog, issued, entries, cur_reads, bus_waiter, hung, controllerVars,
                 inpipe, inqueue, cohqueue, inq_event, outpipe, outqueue, outq_event,
                 writebacks, scoreboard, log, answered, snoops, snooped, bus_order>>

\* A DMA request has the bus; the device snoops it like everybody.
GrantRequest ==
  /\ arb_slot # NoItem /\ IsOwn(arb_slot)
  /\ LET d == arb_slot[2]
     IN /\ dma_type[d] = "REQUEST" /\ dma[d].kind # "INTERRUPT"
        /\ IF dma[d].kind = "WRITEPURGE"
           THEN /\ dma_type' = [dma_type EXCEPT ![d] = "done"]
                /\ UNCHANGED outstanding
           ELSE /\ Numbers
                /\ outstanding' = outstanding \cup {arb_slot}
                /\ UNCHANGED dma_type
  /\ LeaveArb
  /\ cohqueue' = Append(cohqueue, arb_slot)
  /\ inq_event' = TRUE
  /\ bus_order' = Append(bus_order, arb_slot)
  /\ UNCHANGED <<bufferVars, dma, dma_issued, reply_queue, dma_queue, interrupt_queue,
                 bus_interface, inpipe, inqueue, outpipe, outqueue, outq_event, writebacks,
                 scoreboard, log, answered, snoops, snooped>>

\* An interrupt, or the write-back of a line the device owned.
GrantWrite ==
  /\ arb_slot # NoItem /\ IsOwn(arb_slot)
  /\ LET d == arb_slot[2]
     IN /\ dma_type[d] = "WRITEBACK" \/ dma[d].kind = "INTERRUPT"
        /\ dma_type' = [dma_type EXCEPT ![d] = "done"]
        /\ scoreboard' = IF dma_type[d] = "WRITEBACK" THEN ScoreboardRemove(d) ELSE scoreboard
  /\ LeaveArb
  /\ UNCHANGED <<bufferVars, dma, dma_issued, reply_queue, dma_queue, interrupt_queue,
                 bus_interface, inpipe, inqueue, cohqueue, inq_event, outpipe, outqueue,
                 outq_event, writebacks, log, answered, snoops, snooped, outstanding, bus_order>>

\* The next coherent request of a cache has the bus.
GrantSnoop ==
  /\ snooped < Len(snoops) /\ Numbers
  /\ snooped' = snooped + 1
  /\ outstanding' = outstanding \cup {Cpu(snooped + 1)}
  /\ cohqueue' = Append(cohqueue, Cpu(snooped + 1))
  /\ inq_event' = TRUE
  /\ bus_order' = Append(bus_order, Cpu(snooped + 1))
  /\ UNCHANGED <<bufferVars, controllerVars, inpipe, inqueue, outpipe, outqueue, outq_event,
                 writebacks, scoreboard, arbwaiters, arb_slot, log, answered, snoops>>

\* Memory answers a request that every snooper has answered.
MemoryAnswers ==
  \E r \in outstanding \cap answered :
    /\ IsOwn(r) => dma_type[r[2]] = "REQUEST"
    /\ dma_type' = IF IsOwn(r) THEN [dma_type EXCEPT ![r[2]] = "REPLY"] ELSE dma_type
    /\ outstanding' = IF IsOwn(r) THEN outstanding ELSE outstanding \ {r}
    /\ UNCHANGED <<bufferVars, dma, dma_issued, reply_queue, dma_queue, interrupt_queue,
                   bus_interface, interfaceVars, log, answered, snoops, snooped, bus_order>>

\* A reply takes several bus cycles, so the output event that an earlier one
\* scheduled for the next cycle has run.
ReplyArrives ==
  /\ writebacks = <<>> \/ ~outq_event
  /\ \E d \in DOMAIN dma :
       /\ GetReply(d)
       /\ outstanding' = outstanding \ {Own(d)}
       /\ UNCHANGED <<bufferVars, snoops, snooped, bus_order>>

Finished ==
  /\ \A k \in DOMAIN prog : k \in completed
  /\ \A d \in DOMAIN dma : dma_type[d] = "done"
  /\ \A s \in DOMAIN snoops : Cpu(s) \in answered

Done == Finished /\ UNCHANGED vars

Next ==
  \/ ProcessorStep \/ DeviceStep \/ DeviceInput
  \/ GrantUncached \/ GrantReply \/ GrantRequest \/ GrantWrite \/ GrantSnoop
  \/ MemoryAnswers \/ ReplyArrives \/ Done

\* Every handler is an event that comes again while there is work; the arbitrator
\* serves the modules in turn; the processor goes on with its program.
Fairness ==
  /\ WF_vars(ProcessorStep) /\ WF_vars(DeviceStep) /\ WF_vars(DeviceInput)
  /\ WF_vars(GrantUncached) /\ WF_vars(GrantReply) /\ WF_vars(GrantRequest)
  /\ WF_vars(GrantWrite) /\ WF_vars(GrantSnoop)
  /\ WF_vars(MemoryAnswers) /\ WF_vars(ReplyArrives)

Spec == Init /\ [][Next]_vars /\ Fairness

-----------------------------------------------------------------------------
\* The buffer, the queues and the device's bookkeeping stay in their sets.
TypeOK ==
  /\ BufferTypeOK
  /\ dma_type \in [DOMAIN dma -> {"none", "REQUEST", "REPLY", "WRITEBACK", "done"}]
  /\ ToSet(scoreboard) \subseteq DOMAIN dma
  /\ Len(arbwaiters) <= IO_MAX_TRANS /\ Len(outqueue) <= IO_MAX_TRANS
  /\ Len(cohqueue) <= Len(dma) + Len(snoops)
  /\ answered \subseteq ToSet(bus_order)

\* A memory barrier orders uncached accesses at the device: what follows it in
\* the program is performed after everything before it (the mark AddBarrier
\* leaves, CombinesWith and the order of the entries).
BarriersOrder ==
  \A n \in DOMAIN log : \A b \in 1..(log[n] - 1) :
    prog[b].op = "BARRIER" =>
      \A k \in 1..(b - 1) :
        k \in completed /\ \A m \in DOMAIN log : log[m] = k => m < n

Covers(k, w) == /\ prog[k].op # "BARRIER"
                /\ w \in prog[k].addr..(prog[k].addr + Max({prog[k].words, 1}) - 1)

\* The last store to word w among the accesses of a sequence, 0 if none.
LastStore(seq, w) ==
  LET stores == {n \in DOMAIN seq : prog[seq[n]].op = "WRITE" /\ Covers(seq[n], w)}
  IN IF stores = {} THEN 0 ELSE seq[Max(stores)]

InProgramOrder(n) == [k \in 1..n |-> k]
WordsUsed == UNION {{prog[k].addr, prog[k].addr + 1} :
                      k \in {i \in DOMAIN prog : prog[i].op # "BARRIER"}}

\* Combining does not change what the device holds: a load performed at the
\* device finds in each of its words the latest earlier store of the program,
\* and when all accesses are complete each word has the last store to it.
WordsInProgramOrder ==
  /\ \A n \in DOMAIN log : prog[log[n]].op = "READ" =>
       \A w \in WordsUsed : Covers(log[n], w) =>
         LastStore(SubSeq(log, 1, n - 1), w) = LastStore(InProgramOrder(log[n] - 1), w)
  /\ completed = DOMAIN prog =>
       \A w \in WordsUsed :
         LastStore(log, w) = LastStore(InProgramOrder(Len(prog)), w)

\* The order of the program, as far as the device can tell.
OrderAtTheDevice == BarriersOrder /\ WordsInProgramOrder

\* Between the READ_OWN of a line and its write-back the device is the owner: a
\* cache's request for the line that had the bus in between is not answered
\* before the write-back has had it (the scoreboard of IO_handle_inqueue).
SnoopsWaitForTheOwner ==
  \A n \in DOMAIN bus_order : ~IsOwn(bus_order[n]) /\ bus_order[n] \in answered =>
    \A m \in 1..(n - 1) :
      (/\ IsOwn(bus_order[m])
       /\ Request(bus_order[m]).kind = "READ_OWN"
       /\ Request(bus_order[m]).line = Request(bus_order[n]).line)
      => dma_type[bus_order[m][2]] = "done"

\* Every access completes, every DMA request ends, every snoop is answered (the
\* events reschedule themselves, fences and reads start the buffer, replies,
\* write-backs and requests do not wait for one another in a circle).
EverythingFinishes == <>Finished
=============================================================================
