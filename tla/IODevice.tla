------------------------------ MODULE IODevice ------------------------------
\* A coherent I/O device: the generic bus interface (IO/io_generic.c) and the
\* bus side of the SCSI controller behind it (IO/scsi_controller.c). The host's
\* uncached accesses come in, DMA requests and interrupts go out, and the device
\* snoops the requests of everybody, its own included.
EXTENDS Integers, Sequences, FiniteSets

CONSTANTS
  IO_MAX_TRANS,        \* capacity of the queues of the interface
  BUS_TOTAL_REQUESTS,  \* capacity of the queues of the controller
  PipeDepth            \* stages of outpipe: IO_LATENCY * BUS_FREQUENCY

ASSUME DeviceAssumption ==
  /\ IO_MAX_TRANS \in Nat \ {0} /\ BUS_TOTAL_REQUESTS \in Nat \ {0}
  /\ PipeDepth \in Nat \ {0}

VARIABLES
  dma,             \* what the device will do: [kind, line]
  dma_issued,      \* how many of them it has issued
  dma_type,        \* REQ.type of each: REQUEST, REPLY, WRITEBACK, or done
  inpipe, inqueue, \* host accesses: a transaction is a sequence of accesses
  cohqueue,        \* requests to be snooped, in bus order
  inq_event,       \* IO_handle_inqueue is scheduled
  outpipe, outqueue, outq_event,
  writebacks,      \* lines to be written back after a READ_OWN
  scoreboard,      \* the device's own requests that others must respect
  arbwaiters,      \* waiting for the bus behind arb_slot
  arb_slot,        \* the device's entry at the bus arbitrator, or NoItem
  reply_queue, dma_queue, interrupt_queue, bus_interface,
  log,             \* accesses performed at the device, in order
  answered         \* requests whose snoop the device has answered

interfaceVars == <<inpipe, inqueue, cohqueue, inq_event, outpipe, outqueue,
                   outq_event, writebacks, scoreboard, arbwaiters, arb_slot>>
controllerVars == <<dma, dma_issued, dma_type, reply_queue, dma_queue,
                    interrupt_queue, bus_interface>>
deviceVars == <<interfaceVars, controllerVars, log, answered>>

NoItem == <<>>
\* What the device puts on the bus, and what it snoops.
Reply(t) == <<"reply", t>>
Own(d)   == <<"own", d>>
IsOwn(r) == r[1] = "own"

DeviceInit(program) ==
  /\ dma = program /\ dma_issued = 0 /\ dma_type = [d \in DOMAIN program |-> "none"]
  /\ inpipe = <<>> /\ inqueue = <<>> /\ cohqueue = <<>> /\ inq_event = FALSE
  /\ outpipe = <<>> /\ outqueue = <<>> /\ outq_event = FALSE
  /\ writebacks = <<>> /\ scoreboard = <<>> /\ arbwaiters = <<>> /\ arb_slot = NoItem
  /\ reply_queue = <<>> /\ dma_queue = <<>> /\ interrupt_queue = <<>>
  /\ bus_interface = FALSE
  /\ log = <<>> /\ answered = {}

-----------------------------------------------------------------------------
\* The controller.

\* A write of less than a line first fetches the line with READ_OWN.
HostIssue ==
  LET d == dma_issued + 1
  IN /\ dma_issued < Len(dma) /\ dma[d].kind # "INTERRUPT"
     /\ Len(dma_queue) < BUS_TOTAL_REQUESTS
     /\ dma_queue' = Append(dma_queue, Own(d))
     /\ dma_type' = [dma_type EXCEPT ![d] = "REQUEST"]
     /\ dma_issued' = d
     /\ bus_interface' = TRUE
     /\ UNCHANGED <<dma, reply_queue, interrupt_queue, interfaceVars, log, answered>>

\* An interrupt is raised when the data of the requests before it have returned.
HostInterrupt ==
  LET d == dma_issued + 1
  IN /\ dma_issued < Len(dma) /\ dma[d].kind = "INTERRUPT"
     /\ \A e \in 1..dma_issued : dma_type[e] \in {"WRITEBACK", "done"}
     /\ interrupt_queue = <<>>
     /\ interrupt_queue' = <<Own(d)>>
     /\ dma_type' = [dma_type EXCEPT ![d] = "REQUEST"]
     /\ dma_issued' = d
     /\ bus_interface' = TRUE
     /\ UNCHANGED <<dma, reply_queue, dma_queue, interfaceVars, log, answered>>

\* IO_start_transaction refuses when the output pipe is full; the controller's
\* queues then keep the request. Replies go before interrupts before DMA.
BusInterface ==
  /\ bus_interface
  /\ LET room    == Len(outpipe) < PipeDepth
         replies == reply_queue # <<>>
         intr    == ~replies /\ interrupt_queue # <<>>
         req     == CASE replies -> Head(reply_queue)
                      [] intr    -> Head(interrupt_queue)
                      [] OTHER   -> Head(dma_queue)
     IN /\ reply_queue' = IF room /\ replies THEN Tail(reply_queue) ELSE reply_queue
        /\ interrupt_queue' = IF room /\ intr THEN <<>> ELSE interrupt_queue
        /\ dma_queue' = IF room /\ ~replies /\ ~intr THEN Tail(dma_queue) ELSE dma_queue
        /\ outpipe' = IF room THEN Append(outpipe, req) ELSE outpipe
        /\ outq_event' = (outq_event \/ room)
  /\ bus_interface' = (reply_queue' # <<>> \/ interrupt_queue' # <<>> \/ dma_queue' # <<>>)
  /\ UNCHANGED <<dma, dma_issued, dma_type, inpipe, inqueue, cohqueue, inq_event,
                 outqueue, writebacks, scoreboard, arbwaiters, arb_slot, log, answered>>

-----------------------------------------------------------------------------
\* IO_handle_inqueue. A request to be snooped is [kind, line]; one of the device
\* itself is in `dma`.

Lookup(board, line) ==
  LET matches == {n \in DOMAIN board : dma[board[n]].line = line}
  IN IF matches = {} THEN 0
     ELSE board[CHOOSE n \in matches : \A m \in matches : n <= m]

\* The scoreboard after the device has seen r: its own requests are entered.
BoardAfter(r) ==
  IF IsOwn(r) /\ dma[r[2]].kind # "WRITEPURGE" THEN Append(scoreboard, r[2])
  ELSE scoreboard

AnswersBeforeData(r, req, board) ==
  LET own == Lookup(board, req.line)
  IN \/ IsOwn(r) \/ own = 0
     \/ own # 0 /\ (dma_type[own] = "REQUEST" \/ req.kind = "WRITEPURGE")

\* Whether the snoop is answered now. A request for a line that the device owns
\* or has yet to write back stays at the head of cohqueue.
Answers(r, req, board) ==
  LET own == Lookup(board, req.line)
  IN \/ IsOwn(r) \/ own = 0
     \/ /\ own # 0
        /\ \/ dma[own].kind = "READ_CURRENT" /\ dma_type[own] = "REQUEST"
           \/ req.kind = "WRITEPURGE"

\* A host access at the head of inqueue is performed and handed to the
\* controller; a read comes back through its reply queue. (`snooped` is the request
\* at the head of cohqueue, `isRead` the kind of the access at the head of inqueue.)
HandleInqueue(snooped, isRead) ==
  /\ inq_event
  /\ IF cohqueue = <<>> THEN UNCHANGED <<cohqueue, scoreboard, answered>>
     ELSE LET r     == Head(cohqueue)
              board == BoardAfter(r)
              rc    == Answers(r, snooped, board)
          IN /\ scoreboard' = board
             /\ cohqueue' = IF rc THEN Tail(cohqueue) ELSE cohqueue
             /\ answered' = IF rc THEN answered \cup {r} ELSE answered
  /\ IF inqueue = <<>> THEN UNCHANGED <<log, reply_queue, bus_interface>>
     ELSE LET t == Head(inqueue)
          IN /\ log' = log \o t
             /\ reply_queue' = IF isRead THEN Append(reply_queue, Reply(t)) ELSE reply_queue
             /\ bus_interface' = (bus_interface \/ isRead)
  /\ inqueue' = (IF inqueue = <<>> THEN <<>> ELSE Tail(inqueue))
                  \o (IF inpipe = <<>> THEN <<>> ELSE <<Head(inpipe)>>)
  /\ inpipe' = IF inpipe = <<>> THEN <<>> ELSE Tail(inpipe)
  /\ inq_event' = (inqueue' # <<>> \/ cohqueue' # <<>> \/ inpipe' # <<>>)
  /\ UNCHANGED <<dma, dma_issued, dma_type, outpipe, outqueue, outq_event, writebacks,
                 arbwaiters, arb_slot, dma_queue, interrupt_queue>>

-----------------------------------------------------------------------------
\* The way out.

\* IO_arb_for_bus on the state [slot, waiters]: the entry at the arbitrator if it
\* is free, else the queue behind it, unless that is full.
CanArb(a) == a.slot = NoItem \/ Len(a.waiters) < IO_MAX_TRANS
ArbForBus(a, r) ==
  IF a.slot = NoItem THEN [a EXCEPT !.slot = r]
  ELSE [a EXCEPT !.waiters = Append(@, r)]

\* IO_handle_outqueue: one write-back, one request, one move out of the pipe. The
\* event comes again for the queue and the pipe, not for the write-backs.
HandleOutqueue ==
  /\ outq_event
  /\ LET a0 == [slot |-> arb_slot, waiters |-> arbwaiters]
         wb == writebacks # <<>> /\ CanArb(a0)
         a1 == IF wb THEN ArbForBus(a0, Head(writebacks)) ELSE a0
         rq == outqueue # <<>> /\ CanArb(a1)
         a2 == IF rq THEN ArbForBus(a1, Head(outqueue)) ELSE a1
         rest == IF rq THEN Tail(outqueue) ELSE outqueue
         move == outpipe # <<>> /\ Len(rest) < IO_MAX_TRANS
     IN /\ writebacks' = IF wb THEN Tail(writebacks) ELSE writebacks
        /\ arb_slot' = a2.slot
        /\ arbwaiters' = a2.waiters
        /\ outqueue' = IF move THEN Append(rest, Head(outpipe)) ELSE rest
        /\ outpipe' = IF move THEN Tail(outpipe) ELSE outpipe
  /\ outq_event' = (outqueue' # <<>> \/ outpipe' # <<>>)
  /\ UNCHANGED <<controllerVars, inpipe, inqueue, cohqueue, inq_event, scoreboard, log, answered>>

\* IO_in_master_state: the entry has the bus, the next in the queue takes its place.
LeaveArb ==
  /\ arb_slot' = IF arbwaiters = <<>> THEN NoItem ELSE Head(arbwaiters)
  /\ arbwaiters' = IF arbwaiters = <<>> THEN <<>> ELSE Tail(arbwaiters)

RemoveNewest(d) ==
  LET last == Len(scoreboard)
  IN IF last > 0 /\ d \in {scoreboard[n] : n \in {last}} THEN SubSeq(scoreboard, 1, last - 1)
     ELSE scoreboard

\* IO_scoreboard_remove: the last entry fills the gap.
ScoreboardRemove(d) ==
  IF \A n \in DOMAIN scoreboard : scoreboard[n] # d THEN scoreboard
  ELSE LET n    == CHOOSE i \in DOMAIN scoreboard : scoreboard[i] = d
           last == Len(scoreboard)
       IN SubSeq([scoreboard EXCEPT ![n] = scoreboard[last]], 1, last - 1)

\* IO_get_reply: the data of request d have come. A read ends; a write becomes
\* the write-back of its line.
GetReply(d) ==
  /\ dma_type[d] = "REPLY"
  /\ IF dma[d].kind = "READ_OWN"
     THEN /\ dma_type' = [dma_type EXCEPT ![d] = "WRITEBACK"]
          /\ writebacks' = Append(writebacks, Own(d))
          /\ outq_event' = TRUE
          /\ UNCHANGED scoreboard
     ELSE /\ dma_type' = [dma_type EXCEPT ![d] = "done"]
          /\ scoreboard' = ScoreboardRemove(d)
          /\ UNCHANGED <<writebacks, outq_event>>
  /\ UNCHANGED <<dma, dma_issued, reply_queue, dma_queue, interrupt_queue, bus_interface,
                 inpipe, inqueue, cohqueue, inq_event, outpipe, outqueue, arbwaiters,
                 arb_slot, log, answered>>
=============================================================================
