-------------------------------- MODULE Scsi --------------------------------
\* A host adapter and a disk on a SCSI bus (IO/scsi_bus.c). The driver of the
\* adapter and main memory, which does the DMA, are the environment.
EXTENDS ScsiDisk, Ahc

CONSTANT Workloads  \* sequences of commands of the driver, one SCB for each

VARIABLES
  commands,  \* the commands of this run
  handed,    \* how many of them the driver has handed to the adapter
  result,    \* what the driver knows of each: none, ok or error
  synced,    \* blocks a SYNC has to find on the media when it ends
  ahc, disk,
  phase,     \* the event the bus has scheduled
  slot,      \* the request of the adapter for the bus
  req        \* the request that has the bus

vars == <<commands, handed, result, synced, ahc, disk, phase, slot, req>>
host == <<commands, handed, result, synced>>

Scbs == DOMAIN commands

Init ==
  \E w \in Workloads :
    /\ commands = w /\ handed = 0
    /\ result = [n \in DOMAIN w |-> "none"] /\ synced = [n \in DOMAIN w |-> {}]
    /\ ahc = AhcInit(w) /\ disk = DiskInit
    /\ phase = "idle" /\ slot = NoRequest /\ req = NoRequest

Faultless == ahc.fault = "none" /\ disk.fault = "none"

\* Mutant: a disk that reconnects does not wake the bus.
WokenByTheAdapter(s, d) == IF phase = "idle" /\ s # NoRequest THEN "arbitrate" ELSE phase

\* A device that asks for the bus wakes an idle bus.
Woken(s, d) == IF phase = "idle" /\ (s # NoRequest \/ d.out # <<>>) THEN "arbitrate" ELSE phase

-----------------------------------------------------------------------------
\* The driver.

BlocksOf(n) == commands[n].start .. commands[n].start + commands[n].len - 1
WrittenBy(S) == UNION {BlocksOf(n) : n \in {m \in S : commands[m].op = "WRITE"}}

HandOver ==
  /\ handed < Len(commands)
  /\ handed' = handed + 1
  /\ ahc' = Enqueue(ahc, handed + 1)
  /\ synced' = [synced EXCEPT ![handed + 1] = WrittenBy({n \in Scbs : result[n] = "ok"})]
  /\ UNCHANGED <<commands, result, disk, phase, slot, req>>

\* It clears the interrupt, takes what is complete, and lets the sequencer go on
\* after an error of the SCB that stopped it.
Service ==
  /\ ahc.interrupt
  /\ ahc' = [ahc EXCEPT !.interrupt = FALSE, !.qout = <<>>, !.paused = FALSE,
                        !.scheduled = @ \/ ahc.paused]
  /\ result' = [n \in Scbs |->
                 IF \E i \in DOMAIN ahc.qout : ahc.qout[i] = n THEN "ok"
                 ELSE IF ahc.paused /\ n = ahc.active THEN "error" ELSE result[n]]
  /\ UNCHANGED <<commands, handed, synced, disk, phase, slot, req>>

\* Memory has moved a block (ahc_perform).
Perform ==
  \E n \in Scbs :
    /\ ahc.scb[n].undone > ahc.scb[n].dma
    /\ ahc' = [ahc EXCEPT !.scb[n].undone = @ - 1]
    /\ UNCHANGED <<host, disk, phase, slot, req>>

-----------------------------------------------------------------------------
\* The sequencer of the adapter.

NewRequest(n) ==
  LET c == commands[n]
  IN [op |-> c.op, type |-> c.op, scb |-> n, start |-> c.start, len |-> c.len, imm |-> c.imm,
      queue |-> c.queue, target |-> c.target, current |-> 0, transferred |-> 0,
      segment |-> NoSegment, data |-> 0, bus |-> FALSE, reply |-> "none", early |-> FALSE]

\* The sequencer has seen the last answer: it polls far more often than the bus
\* changes its phase.
Quiet == ahc.state # "RESPONSE" \/ Polls(ahc)

Sequence ==
  /\ ahc.scheduled /\ (ahc.state = "IDLE" \/ ~Polls(ahc))
  /\ CASE ahc.state = "IDLE" -> ahc' = SequencerIdle(ahc, commands) /\ slot' = slot
       [] ahc.state \in {"COMMAND", "DMA_VECTOR"} ->
            LET v == IF ahc.state = "COMMAND" THEN SequencerCommand(ahc, commands)
                     ELSE SequencerVector(ahc, commands)
            IN /\ ahc' = IF v[2] /\ slot # NoRequest THEN Stop(v[1], "command failed") ELSE v[1]
               /\ slot' = IF v[2] THEN NewRequest(ahc.active) ELSE slot
       [] ahc.state = "RESPONSE" -> ahc' = SequencerResponse(ahc) /\ slot' = slot
       [] ahc.state = "DATA" -> ahc' = SequencerData(ahc) /\ slot' = slot
  /\ phase' = Woken(slot', disk)
  /\ UNCHANGED <<host, disk, req>>

-----------------------------------------------------------------------------
\* The bus. The adapter has the highest id and wins every arbitration; a disk
\* that reconnects tells the adapter at once (SCSI_bus_arbitrate).
Arbitrate ==
  /\ phase = "arbitrate" /\ Quiet
  /\ IF slot # NoRequest
     THEN req' = slot /\ slot' = NoRequest /\ phase' = "request" /\ UNCHANGED <<ahc, disk>>
     ELSE IF disk.out # <<>>
     THEN /\ req' = Head(disk.out) /\ phase' = "response"
          /\ disk' = [disk EXCEPT !.out = Tail(@)]
          /\ ahc' = Response(ahc, Head(disk.out), "CONNECT", commands)
          /\ UNCHANGED slot
     ELSE phase' = "idle" /\ UNCHANGED <<ahc, disk, slot, req>>
  /\ UNCHANGED host

\* The command reaches its target, if there is one (SCSI_bus_send_request).
SendRequest ==
  /\ phase = "request"
  /\ LET p == IF req.target = "disk" THEN Request(disk, req)
              ELSE <<disk, [req EXCEPT !.reply = "TIMEOUT"]>>
         connects == p[2].reply \in {"COMPLETE", "SAVE_DATA_POINTER"} /\ p[2].bus
     IN /\ disk' = p[1] /\ req' = p[2]
        /\ ahc' = IF connects THEN Response(ahc, p[2], "CONNECT", commands) ELSE ahc
  /\ phase' = "response"
  /\ UNCHANGED <<host, slot>>

\* A read that asked for the bus early has all its sectors when its transfer is
\* over: the disk estimated that before it asked. It may not if the next read made
\* the disk start it anew meanwhile.
Reading == req.early /\ disk.current # NoRequest /\ disk.current.early /\ disk.current.scb = req.scb

\* The transfer is over (SCSI_bus_send_response).
SendResponse ==
  /\ phase = "response" /\ Quiet /\ ~Reading
  /\ ahc' = Response(ahc, req, req.reply, commands)
  /\ req' = NoRequest /\ phase' = "arbitrate"
  /\ UNCHANGED <<host, disk, slot>>

-----------------------------------------------------------------------------
\* The events of the disk.

DiskStep(d) ==
  /\ disk' = d /\ phase' = Woken(slot, d)
  /\ UNCHANGED <<host, ahc, slot, req>>

RequestEvent == "request" \in disk.events /\ DiskStep(RequestHandler(disk))
SeekEvent    == "seek" \in disk.events /\ DiskStep(SeekHandler(disk))
SectorEvent  ==
  /\ "sector" \in disk.events
  /\ \E early, near \in BOOLEAN : DiskStep(SectorHandler(disk, early, near))

AllDone == \A n \in Scbs : result[n] # "none"
Done == AllDone /\ disk.events = {} /\ UNCHANGED vars

Next ==
  \/ /\ Faultless
     /\ \/ HandOver \/ Service \/ Perform \/ Sequence
        \/ Arbitrate \/ SendRequest \/ SendResponse
        \/ RequestEvent \/ SeekEvent \/ SectorEvent
  \/ Done

-----------------------------------------------------------------------------
\* Simulated time advances and every scheduled event is a finite delay away, so
\* each party whose event is due acts in the end; the driver and memory do too.
Host == HandOver \/ Service
Bus  == Arbitrate \/ SendRequest \/ SendResponse
Disk == RequestEvent \/ SeekEvent \/ SectorEvent

HostDue   == handed < Len(commands) \/ ahc.interrupt
MemoryDue == \E n \in Scbs : ahc.scb[n].undone > ahc.scb[n].dma
AhcDue    == ahc.scheduled /\ (ahc.state = "IDLE" \/ ~Polls(ahc))
BusDue ==
  \/ phase = "request"
  \/ phase = "arbitrate" /\ Quiet
  \/ phase = "response" /\ Quiet /\ ~Reading
DiskDue   == disk.events # {}

\* Weak fairness of each party, with the guard of the party for ENABLED.
Fairness ==
  /\ []<>(~HostDue) \/ []<><<Host>>_vars
  /\ []<>(~MemoryDue) \/ []<><<Perform>>_vars
  /\ []<>(~AhcDue) \/ []<><<Sequence>>_vars
  /\ []<>(~BusDue) \/ []<><<Bus>>_vars
  /\ []<>(~DiskDue) \/ []<><<Disk>>_vars

Spec == Init /\ [][Next]_vars /\ Fairness

-----------------------------------------------------------------------------
TypeOK ==
  /\ handed \in 0 .. Len(commands)
  /\ \A n \in Scbs : result[n] \in {"none", "ok", "error"}
  /\ phase \in {"idle", "arbitrate", "request", "response"}
  /\ ahc.state \in {"IDLE", "COMMAND", "DMA_VECTOR", "RESPONSE", "DATA"}
  /\ disk.state \in {"IDLE", "SEEK", "TRANSFER"}
  /\ disk.events \subseteq {"request", "seek", "sector"}
  /\ \A n \in Index : disk.cache[n].lru \in 0 .. Segments - 1

\* No step ends the simulation or leaves the arrays: every response finds its
\* SCB, no DMA goes past the buffer of the command, every block finds a cache
\* segment, and no reply of the disk is lost.
NoFault == TypeOK /\ Faultless

\* The adapter reports a command complete when all its data have moved, neither
\* more nor less, however the disk split the transfer.
CompleteCommandsMovedTheirData ==
  \A n \in Scbs : (result[n] = "ok" \/ \E i \in DOMAIN ahc.qout : ahc.qout[i] = n)
                    => ahc.scb[n].room = 0

\* The blocks of a complete write are on the media, unless it is one the disk
\* may acknowledge early.
CompleteWritesAreOnTheMedia ==
  WrittenBy({n \in Scbs : result[n] = "ok" /\ ~(fast_writes /\ commands[n].imm)})
    \subseteq disk.media

\* A complete SYNC has brought to the media every write that was complete when
\* the driver issued it.
SyncFlushesCompleteWrites ==
  \A n \in Scbs : commands[n].op = "SYNC" /\ ~commands[n].imm /\ result[n] = "ok"
                    => synced[n] \subseteq disk.media

\* What the driver is told is complete is on the media, at once or after a SYNC.
WritesReachTheMedia == CompleteWritesAreOnTheMedia /\ SyncFlushesCompleteWrites

\* Every command comes to an end.
EveryCommandEnds == <>AllDone
=============================================================================
