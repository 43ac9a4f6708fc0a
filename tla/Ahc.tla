--------------------------------- MODULE Ahc ---------------------------------
\* The SCSI host adapter (IO/ahc.c): the sequencer takes command blocks (SCBs)
\* from the input queue, fetches them, sends the command over the SCSI bus and
\* moves the data, one block per DMA request; SCBs that the disk reconnected to
\* queue for the sequencer, complete ones for the host. A polling interval of
\* the sequencer is far shorter than a bus phase.
EXTENDS Integers, Sequences

NoScb == 0

\* An idle SCB, and one in use: the data still to be asked for from memory
\* (dma), to be moved (undone), and the room left in its buffer (room).
FreeScb == [status |-> "INACTIVE", fetched |-> FALSE, dma |-> 0, undone |-> 0, room |-> 0]

AhcInit(commands) ==
  [scb |-> [n \in DOMAIN commands |-> FreeScb], qin |-> <<>>, qout |-> <<>>,
   reconnects |-> <<>>, waiting |-> <<>>, pending |-> NoScb,
   state |-> "IDLE", active |-> NoScb, scheduled |-> FALSE, paused |-> FALSE,
   interrupt |-> FALSE, fault |-> "none"]

Stop(a, what) == [a EXCEPT !.fault = IF @ = "none" THEN what ELSE @]
Step(a) == [a EXCEPT !.scheduled = TRUE]
GoIdle(a) == [a EXCEPT !.state = "IDLE", !.scheduled = TRUE]
Tagged(c) == c.queue # "NONE"

\* The host hands over SCB n (ahc_host_write, QINFIFO).
Enqueue(a, n) == [a EXCEPT !.qin = Append(@, n), !.scheduled = @ \/ ~a.paused]

-----------------------------------------------------------------------------
\* The disk answers (ahc_scsi_response). An untagged answer goes to whatever SCB
\* is in use for that target.
Addressee(a, r, commands) ==
  {n \in DOMAIN a.scb : /\ a.scb[n].status # "INACTIVE"
                        /\ commands[n].target = r.target
                        /\ r.queue = "NONE" \/ n = r.scb}

Response(a, r, reply, commands) ==
  LET S == Addressee(a, r, commands)
      n == CHOOSE m \in S : \A k \in S : m <= k
      again == a.state = "DATA" /\ a.active = n
  IN IF S = {} THEN Stop(a, "response to no SCB")
     ELSE CASE reply = "COMPLETE" -> Step([a EXCEPT !.scb[n].status = "COMPLETE"])
            [] reply \in {"TIMEOUT", "REJECT"} -> [a EXCEPT !.scb[n].status = "ERROR"]
            [] reply = "BUSY" -> [a EXCEPT !.scb[n].status = "BUSY"]
            [] reply \in {"SAVE_DATA_POINTER", "DISCONNECT"} ->
                 [a EXCEPT !.scb[n].status = "DISCONNECT"]
            [] reply = "CONNECT" ->
                 [a EXCEPT !.scb[n].status = "CONNECT",
                            !.scb[n].dma = @ + r.data, !.scb[n].undone = @ + r.data,
                            !.scheduled = @ \/ r.type = "RECONNECT",
                            !.reconnects = IF r.type = "RECONNECT" /\ ~again
                                           THEN Append(@, n) ELSE @]

-----------------------------------------------------------------------------
\* The end of a command (ahc_scsi_complete).
Complete(a, n) ==
  LET status == a.scb[n].status
      a1 == [a EXCEPT !.scb[n] = [FreeScb EXCEPT !.room = a.scb[n].room],
                      !.pending = IF @ = n THEN NoScb ELSE @]
  IN CASE status = "COMPLETE" -> [a1 EXCEPT !.interrupt = TRUE, !.qout = Append(@, n)]
       [] status = "ERROR" -> [a1 EXCEPT !.interrupt = TRUE, !.paused = TRUE]
       [] status = "BUSY" -> [a1 EXCEPT !.qin = <<n>> \o @]

\* SEQ_IDLE: an SCB that was put aside goes back to the input queue; SCBs the
\* disk reconnected to come first, then new ones.
SequencerIdle(a, commands) ==
  LET w == Head(a.waiting)
      a1 == IF a.waiting = <<>> THEN a
            ELSE [a EXCEPT !.waiting = Tail(@),
                           !.qin = IF @ # <<>> /\ Head(@) = w THEN @ ELSE <<w>> \o @]
      n == Head(a1.qin)
  IN IF a.paused THEN [a EXCEPT !.scheduled = FALSE]
     ELSE IF a1.reconnects # <<>>
     THEN [a1 EXCEPT !.state = "DATA", !.active = Head(a1.reconnects), !.reconnects = Tail(@)]
     ELSE IF a1.qin = <<>> \/ (a1.pending # NoScb /\ ~Tagged(commands[n]))
     THEN [a1 EXCEPT !.scheduled = FALSE]
     ELSE [a1 EXCEPT !.state = "COMMAND", !.active = n, !.waiting = Append(@, n),
                     !.scb[n].status = "ACTIVE", !.scb[n].dma = 0, !.scb[n].undone = 1]

\* SEQ_DMA_VECTOR: issue the command, unless the disk reconnected meanwhile.
\* The result is <<adapter, does it send a request>>.
SequencerVector(a, commands) ==
  LET n == a.active
      head == a.qin # <<>> /\ Head(a.qin) = n
  IN IF a.reconnects # <<>> THEN <<GoIdle(a), FALSE>>
     ELSE <<[a EXCEPT !.qin = IF head THEN Tail(@) ELSE @,
                      !.pending = IF head /\ ~Tagged(commands[n]) THEN n ELSE @,
                      !.scb[n].dma = 0, !.scb[n].undone = 0, !.scb[n].room = commands[n].len,
                      !.state = "RESPONSE"], TRUE>>

\* SEQ_COMMAND: with the command there, fetch the scatter list.
SequencerCommand(a, commands) ==
  LET n == a.active
      a1 == [a EXCEPT !.state = "DMA_VECTOR", !.scb[n].fetched = TRUE]
  IN IF ~a.scb[n].fetched /\ commands[n].len > 0
     THEN <<[a1 EXCEPT !.scb[n].undone = 1], FALSE>>
     ELSE SequencerVector(a1, commands)

\* Mutant: the end of the command is seen before the DMA that is left.
SequencerEndFirst(a) ==
  LET n == a.active
      s == a.scb[n]
  IN CASE s.status = "COMPLETE" -> GoIdle(Complete(a, n))
       [] s.status = "DISCONNECT" -> GoIdle(a)
       [] s.status = "CONNECT" /\ s.dma > 0 ->
            [a EXCEPT !.scb[n].dma = @ - 1, !.scb[n].room = @ - 1]
       [] OTHER -> [a EXCEPT !.scheduled = FALSE]

\* SEQ_DATA: one DMA request, or the end of a connection. An SCB that is not in
\* use leaves the sequencer where it is, without an event.
SequencerData(a) ==
  LET n == a.active
      s == a.scb[n]
  IN IF s.dma > 0
     THEN IF s.room = 0 THEN Stop(a, "DMA outside the buffer")
          ELSE [a EXCEPT !.scb[n].dma = @ - 1, !.scb[n].room = @ - 1]
     ELSE CASE s.status = "COMPLETE" -> GoIdle(Complete(a, n))
            [] s.status = "DISCONNECT" -> GoIdle(a)
            [] OTHER -> [a EXCEPT !.scheduled = FALSE]

\* SEQ_RESPONSE: the target has answered the command. No workload of Scsi has an SCB
\* that is freed while the sequencer waits for its answer (INACTIVE).
SequencerResponse(a) ==
  LET n == a.active
      a1 == [a EXCEPT !.waiting = Tail(@)]
  IN CASE a.scb[n].status \in {"ERROR", "BUSY", "COMPLETE"} -> GoIdle(Complete(a1, n))
       [] a.scb[n].status = "DISCONNECT" -> GoIdle(a1)
       [] a.scb[n].status = "CONNECT" -> Step([a1 EXCEPT !.state = "DATA"])
       [] a.scb[n].status = "INACTIVE" -> SequencerData([a1 EXCEPT !.state = "DATA"])

\* A poll that finds nothing to do is no step.
Polls(a) ==
  LET s == a.scb[a.active]
  IN CASE a.state = "IDLE" -> FALSE
       [] a.state \in {"COMMAND", "DMA_VECTOR"} -> s.undone > 0
       [] a.state = "RESPONSE" -> s.status = "ACTIVE"
       [] a.state = "DATA" -> s.dma = 0 /\ (s.undone > 0 \/ s.status = "CONNECT")
=============================================================================
