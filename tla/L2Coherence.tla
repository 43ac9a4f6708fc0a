---------------------------- MODULE L2Coherence ----------------------------
(***************************************************************************)
(* The snooping L2 caches of one node, the bus they share and the          *)
(* coherence scoreboard of the memory controller (Caches/l2cache.c,        *)
(* Caches/cache_bus.c, Caches/cache_wb.c, Memory/mmc_bus.c), with a        *)
(* write-through L1 (L1D_writeback = 0), the mode in which the L2 tag      *)
(* array answers every snoop itself.                                       *)
(*                                                                         *)
(* A request is named by the pair <<cpu, line>>: a cache has at most one   *)
(* MSHR per line, and the request lives as long as its MSHR.  The fields   *)
(* of REQ and of MSHR are therefore one record.  All lines fall in one     *)
(* set.  A queue and the tag pipeline it feeds are one FIFO.               *)
(***************************************************************************)
EXTENDS Naturals, Sequences, FiniteSets

CONSTANTS
  CPUs, Lines, Ways, None,
  Issue,              \* <<cpu, operation, line>>: what the processors may ask for
  Window,             \* bound: operations a processor has in the caches at a time
  WBUF,               \* ARCH_wbufsz
  L2_REQQ,            \* L2_REQUEST_QUEUE_SIZE with the request tag pipe
  MSHRS,              \* max_mshrs
  MAX_COALS,          \* Cache_mshr_coal
  DATA_STAGES,        \* stages of the data pipe
  REQUEST_BUFFER,     \* REQUEST_BUFFER_SIZE
  OUT_BUFFER,         \* OUT_BUFFER_SIZE
  BUS_TOTAL_REQUESTS

Op      == {"READ", "WRITE", "FLUSHC", "PURGEC"}   \* RMW behaves as WRITE here
Request == CPUs \X Lines

ASSUME ConstantsAssumption ==
  /\ Issue \subseteq CPUs \X Op \X Lines
  /\ IsFiniteSet(CPUs) /\ IsFiniteSet(Lines)
  /\ None \notin CPUs \cup Lines \cup Request \cup Ways
  /\ {"install", "reply"} \cap Lines = {} /\ "MMC" \notin CPUs
  /\ {Window, WBUF, L2_REQQ, MSHRS, MAX_COALS, DATA_STAGES, REQUEST_BUFFER, OUT_BUFFER,
      BUS_TOTAL_REQUESTS} \subseteq Nat \ {0}

VARIABLES
  wbuf,      \* write buffer: [line, pend] with pend = wb_cohe_pending
  reqq,      \* L2 request queue and tag pipe: [op, line, todo]
  tags,      \* the tag array: [tag, state, mshr_out]
  mshr,      \* MSHRs with the request each one has outstanding
  coheq,     \* cohe_queue and its tag pipe: the requests still to snoop
  replyq,    \* reply_queue and its tag pipe: [line, todo]
  dpipe,     \* the data pipe: [kind, line, to]
  dcp,       \* data_cohe_pending
  sif,       \* the system interface: buffers towards the bus and stall counters
  mmcq,      \* replies of the memory controller waiting for the bus
  bus,       \* [winner, cur, req_count, mmc_master]: next_winner, cur_req, req_count,
             \* and whether the MMC was the last to win arbitration
  error      \* the impossible situations met so far

vars == <<wbuf, reqq, tags, mshr, coheq, replyq, dpipe, dcp, sif, mmcq, bus, error>>

-----------------------------------------------------------------------------
(* Values *)

LineState == {"INVALID", "SH_CL", "PR_CL", "PR_DY"}
Phase     == {"arb",   \* in the request buffer, not yet on the bus
              "out",   \* started on the bus: it counts in req_count
              "mem",   \* reply handed to the bus interface of the MMC
              "done"}  \* in the reply queue of its cache or behind it

\* What L2Cache_check_mshr and MMC_recv_request write into a fresh MSHR.
FreeMSHR == [valid |-> FALSE, main |-> "READ", coal |-> <<>>, type |-> "READ_SH",
             misscache |-> 2, way |-> None, has_writes |-> FALSE, stall_WAR |-> FALSE,
             pend_opers |-> None, pending_cohe |-> None, releasing |-> FALSE,
             issued |-> FALSE, phase |-> "arb", cohe_count |-> 0, cohe_type |-> "REPLY_EXCL",
             c2c_copy |-> FALSE, data_rtn |-> FALSE, data_done |-> FALSE, memtrans |-> "none"]

EmptyLine == [tag |-> None, state |-> "INVALID", mshr_out |-> FALSE]

IdleInterface == [reqbuffer |-> {}, pending_request |-> None, outbuffer |-> <<>>,
                  pending_writeback |-> None, cohe_reply |-> None,
                  slot |-> None, arbwaiters |-> <<>>,
                  stall_request |-> 0, stall_reply |-> 0, stall_cohe |-> 0]

IdleBus == [winner |-> None, cur |-> None, req_count |-> 0, mmc_master |-> FALSE]

Init ==
  /\ wbuf   = [c \in CPUs |-> <<>>]
  /\ reqq   = [c \in CPUs |-> <<>>]
  /\ tags   = [c \in CPUs |-> [w \in Ways |-> EmptyLine]]
  /\ mshr   = [r \in Request |-> FreeMSHR]
  /\ coheq  = [c \in CPUs |-> <<>>]
  /\ replyq = [c \in CPUs |-> <<>>]
  /\ dpipe  = [c \in CPUs |-> <<>>]
  /\ dcp    = [c \in CPUs |-> None]
  /\ sif    = [c \in CPUs |-> IdleInterface]
  /\ mmcq   = <<>>
  /\ bus    = IdleBus
  /\ error  = {}

-----------------------------------------------------------------------------
(* The system interface: waiting for the bus *)

Transaction(type, r) == [type |-> type, req |-> r]

\* Cache_arb_for_bus: arbwaiters_count > 0 exactly when an earlier transaction
\* of this cache sits in the bus slot or has won the bus and not yet started.
ArbForBus(s, c, t) ==
  IF s.slot = None /\ (bus.winner = None \/ bus.winner.who # c)
  THEN [s EXCEPT !.slot = t]
  ELSE IF t.type = "COHE_REPLY" /\ s.slot # None
       THEN [s EXCEPT !.slot = t, !.arbwaiters = <<s.slot>> \o @]
       ELSE [s EXCEPT !.arbwaiters = Append(@, t)]

\* Cache_start_send_to_bus, one operator per request type.
StartRequest(s, r) ==
  IF Cardinality(s.reqbuffer) = REQUEST_BUFFER
  THEN [s EXCEPT !.pending_request = r, !.stall_request = @ + 1]
  ELSE ArbForBus([s EXCEPT !.reqbuffer = @ \cup {r}], r[1], Transaction("REQUEST", r))

StartWriteback(s, c, l) ==
  IF Len(s.outbuffer) = OUT_BUFFER
  THEN [s EXCEPT !.pending_writeback = l, !.stall_reply = @ + 1, !.stall_cohe = @ + 1]
  ELSE ArbForBus([s EXCEPT !.outbuffer = Append(@, l)], c, Transaction("WRITEBACK", <<c, l>>))

StartCoheReply(s, c, r) ==
  ArbForBus([s EXCEPT !.cohe_reply = r], c, Transaction("COHE_REPLY", r))

-----------------------------------------------------------------------------
(* Completing a request.  These handlers call one another, so each one maps *)
(* the part of the state they share to its next value.                      *)

Shared == [mshr |-> mshr, sif |-> sif, replyq |-> replyq, mmcq |-> mmcq, bus |-> bus]

\* An MSHR that waited for request r to complete waits no longer.
KeepsWaiting(m, r) == m
Unstalled(m, r)    == [m EXCEPT !.pending_cohe = IF @ = r THEN None ELSE @]

\* Cache_get_reply: the MSHRs stalled by this request are released, the request
\* moves to the reply queue and the pending request takes its buffer.
CacheGetReply(S, r) ==
  LET c     == r[1]
      freed == [S.sif[c] EXCEPT !.reqbuffer = @ \ {r}]
      next  == freed.pending_request
  IN [S EXCEPT
       !.mshr = [q \in Request |-> [Unstalled(S.mshr[q], r) EXCEPT
                                      !.phase = IF q = r THEN "done" ELSE @]],
       !.replyq[c] = Append(@, [line |-> r[2], todo |-> "install"]),
       !.sif[c] = IF next = None THEN freed
                  ELSE ArbForBus([freed EXCEPT !.pending_request = None,
                                               !.stall_request = @ - 1,
                                               !.reqbuffer = @ \cup {next}],
                                 c, Transaction("REQUEST", next))]

\* MMC_send_reply: an UPGRADE answered by a cache-to-cache copy becomes a data
\* reply and waits for the copy; any other UPGRADE, and a request whose data
\* came from a cache, completes at once; memory data goes to the bus.
MMCSendReply(S, r) ==
  LET m == S.mshr[r]
  IN IF m.type = "UPGRADE" /\ m.c2c_copy
     THEN [S EXCEPT !.mshr[r].type = m.cohe_type]
     ELSE IF m.type = "UPGRADE"
     THEN CacheGetReply([S EXCEPT !.mshr[r].c2c_copy = TRUE, !.mshr[r].type = m.cohe_type,
                                  !.bus.req_count = @ - 1], r)
     ELSE IF m.c2c_copy
     THEN CacheGetReply([S EXCEPT !.mshr[r].type = m.cohe_type], r)
     ELSE [S EXCEPT !.mshr[r].type = m.cohe_type, !.mshr[r].phase = "mem",
                    !.mmcq = Append(@, r)]

Stronger(a, b) == IF "REPLY_SH" \in {a, b} THEN "REPLY_SH" ELSE "REPLY_EXCL"

\* The last report completes an UPGRADE, or a request whose data memory has read;
\* a request answered by a copy completes when the copy arrives.
LastReportCompletes(m) ==
  m.cohe_count = 0 /\ ((m.data_rtn /\ ~m.c2c_copy) \/ m.type = "UPGRADE")

\* MMC_recv_cohe_response.
MMCRecvCoheResponse(S, r, state) ==
  LET m == [S.mshr[r] EXCEPT !.cohe_count = @ - 1, !.cohe_type = Stronger(@, state)]
      T == [S EXCEPT !.mshr[r] = m]
  IN IF LastReportCompletes(m) THEN MMCSendReply(T, r) ELSE T

Becomes(S) ==
  /\ mshr' = S.mshr /\ sif' = S.sif /\ replyq' = S.replyq /\ mmcq' = S.mmcq /\ bus' = S.bus

-----------------------------------------------------------------------------
(* The tag array *)

\* Cache_search: 0 hit, 1 present miss, 2 total miss.
WaysOf(c, l)    == {w \in Ways : tags[c][w].tag = l}
WayOf(c, l)     == CHOOSE w \in WaysOf(c, l) : TRUE
CacheSearch(c, l) == IF WaysOf(c, l) = {} THEN 2
                     ELSE IF tags[c][WayOf(c, l)].state = "INVALID" THEN 1 ELSE 0
StateOf(c, l)   == IF CacheSearch(c, l) = 0 THEN tags[c][WayOf(c, l)].state ELSE "INVALID"

\* Cache_miss_update: the victim is an invalid way if one is unlocked, then a
\* shared, a private clean, a dirty one; ages are left open within a class.
Class(s) == [state \in LineState |->
               CASE state = "INVALID" -> 0 [] state = "SH_CL" -> 1
                 [] state = "PR_CL" -> 2 [] state = "PR_DY" -> 3][s]
Unlocked(c) == {w \in Ways : ~tags[c][w].mshr_out}
Victims(c)  == {w \in Unlocked(c) :
                  \A v \in Unlocked(c) : Class(tags[c][w].state) <= Class(tags[c][v].state)}

DataPipeHasRoom(c) == Len(dpipe[c]) < DATA_STAGES      \* AddToPipe
DataItem(kind, l, to) == [kind |-> kind, line |-> l, to |-> to]

-----------------------------------------------------------------------------
(* L1DCacheWBufferSim: one buffered write moves to the L2 request queue, then *)
(* the operation at the head of the input queue is taken.  The read stall on  *)
(* a match works on L1 lines, which are smaller than L2 lines: a read of the  *)
(* same L2 line may or may not be held back.                                  *)

\* A write that held back snoops has reached L2.
DrainedSilently(s, write) == s
Drained(s, write) == IF write.pend THEN [s EXCEPT !.stall_cohe = @ - 1] ELSE s

InMSHR(c, l)  == IF mshr[<<c, l>>].valid THEN 1 + Len(mshr[<<c, l>>].coal) ELSE 0
InFlight(c)   == Len(wbuf[c]) + Len(reqq[c])
                 + Cardinality(UNION {{l} \X (1 .. InMSHR(c, l)) : l \in Lines})
MayIssue(c, op, l) == <<c, op, l>> \in Issue /\ InFlight(c) < Window

L1DCacheWBufferSim(c, op, l) ==
  LET drain == wbuf[c] # <<>> /\ Len(reqq[c]) < L2_REQQ
      w     == IF drain THEN Tail(wbuf[c]) ELSE wbuf[c]
      item(o, x) == [op |-> o, line |-> x, todo |-> "tag"]
      q     == IF drain THEN Append(reqq[c], item("WRITE", Head(wbuf[c]).line)) ELSE reqq[c]
  IN /\ \/ /\ op = None
           /\ drain
           /\ wbuf' = [wbuf EXCEPT ![c] = w]
           /\ reqq' = [reqq EXCEPT ![c] = q]
        \/ /\ MayIssue(c, op, l)
           /\ op = "WRITE"
           /\ Len(w) < WBUF
           /\ wbuf' = [wbuf EXCEPT ![c] = Append(w, [line |-> l, pend |-> FALSE])]
           /\ reqq' = [reqq EXCEPT ![c] = q]
        \/ /\ MayIssue(c, op, l)
           /\ op # "WRITE"
           /\ Len(q) < L2_REQQ
           /\ wbuf' = [wbuf EXCEPT ![c] = w]
           /\ reqq' = [reqq EXCEPT ![c] = Append(q, item(op, l))]
     /\ sif' = IF drain THEN [sif EXCEPT ![c] = Drained(@, Head(wbuf[c]))] ELSE sif
     /\ UNCHANGED <<tags, mshr, coheq, replyq, dpipe, dcp, mmcq, bus, error>>

-----------------------------------------------------------------------------
(* The request tag pipe: L2ProcessTagRequest, L2Cache_check_mshr,           *)
(* L2ProcessFlushPurge.  A request whose tag access is over but which finds *)
(* the data pipe full keeps its place with its "progress" in todo.          *)

RequestAtTag(c, todo) == /\ reqq[c] # <<>>
                         /\ sif[c].stall_request = 0
                         /\ Head(reqq[c]).todo = todo

\* Head request goes to the data pipe as an item of this kind, now or later.
ToDataPipe(c, kind) ==
  IF DataPipeHasRoom(c)
  THEN /\ dpipe' = [dpipe EXCEPT ![c] = Append(@, DataItem(kind, Head(reqq[c]).line, None))]
       /\ reqq'  = [reqq EXCEPT ![c] = Tail(@)]
  ELSE /\ reqq'  = [reqq EXCEPT ![c][1].todo = kind]
       /\ UNCHANGED dpipe

TagRequestRetry(c) ==
  /\ \E kind \in {"HIT", "WB"} : RequestAtTag(c, kind) /\ ToDataPipe(c, kind)
  /\ DataPipeHasRoom(c)
  /\ UNCHANGED <<wbuf, tags, mshr, coheq, replyq, dcp, sif, mmcq, bus, error>>

TagRequestHit(c) ==
  /\ RequestAtTag(c, "tag")
  /\ LET l == Head(reqq[c]).line
         w == WayOf(c, l)
     IN /\ Head(reqq[c]).op \in {"READ", "WRITE"}
        /\ ~mshr[<<c, l>>].valid
        /\ CacheSearch(c, l) = 0
        /\ Head(reqq[c]).op = "READ" \/ tags[c][w].state # "SH_CL"
        /\ tags' = IF Head(reqq[c]).op = "WRITE" THEN [tags EXCEPT ![c][w].state = "PR_DY"]
                   ELSE tags
        /\ ToDataPipe(c, "HIT")
  /\ UNCHANGED <<wbuf, mshr, coheq, replyq, dcp, sif, mmcq, bus, error>>

\* A free MSHR is taken; the request enters the system interface.
NewMSHR(c, op, l) ==
  LET miss == CacheSearch(c, l)
  IN [FreeMSHR EXCEPT
        !.valid = TRUE, !.main = op, !.misscache = miss,
        !.way = (IF miss = 2 THEN None ELSE WayOf(c, l)),
        !.has_writes = (op # "READ"),
        !.type = IF miss = 0 THEN "UPGRADE" ELSE IF op = "READ" THEN "READ_SH" ELSE "READ_OWN"]

TagRequestMiss(c) ==
  /\ RequestAtTag(c, "tag")
  /\ LET l == Head(reqq[c]).line
         op == Head(reqq[c]).op
     IN /\ op \in {"READ", "WRITE"}
        /\ ~mshr[<<c, l>>].valid
        /\ CacheSearch(c, l) = 0 => op = "WRITE" /\ StateOf(c, l) = "SH_CL"
        /\ Cardinality({k \in Lines : mshr[<<c, k>>].valid}) < MSHRS
        /\ mshr' = [mshr EXCEPT ![<<c, l>>] = NewMSHR(c, op, l)]
        /\ tags' = IF CacheSearch(c, l) = 0
                   THEN [tags EXCEPT ![c][WayOf(c, l)].mshr_out = TRUE] ELSE tags
        /\ sif' = [sif EXCEPT ![c] = StartRequest(@, <<c, l>>)]
  /\ reqq' = [reqq EXCEPT ![c] = Tail(@)]
  /\ UNCHANGED <<wbuf, coheq, replyq, dpipe, dcp, mmcq, bus, error>>

\* A write meeting an MSHR opened by a read: MSHR_STALL_WAR, which also holds
\* back everything that follows until the MSHR is released.
WriteAfterRead(c, op, l) == op = "WRITE" /\ mshr[<<c, l>>].main = "READ"

TagRequestStallWAR(c) ==
  /\ RequestAtTag(c, "tag")
  /\ LET l == Head(reqq[c]).line
         m == mshr[<<c, l>>]
     IN /\ m.valid /\ m.pend_opers = None /\ ~m.releasing /\ ~m.stall_WAR
        /\ WriteAfterRead(c, Head(reqq[c]).op, l)
        /\ mshr' = [mshr EXCEPT ![<<c, l>>].stall_WAR = TRUE]
  /\ UNCHANGED <<wbuf, reqq, tags, coheq, replyq, dpipe, dcp, sif, mmcq, bus, error>>

\* MSHR_COAL.  has_writes is recomputed from req_type, which is never WRITE or
\* RMW here (the processor's operation is in prcr_req_type): it is cleared.
HasWritesAfterCoalescing(m, op) == FALSE

TagRequestCoalesce(c) ==
  /\ RequestAtTag(c, "tag")
  /\ LET l  == Head(reqq[c]).line
         op == Head(reqq[c]).op
         m  == mshr[<<c, l>>]
     IN /\ op \in {"READ", "WRITE"}
        /\ m.valid /\ m.pend_opers = None /\ ~m.releasing /\ ~m.stall_WAR
        /\ ~WriteAfterRead(c, op, l)
        /\ Len(m.coal) < MAX_COALS - 1
        /\ mshr' = [mshr EXCEPT ![<<c, l>>].coal = Append(@, op),
                                ![<<c, l>>].has_writes = HasWritesAfterCoalescing(m, op)]
  /\ reqq' = [reqq EXCEPT ![c] = Tail(@)]
  /\ UNCHANGED <<wbuf, tags, coheq, replyq, dpipe, dcp, sif, mmcq, bus, error>>

\* L2ProcessFlushPurge.
FlushPurge(c) ==
  /\ RequestAtTag(c, "tag")
  /\ LET l  == Head(reqq[c]).line
         op == Head(reqq[c]).op
     IN /\ op \in {"FLUSHC", "PURGEC"}
        /\ \/ /\ mshr[<<c, l>>].valid
              /\ mshr' = [mshr EXCEPT ![<<c, l>>].pend_opers = op]
              /\ reqq' = [reqq EXCEPT ![c] = Tail(@)]
              /\ UNCHANGED <<tags, dpipe>>
           \/ /\ ~mshr[<<c, l>>].valid
              /\ tags' = IF CacheSearch(c, l) = 0
                         THEN [tags EXCEPT ![c][WayOf(c, l)].state = "INVALID",
                                           ![c][WayOf(c, l)].tag = None]
                         ELSE tags
              /\ IF op = "FLUSHC" /\ StateOf(c, l) = "PR_DY"
                 THEN ToDataPipe(c, "WB")
                 ELSE reqq' = [reqq EXCEPT ![c] = Tail(@)] /\ UNCHANGED dpipe
              /\ UNCHANGED mshr
  /\ UNCHANGED <<wbuf, coheq, replyq, dcp, sif, mmcq, bus, error>>

-----------------------------------------------------------------------------
(* The reply tag pipe: L2ProcessTagReply.  The line is installed first, then *)
(* the victim's write-back and the reply go down the data pipe, each when    *)
(* there is room; todo names what is left.                                   *)

ReplyAtTag(c, todo) == replyq[c] # <<>> /\ sif[c].stall_reply = 0 /\ Head(replyq[c]).todo = todo

\* State of an installed line: REPLY_SH installs shared, everything else private.
InstalledState(m) == IF m.has_writes THEN "PR_DY"
                     ELSE IF m.type = "REPLY_SH" THEN "SH_CL" ELSE "PR_CL"

\* A present miss returns to its own way whatever happened to it meanwhile;
\* a total miss takes a victim, and waits when every way is locked.
FillWays(c, m) == IF m.misscache = 1 THEN {m.way} ELSE Victims(c)

TagReplyInstall(c) ==
  /\ ReplyAtTag(c, "install")
  /\ LET l == Head(replyq[c]).line
         m == mshr[<<c, l>>]
     IN \/ /\ m.misscache = 0
           /\ tags' = [tags EXCEPT ![c][m.way].state = "PR_DY", ![c][m.way].mshr_out = FALSE]
           /\ replyq' = [replyq EXCEPT ![c][1].todo = "reply"]
           /\ UNCHANGED mshr
        \/ /\ m.misscache # 0
           /\ \E w \in FillWays(c, m) :
                /\ tags' = [tags EXCEPT ![c][w].tag = l, ![c][w].state = InstalledState(m)]
                /\ mshr' = [mshr EXCEPT ![<<c, l>>].way = w]
                /\ replyq' = [replyq EXCEPT ![c][1].todo =
                     IF tags[c][w].state = "PR_DY" THEN tags[c][w].tag ELSE "reply"]
  /\ UNCHANGED <<wbuf, reqq, coheq, dpipe, dcp, sif, mmcq, bus, error>>

\* todo is the victim line still to be written back.
TagReplyWriteback(c) ==
  /\ \E l \in Lines :
       /\ ReplyAtTag(c, l)
       /\ DataPipeHasRoom(c)
       /\ dpipe' = [dpipe EXCEPT ![c] = Append(@, DataItem("WB", l, None))]
  /\ replyq' = [replyq EXCEPT ![c][1].todo = "reply"]
  /\ UNCHANGED <<wbuf, reqq, tags, mshr, coheq, dcp, sif, mmcq, bus, error>>

TagReplyRelease(c) ==
  /\ ReplyAtTag(c, "reply")
  /\ DataPipeHasRoom(c)
  /\ LET l == Head(replyq[c]).line
     IN /\ dpipe' = [dpipe EXCEPT ![c] = Append(@, DataItem("REPLY", l, None))]
        /\ mshr' = [mshr EXCEPT ![<<c, l>>].releasing = TRUE]
  /\ replyq' = [replyq EXCEPT ![c] = Tail(@)]
  /\ UNCHANGED <<wbuf, reqq, tags, coheq, dcp, sif, mmcq, bus, error>>

-----------------------------------------------------------------------------
(* The data pipe: L2ProcessDataReq.  L1 takes every reply it is given.      *)

DataHead(c, kind) == dpipe[c] # <<>> /\ Head(dpipe[c]).kind = kind
PopData(c) == dpipe' = [dpipe EXCEPT ![c] = Tail(@)]

DataHit(c) ==
  /\ DataHead(c, "HIT")
  /\ PopData(c)
  /\ UNCHANGED <<wbuf, reqq, tags, mshr, coheq, replyq, dcp, sif, mmcq, bus, error>>

\* The requests of the MSHR are released, a flush or purge that merged with it
\* takes effect, and the MSHR is freed.  A write-back that finds no room at
\* all stays at the head of the data pipe.
DataReply(c) ==
  /\ DataHead(c, "REPLY")
  /\ LET l     == Head(dpipe[c]).line
         m     == mshr[<<c, l>>]
         dirty == m.pend_opers = "FLUSHC" /\ tags[c][m.way].state = "PR_DY"
         wb    == tags[c][m.way].tag
         stuck == Len(sif[c].outbuffer) = OUT_BUFFER /\ sif[c].pending_writeback # None
     IN /\ tags' = IF m.pend_opers # None /\ tags[c][m.way].state # "INVALID"
                   THEN [tags EXCEPT ![c][m.way].state = "INVALID", ![c][m.way].tag = None]
                   ELSE tags
        /\ mshr' = [mshr EXCEPT ![<<c, l>>] = FreeMSHR]
        /\ IF dirty /\ stuck
           THEN dpipe' = [dpipe EXCEPT ![c][1] = DataItem("WB", wb, None)] /\ UNCHANGED sif
           ELSE /\ PopData(c)
                /\ sif' = IF dirty THEN [sif EXCEPT ![c] = StartWriteback(@, c, wb)] ELSE sif
  /\ UNCHANGED <<wbuf, reqq, coheq, replyq, dcp, mmcq, bus, error>>

DataCacheToCache(c) ==
  /\ DataHead(c, "C2C")
  /\ sif[c].cohe_reply = None
  /\ sif' = [sif EXCEPT ![c] = StartCoheReply(@, c, <<Head(dpipe[c]).to, Head(dpipe[c]).line>>)]
  /\ PopData(c)
  /\ UNCHANGED <<wbuf, reqq, tags, mshr, coheq, replyq, dcp, mmcq, bus, error>>

DataWriteback(c) ==
  /\ DataHead(c, "WB")
  /\ sif[c].pending_writeback = None
  /\ sif' = [sif EXCEPT ![c] = StartWriteback(@, c, Head(dpipe[c]).line)]
  /\ PopData(c)
  /\ UNCHANGED <<wbuf, reqq, tags, mshr, coheq, replyq, dcp, mmcq, bus, error>>

\* L2CacheInSim: a cache-to-cache copy left aside enters the data pipe.
RetryDataCohePending(c) ==
  /\ dcp[c] # None
  /\ DataPipeHasRoom(c)
  /\ dpipe' = [dpipe EXCEPT ![c] = Append(@, DataItem("C2C", dcp[c][2], dcp[c][1]))]
  /\ dcp' = [dcp EXCEPT ![c] = None]
  /\ UNCHANGED <<wbuf, reqq, tags, mshr, coheq, replyq, sif, mmcq, bus, error>>

-----------------------------------------------------------------------------
(* The coherence tag pipe: L2ProcessTagCohe.  Snoops are answered in bus     *)
(* order; the one at the head may stall the pipe.                            *)

SnoopAtTag(c) == coheq[c] # <<>> /\ sif[c].stall_cohe = 0 /\ sif[c].cohe_reply = None
PopSnoop(c)   == coheq' = [coheq EXCEPT ![c] = Tail(@)]

\* The cache's own request keeps the order: it is issued here, and waits here
\* while its MSHR still has an earlier foreign request pending.
SnoopOwn(c) ==
  /\ SnoopAtTag(c)
  /\ LET r == Head(coheq[c])
     IN /\ r[1] = c
        /\ \/ /\ mshr[r].pending_cohe # None
              /\ ~mshr[r].issued
              /\ mshr' = [mshr EXCEPT ![r].issued = TRUE]
              /\ UNCHANGED <<coheq, replyq, sif, mmcq, bus>>
           \/ /\ mshr[r].pending_cohe = None
              /\ Becomes(MMCRecvCoheResponse(
                   [Shared EXCEPT !.mshr[r].issued = TRUE, !.mshr[r].pending_cohe = r],
                   r, "REPLY_EXCL"))
              /\ PopSnoop(c)
  /\ UNCHANGED <<wbuf, reqq, tags, dpipe, dcp, error>>

WriteBufferMatches(c, l) == {n \in 1 .. Len(wbuf[c]) : wbuf[c][n].line = l}

\* A buffered write of the line stalls the pipe until it has reached L2.
SnoopStallOnWriteBuffer(c) ==
  /\ SnoopAtTag(c)
  /\ LET r == Head(coheq[c])
         N == WriteBufferMatches(c, r[2])
     IN /\ r[1] # c
        /\ N # {}
        /\ LET n == CHOOSE n \in N : \A k \in N : n <= k
           IN wbuf' = [wbuf EXCEPT ![c][n].pend = TRUE]
        /\ sif' = [sif EXCEPT ![c].stall_cohe = @ + 1]
  /\ UNCHANGED <<reqq, tags, mshr, coheq, replyq, dpipe, dcp, mmcq, bus, error>>

\* Cache_check_outbuffer.
LeavingL2(c, l) == \/ \E n \in 1 .. Len(sif[c].outbuffer) : sif[c].outbuffer[n] = l
                   \/ sif[c].pending_writeback = l

\* An MSHR for the line takes note of the first foreign request; the pipe
\* stalls until it is freed if its own request has been issued.
StalledByFilledMSHR(c, l) == mshr[<<c, l>>].valid /\ mshr[<<c, l>>].phase = "done"
StalledByMSHR(c, l) == mshr[<<c, l>>].valid /\ mshr[<<c, l>>].issued
MSHRTakesNote(c, r) ==
  IF mshr[<<c, r[2]>>].valid /\ mshr[<<c, r[2]>>].pending_cohe = None
  THEN [mshr EXCEPT ![<<c, r[2]>>].pending_cohe = r] ELSE mshr

ReachesMSHR(c) ==
  /\ SnoopAtTag(c)
  /\ Head(coheq[c])[1] # c
  /\ WriteBufferMatches(c, Head(coheq[c])[2]) = {}
  /\ ~LeavingL2(c, Head(coheq[c])[2])

SnoopStallOnMSHR(c) ==
  /\ ReachesMSHR(c)
  /\ StalledByMSHR(c, Head(coheq[c])[2])
  /\ mshr' = MSHRTakesNote(c, Head(coheq[c]))
  /\ mshr' # mshr
  /\ UNCHANGED <<wbuf, reqq, tags, coheq, replyq, dpipe, dcp, sif, mmcq, bus, error>>

\* The state a valid line is left in by a request of this type, and the report.
StateAfterRead(type)  == IF type \in {"READ_SH", "UPGRADE"} THEN "SH_CL" ELSE "INVALID"
StateAfterSnoop(type) == IF type = "READ_SH" THEN "SH_CL" ELSE "INVALID"
Report(state)         == IF state = "SH_CL" THEN "REPLY_SH" ELSE "REPLY_EXCL"

\* The report goes to the MMC before the copy of a dirty line enters the data
\* pipe, or data_cohe_pending when there is no room.
SnoopAnswer(c) ==
  /\ ReachesMSHR(c)
  /\ LET r     == Head(coheq[c])
         l     == r[2]
         w     == WayOf(c, l)
         after == StateAfterSnoop(mshr[r].type)
         dirty == StateOf(c, l) = "PR_DY"
         noted == [Shared EXCEPT !.mshr = MSHRTakesNote(c, r)]
     IN /\ ~StalledByMSHR(c, l)
        /\ IF CacheSearch(c, l) # 0
           THEN /\ Becomes(MMCRecvCoheResponse(noted, r, "REPLY_EXCL"))
                /\ UNCHANGED <<tags, dpipe, dcp, error>>
           ELSE /\ tags' = [tags EXCEPT ![c][w].state = after]
                /\ Becomes(MMCRecvCoheResponse(
                     IF dirty THEN [noted EXCEPT !.mshr[r].c2c_copy = TRUE] ELSE noted,
                     r, Report(after)))
                /\ IF dirty /\ DataPipeHasRoom(c)
                   THEN /\ dpipe' = [dpipe EXCEPT ![c] = Append(@, DataItem("C2C", l, r[1]))]
                        /\ UNCHANGED <<dcp, error>>
                   ELSE IF dirty
                   THEN /\ dcp' = [dcp EXCEPT ![c] = r]
                        /\ error' = IF dcp[c] # None
                                    THEN error \cup {"two data_cohe_pendings"} ELSE error
                        /\ UNCHANGED dpipe
                   ELSE UNCHANGED <<dpipe, dcp, error>>
  /\ PopSnoop(c)
  /\ UNCHANGED <<wbuf, reqq>>

-----------------------------------------------------------------------------
(* The bus.  Here arbitration order and cycle counts are left open (module   *)
(* Bus has them): any eligible waiter may win.                               *)

MMC == "MMC"

\* Bus_arbitrator: requests wait while BUS_TOTAL_REQUESTS are outstanding.
Eligible(t) == t # None /\ (t.type = "REQUEST" => bus.req_count < BUS_TOTAL_REQUESTS)

Arbitrate(c) ==
  /\ bus.winner = None
  /\ Eligible(sif[c].slot)
  /\ bus' = [bus EXCEPT !.winner = [who |-> c, t |-> sif[c].slot]]
  /\ sif' = [sif EXCEPT ![c].slot = None]
  /\ UNCHANGED <<wbuf, reqq, tags, mshr, coheq, replyq, dpipe, dcp, mmcq, error>>

ArbitrateMMC ==
  /\ bus.winner = None
  /\ mmcq # <<>>
  /\ bus' = [bus EXCEPT !.winner = [who |-> MMC, t |-> Transaction("REPLY", Head(mmcq))]]
  /\ mmcq' = Tail(mmcq)
  /\ UNCHANGED <<wbuf, reqq, tags, mshr, coheq, replyq, dpipe, dcp, sif, error>>

\* MMC_start_send_to_bus: the MMC, still the master of an idle bus, does not
\* arbitrate; the next winner, if chosen, starts late enough.
MMCStart ==
  /\ Len(mmcq) = 1
  /\ bus.mmc_master /\ bus.cur = None
  /\ bus' = [bus EXCEPT !.cur = [who |-> MMC, t |-> Transaction("REPLY", Head(mmcq))],
                        !.req_count = @ - 1]
  /\ mmcq' = Tail(mmcq)
  /\ UNCHANGED <<wbuf, reqq, tags, mshr, coheq, replyq, dpipe, dcp, sif, error>>

\* Bus_wakeup_winner: Bus_start, then the next waiter of that cache takes the slot.
CountWithoutCopies(t) == CASE t.type = "REQUEST" -> bus.req_count + 1
                           [] t.type = "REPLY" -> bus.req_count - 1
                           [] t.type \in {"COHE_REPLY", "WRITEBACK"} -> bus.req_count
CountAfterStart(t) == CASE t.type = "REQUEST" -> bus.req_count + 1
                        [] t.type \in {"REPLY", "COHE_REPLY"} -> bus.req_count - 1
                        [] t.type = "WRITEBACK" -> bus.req_count

Wakeup ==
  /\ bus.winner # None
  /\ bus.cur = None
  /\ LET c == bus.winner.who
         t == bus.winner.t
     IN /\ bus' = [winner |-> None, cur |-> bus.winner, req_count |-> CountAfterStart(t),
                   mmc_master |-> c = MMC]
        /\ mshr' = IF t.type = "REQUEST" THEN [mshr EXCEPT ![t.req].phase = "out"] ELSE mshr
        /\ sif' = IF c \in CPUs /\ sif[c].slot = None /\ sif[c].arbwaiters # <<>>
                  THEN [sif EXCEPT ![c].slot = Head(sif[c].arbwaiters),
                                   ![c].arbwaiters = Tail(@)]
                  ELSE sif
  /\ UNCHANGED <<wbuf, reqq, tags, coheq, replyq, dpipe, dcp, mmcq, error>>

OnBus(type) == bus.cur # None /\ bus.cur.t.type = type
Released    == [Shared EXCEPT !.bus.cur = None]

\* Bus_send_request: every cache snoops it, the MMC opens its scoreboard entry
\* and, unless it is an UPGRADE, reads memory.
PerformRequest ==
  /\ OnBus("REQUEST")
  /\ LET r  == bus.cur.t.req
         up == mshr[r].type = "UPGRADE"
     IN /\ coheq' = [c \in CPUs |-> Append(coheq[c], r)]
        /\ mshr' = [mshr EXCEPT ![r].c2c_copy = FALSE, ![r].data_rtn = up,
                                ![r].cohe_count = Cardinality(CPUs),
                                ![r].cohe_type = "REPLY_EXCL",
                                ![r].memtrans = IF up THEN "none" ELSE "reading"]
  /\ bus' = [bus EXCEPT !.cur = None]
  /\ UNCHANGED <<wbuf, reqq, tags, replyq, dpipe, dcp, sif, mmcq, error>>

PerformReply ==
  /\ OnBus("REPLY")
  /\ LET r == bus.cur.t.req
     IN Becomes(CacheGetReply([Released EXCEPT !.mshr[r].data_done = TRUE], r))
  /\ UNCHANGED <<wbuf, reqq, tags, coheq, dpipe, dcp, error>>

PerformWriteback ==
  /\ OnBus("WRITEBACK")
  /\ LET c == bus.cur.who
         s == [sif[c] EXCEPT !.outbuffer = SubSeq(@, 2, Len(@))]
         l == s.pending_writeback
     IN sif' = [sif EXCEPT ![c] =
                  IF l = None THEN s
                  ELSE StartWriteback([s EXCEPT !.pending_writeback = None,
                                                !.stall_reply = @ - 1,
                                                !.stall_cohe = @ - 1], c, l)]
  /\ bus' = [bus EXCEPT !.cur = None]
  /\ UNCHANGED <<wbuf, reqq, tags, mshr, coheq, replyq, dpipe, dcp, mmcq, error>>

\* A snoop that is not held back is answered within the tag delay, long before
\* data read from another L2's data array can cross the bus.
SnoopHeldBack(c) ==
  LET r == Head(coheq[c])
  IN \/ ~SnoopAtTag(c)
     \/ r[1] = c /\ mshr[r].pending_cohe # None
     \/ r[1] # c /\ (LeavingL2(c, r[2]) \/ StalledByMSHR(c, r[2]))
SnoopsAreFast(r) ==
  \A c \in CPUs : (\E n \in 1 .. Len(coheq[c]) : coheq[c][n] = r) => SnoopHeldBack(c)

\* par->memtrans of an UPGRADE is whatever the recycled REQ last pointed to:
\* nothing, a dead transaction, or one that is reading for another request.
MemTransOf(r) ==
  IF mshr[r].type # "UPGRADE" /\ mshr[r].memtrans # "none" THEN {r}
  ELSE {None} \cup {q \in Request : mshr[q].memtrans = "reading"}

\* Bus_send_cohe_data_response, MMC_recv_data_response.
PerformCoheReply ==
  /\ OnBus("COHE_REPLY")
  /\ LET c == bus.cur.who
         r == bus.cur.t.req
         S == [Released EXCEPT !.mshr[r].data_done = TRUE, !.mshr[r].c2c_copy = TRUE,
                               !.sif[c].cohe_reply = None]
     IN /\ SnoopsAreFast(r)
        /\ \E q \in MemTransOf(r) :
             LET T == IF mshr[r].cohe_count = 0 THEN MMCSendReply(S, r) ELSE S
             IN Becomes(IF q = None THEN T ELSE [T EXCEPT !.mshr[q].memtrans = "c2c"])
        /\ error' = IF mshr[r].memtrans = "none" THEN error \cup {"stale memtrans"} ELSE error
  /\ UNCHANGED <<wbuf, reqq, tags, coheq, dpipe, dcp>>

\* The MMC has read memory (MMC_dram_data_ready): MMC_data_fetch_done, unless a
\* cache-to-cache copy has already supplied the data.
MemDataReady(r) ==
  /\ mshr[r].memtrans = "reading"
  /\ LET S == [Shared EXCEPT !.mshr[r].memtrans = "read", !.mshr[r].data_rtn = TRUE]
     IN Becomes(IF mshr[r].cohe_count = 0 /\ ~mshr[r].c2c_copy THEN MMCSendReply(S, r) ELSE S)
  /\ UNCHANGED <<wbuf, reqq, tags, coheq, dpipe, dcp, error>>

-----------------------------------------------------------------------------
(* The next-state relation *)

L2TagStep(c) ==
  \/ TagRequestRetry(c) \/ TagRequestHit(c) \/ TagRequestMiss(c) \/ TagRequestStallWAR(c)
  \/ TagRequestCoalesce(c) \/ FlushPurge(c)
L2ReplyStep(c) == TagReplyInstall(c) \/ TagReplyWriteback(c) \/ TagReplyRelease(c)
L2DataStep(c)  == DataHit(c) \/ DataReply(c) \/ DataCacheToCache(c) \/ DataWriteback(c)
L2SnoopStep(c) == SnoopOwn(c) \/ SnoopStallOnWriteBuffer(c) \/ SnoopStallOnMSHR(c)
                  \/ SnoopAnswer(c)
BusStep == \/ ArbitrateMMC \/ MMCStart \/ Wakeup
           \/ PerformRequest \/ PerformReply \/ PerformWriteback \/ PerformCoheReply

Next ==
  \/ \E c \in CPUs, op \in Op \cup {None}, l \in Lines : L1DCacheWBufferSim(c, op, l)
  \/ \E c \in CPUs : \/ L2TagStep(c) \/ L2ReplyStep(c) \/ L2DataStep(c) \/ L2SnoopStep(c)
                     \/ RetryDataCohePending(c) \/ Arbitrate(c)
  \/ BusStep
  \/ \E r \in Request : MemDataReady(r)

\* Every component runs every cycle: nothing that can move is left behind.  A
\* waiter that keeps being eligible is served, as the earliest one wins (Bus).
Fairness ==
  /\ \A c \in CPUs :
       /\ WF_vars(\E l \in Lines : L1DCacheWBufferSim(c, None, l))
       /\ WF_vars(L2TagStep(c)) /\ WF_vars(L2ReplyStep(c)) /\ WF_vars(L2DataStep(c))
       /\ WF_vars(L2SnoopStep(c)) /\ WF_vars(RetryDataCohePending(c))
       /\ SF_vars(Arbitrate(c))
  /\ WF_vars(BusStep)
  /\ \A r \in Request : WF_vars(MemDataReady(r))

\* A stream of writes to a line without a pause would stall its snoops for
\* ever, in L1DCacheWBufferSim as here; programs do pause.
WritersPause == \A c \in CPUs : SF_vars(SnoopAnswer(c))

Spec     == Init /\ [][Next]_vars
FairSpec == Spec /\ Fairness /\ WritersPause

-----------------------------------------------------------------------------
(* Properties *)

Items       == [type : {"REQUEST", "COHE_REPLY", "WRITEBACK", "REPLY"}, req : Request]
Grants      == [who : CPUs \cup {MMC}, t : Items]
ASSUME NoneAssumption == None \notin Items /\ None \notin Grants

MSHRRecord  ==
  [valid : BOOLEAN, main : {"READ", "WRITE"}, coal : Seq({"READ", "WRITE"}),
   type : {"READ_SH", "READ_OWN", "UPGRADE", "REPLY_SH", "REPLY_EXCL"},
   misscache : 0 .. 2, way : Ways \cup {None}, has_writes : BOOLEAN, stall_WAR : BOOLEAN,
   pend_opers : {None, "FLUSHC", "PURGEC"}, pending_cohe : Request \cup {None},
   releasing : BOOLEAN, issued : BOOLEAN, phase : Phase, cohe_count : Nat,
   cohe_type : {"REPLY_SH", "REPLY_EXCL"}, c2c_copy : BOOLEAN, data_rtn : BOOLEAN,
   data_done : BOOLEAN, memtrans : {"none", "reading", "read", "c2c"}]
SystemInterface ==
  [reqbuffer : SUBSET Request, pending_request : Request \cup {None}, outbuffer : Seq(Lines),
   pending_writeback : Lines \cup {None}, cohe_reply : Request \cup {None},
   slot : Items \cup {None}, arbwaiters : Seq(Items),
   stall_request : Nat, stall_reply : Nat, stall_cohe : Nat]

\* Every variable holds what its C counterpart may hold.
TypeOK ==
  /\ wbuf \in [CPUs -> Seq([line : Lines, pend : BOOLEAN])]
  /\ reqq \in [CPUs -> Seq([op : Op, line : Lines, todo : {"tag", "HIT", "WB"}])]
  /\ tags \in [CPUs -> [Ways -> [tag : Lines \cup {None}, state : LineState,
                                 mshr_out : BOOLEAN]]]
  /\ mshr \in [Request -> MSHRRecord]
  /\ coheq \in [CPUs -> Seq(Request)]
  /\ replyq \in [CPUs -> Seq([line : Lines, todo : Lines \cup {"install", "reply"}])]
  /\ dpipe \in [CPUs -> Seq([kind : {"HIT", "REPLY", "C2C", "WB"}, line : Lines,
                             to : CPUs \cup {None}])]
  /\ dcp \in [CPUs -> Request \cup {None}]
  /\ sif \in [CPUs -> SystemInterface]
  /\ mmcq \in Seq(Request)
  /\ bus.winner \in Grants \cup {None}
  /\ bus.cur \in Grants \cup {None}
  /\ bus.req_count \in 0 .. BUS_TOTAL_REQUESTS
  /\ bus.mmc_master \in BOOLEAN
  /\ error \subseteq {"two data_cohe_pendings", "stale memtrans"}

\* A line private in one L2 is valid in no other: the states the snoops, the
\* stalls and the replies leave behind, across all their interleavings
\* (L2ProcessTagCohe, L2ProcessTagReply, L2Cache_check_mshr).
SingleWriter ==
  \A c, d \in CPUs, l \in Lines :
    c # d /\ StateOf(c, l) \in {"PR_CL", "PR_DY"} => StateOf(d, l) = "INVALID"

\* What the caches promise together (Snooping): the bus orders the requests, a
\* request's answers are those of its snoops, and it is complete, for the other
\* caches, once the MMC has sent its reply (MMC_send_reply).
OnItsWay(r)   == bus.cur # None /\ bus.cur.t = Transaction("REQUEST", r)
ToInstall(r)  == \E n \in 1 .. Len(replyq[r[1]]) :
                   replyq[r[1]][n].line = r[2] /\ replyq[r[1]][n].todo = "install"
Unanswered(r) == mshr[r].type \in {"READ_SH", "READ_OWN", "UPGRADE"}
Stage(r) ==
  IF ~mshr[r].valid \/ mshr[r].phase = "arb" \/ OnItsWay(r) THEN "idle"
  ELSE IF Unanswered(r) THEN "ordered"
  ELSE IF mshr[r].phase # "done" \/ ToInstall(r) THEN "answered"
  ELSE "filled"

LineOf == [r \in Request |-> StateOf(r[1], r[2])]
RequestOf ==
  [r \in Request |->
     [stage     |-> Stage(r),
      exclusive |-> Stage(r) = "ordered" /\ mshr[r].type # "READ_SH",
      shared    |-> Stage(r) # "idle" /\ mshr[r].cohe_type = "REPLY_SH",
      copied    |-> Stage(r) = "ordered" /\ mshr[r].c2c_copy]]

Promise == INSTANCE Snooping WITH line <- LineOf, queue <- coheq, req <- RequestOf

\* Every step of the caches, the bus and the MMC is one of Snooping's or changes
\* nothing there.
ImplementsSnooping == Promise!Spec

\* Two caches never have a completed request for the same line at once: the
\* second one waits for the snoop that the first one's MSHR holds back.
OneFillPerLine ==
  \A l \in Lines : Cardinality({c \in CPUs : mshr[<<c, l>>].valid /\ mshr[<<c, l>>].phase = "done"}) <= 1

\* The bus's request count is the number of requests that have started and
\* whose data or completion has not: no request number leaks, whichever of
\* Bus_start and MMC_send_reply gives it back.
Transferring(r) == /\ bus.cur # None
                   /\ bus.cur.t.type \in {"REPLY", "COHE_REPLY"}
                   /\ bus.cur.t.req = r
InService == {r \in Request : /\ mshr[r].valid
                              /\ mshr[r].phase \in {"out", "mem"}
                              /\ ~mshr[r].data_done
                              /\ ~Transferring(r)}
RequestNumbersBalance == bus.req_count = Cardinality(InService)

\* The stall counters of the system interface count exactly the reasons to
\* stall that are present: a missed decrement would freeze a tag pipe for ever.
StallsHaveReasons ==
  \A c \in CPUs :
    LET pending == IF sif[c].pending_writeback = None THEN 0 ELSE 1
    IN /\ sif[c].stall_reply = pending
       /\ sif[c].stall_cohe = pending + Cardinality({n \in 1 .. Len(wbuf[c]) : wbuf[c][n].pend})
       /\ sif[c].stall_request = IF sif[c].pending_request = None THEN 0 ELSE 1

\* Whoever still points to a request (a snoop queue, an MSHR's pending_cohe, a
\* copy on its way, the MMC, the bus) points to one that has not completed: REQ
\* records are recycled, so any other pointer would be a dangling one.
PointedTo ==
  UNION {{coheq[c][n] : n \in 1 .. Len(coheq[c])} : c \in CPUs}
  \cup {mshr[q].pending_cohe : q \in {q \in Request : mshr[q].valid}}
  \cup UNION {{<<dpipe[c][n].to, dpipe[c][n].line>> :
                 n \in {n \in 1 .. Len(dpipe[c]) : dpipe[c][n].kind = "C2C"}} : c \in CPUs}
  \cup {dcp[c] : c \in CPUs} \cup {sif[c].cohe_reply : c \in CPUs}
  \cup {mmcq[n] : n \in 1 .. Len(mmcq)}
PointersAreLive ==
  \A r \in PointedTo \ {None} : mshr[r].valid /\ mshr[r].phase \in {"out", "mem"}

\* When the memory controller answers with the data it has read, no other L2
\* holds the line dirty, is copying it, or has it in its outgoing buffer.
MemoryReplyIsCurrent ==
  \A r \in Request : mshr[r].valid /\ mshr[r].phase = "mem" =>
    \A c \in CPUs \ {r[1]} :
      /\ StateOf(c, r[2]) # "PR_DY"
      /\ ~LeavingL2(c, r[2])
      /\ sif[c].cohe_reply # r

\* A request whose data has come from another cache and whose snoops have all
\* been answered is completed: MMC_recv_data_response and
\* MMC_recv_cohe_response see to it in either order of arrival.
AnsweredRequestCompletes ==
  \A r \in Request : ~(mshr[r].valid /\ mshr[r].phase = "out"
                       /\ mshr[r].data_done /\ mshr[r].cohe_count = 0)

\* What the controllers remember about each other is true: counters count, pointers
\* point to live requests, answered requests complete.
BookkeepingAgrees ==
  TypeOK /\ OneFillPerLine /\ RequestNumbersBalance /\ StallsHaveReasons
  /\ PointersAreLive /\ AnsweredRequestCompletes

\* An UPGRADE that completes without data finds its line still valid in its
\* own cache: "Upgrade should never require data from main memory".
UpgradeNeedsNoData ==
  \A c \in CPUs : \A n \in 1 .. Len(replyq[c]) :
    LET m == mshr[<<c, replyq[c][n].line>>]
    IN m.misscache = 0 /\ ~m.data_done => tags[c][m.way].state # "INVALID"

\* An MSHR that served a write is released with its line dirty.
WritesLeaveLineDirty ==
  \A r \in Request :
    LET m == mshr[r]
    IN m.releasing /\ (m.main = "WRITE" \/ \E n \in 1 .. Len(m.coal) : m.coal[n] = "WRITE")
       => tags[r[1]][m.way].state = "PR_DY"

\* A line locked for an UPGRADE keeps its place until the UPGRADE returns.
LockedLineStays ==
  [][\A c \in CPUs, w \in Ways : tags[c][w].mshr_out => tags'[c][w].tag = tags[c][w].tag]_vars

\* A copy to another cache does not wait behind a request that is itself
\* waiting for a request number: "C2C-copies bypass stalled arbitration
\* requests to avoid deadlocks".
CopiesBypassStalledRequests ==
  \A c \in CPUs :
    (\E n \in 1 .. Len(sif[c].arbwaiters) : sif[c].arbwaiters[n].type = "COHE_REPLY")
    => sif[c].slot = None \/ Eligible(sif[c].slot)

\* MMC_recv_data_response marks the memory transaction of the request it
\* answers, never one the request does not have.
CopyMarksOwnTransaction == "stale memtrans" \notin error

\* Every request a cache has sent comes back, and its MSHR is released.
RequestsComplete == \A r \in Request : mshr[r].valid ~> ~mshr[r].valid

\* A snoop pipe that stalls is eventually released.
SnoopsResume == \A c \in CPUs : []<>(sif[c].stall_cohe = 0)
=============================================================================
