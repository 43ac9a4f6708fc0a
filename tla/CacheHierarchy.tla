-------------------------- MODULE CacheHierarchy --------------------------
\* The caches of one processor: first-level instruction and data caches
\* (l1i_cache.c, l1d_cache.c) above a second level (l2cache.c), with a write-back
\* data cache: misses and coalescing at both levels, replies, victims, flushes and
\* purges, and the messages by which the second level invalidates or shares the
\* lines of the first. A queue and the pipeline behind it are one sequence. The
\* other processors are a remote state per line. Prefetches, perfect caches and
\* the data of copies are left out; lines have the same size at both levels.
EXTENDS Integers, Sequences, FiniteSets

CONSTANTS Lines, Ways1, Ways2,       \* lines; ways of the one set of each level
          MSHRs1, MSHRs2, MAX_COALS, \* MSHRs of a cache, requests in one
          MEM_UNITS, L2_REQUEST, L2_DATA, \* room in the queues
          Programs,                  \* the accesses of the processor, one of these sequences
          SNOOPS                     \* bound: external snoops

VARIABLES l1,    \* for "D" and "I": requests, messages from below, tags, MSHRs
          l2,    \* requests, replies, snoops, data pipe, tags, MSHRs
          bus,   \* remote state of the lines, snoops left, snoops an L1 must answer
          done   \* accesses issued, how often each was performed, fatal errors
vars == <<l1, l2, bus, done>>

Caches == {"D", "I"}
NoLine == "none"
Accesses == [cache : Caches, kind : {"READ", "WRITE", "RMW", "FLUSHC", "PURGEC"}, line : Lines]

ASSUME QueueAssumption == L2_REQUEST \in Nat \ {0} /\ L2_DATA \in Nat \ {0}
ASSUME HierarchyAssumption ==
  /\ NoLine \notin Lines /\ Ways1 \in Nat \ {0} /\ Ways2 \in Nat \ {0} /\ SNOOPS \in Nat
  /\ \A p \in Programs : p \in Seq(Accesses)

Invalid == [tag |-> NoLine, state |-> "INVALID"]
NoRequest == [id |-> 0, kind |-> "none", line |-> NoLine, cache |-> "D", progress |-> 0, l1mshr |-> FALSE,
              sh |-> FALSE]
NoMSHR == [valid |-> FALSE, main |-> NoRequest, coal |-> <<>>, war |-> FALSE, miss |-> 2, way |-> 1,
           pend |-> "none", writes |-> FALSE, lock |-> FALSE, bus |-> "none", sh |-> FALSE,
           releasing |-> FALSE]
Private(s) == s \in {"PR_CL", "PR_DY"}

Init ==
  /\ l1 = [c \in Caches |-> [req |-> <<>>, down |-> <<>>, ways |-> [w \in 1 .. Ways1 |-> Invalid],
                             mshr |-> [x \in Lines |-> NoMSHR]]]
  /\ l2 = [req |-> <<>>, reply |-> <<>>, cohe |-> <<>>, data |-> <<>>,
           ways |-> [w \in 1 .. Ways2 |-> Invalid], mshr |-> [x \in Lines |-> NoMSHR]]
  /\ bus = [remote |-> [x \in Lines |-> "none"], snoops |-> SNOOPS, asked |-> {}]
  /\ \E p \in Programs :
       done = [left |-> p, count |-> [n \in DOMAIN p |-> 0], fault |-> FALSE]

-----------------------------------------------------------------------------
\* Tags: Cache_search and the victim of Cache_miss_update (the ages within a state
\* are left open).
Way(ways, x) == {w \in DOMAIN ways : ways[w].tag = x}
Miss(ways, x) == IF Way(ways, x) = {} THEN 2
                 ELSE IF ways[CHOOSE w \in Way(ways, x) : TRUE].state = "INVALID" THEN 1 ELSE 0
WayOf(ways, x) == IF Way(ways, x) = {} THEN 1 ELSE CHOOSE w \in Way(ways, x) : TRUE
State(ways, x) == IF Miss(ways, x) = 0 THEN ways[WayOf(ways, x)].state ELSE "INVALID"
Drop(ways, x) == [w \in DOMAIN ways |-> IF w \in Way(ways, x) /\ ways[w].state # "INVALID" THEN Invalid ELSE ways[w]]
Rank(s) == CASE s = "INVALID" -> 0 [] s = "SH_CL" -> 1 [] s = "PR_CL" -> 2 [] s = "PR_DY" -> 3
Victims(ways, locked) ==
  LET free == DOMAIN ways \ locked
  IN {w \in free : \A v \in free : Rank(ways[w].state) <= Rank(ways[v].state)}

\* Cache_global_perform.
Perform(ids) == [done EXCEPT !.count = [n \in DOMAIN @ |-> @[n] + (IF n \in ids THEN 1 ELSE 0)]]
Ids(requests) == {requests[k].id : k \in DOMAIN requests}
Used(mshrs) == Cardinality({x \in Lines : mshrs[x].valid})

-----------------------------------------------------------------------------
\* Accesses enter a first-level cache.
Issue ==
  /\ done.left # <<>>
  /\ LET a == Head(done.left)
         id == Len(done.count) - Len(done.left) + 1
     IN /\ Len(l1[a.cache].req) < MEM_UNITS
        /\ l1' = [l1 EXCEPT ![a.cache].req = Append(@, [NoRequest EXCEPT !.id = id, !.kind = a.kind,
                                                             !.line = a.line, !.cache = a.cache])]
  /\ done' = [done EXCEPT !.left = Tail(@)]
  /\ UNCHANGED <<l2, bus>>

\* L1DProcessTagRequest, L1IProcessTagRequest.
Fresh(q) == q # <<>> /\ Head(q).progress = 0
Access(kind) == kind \in {"READ", "WRITE", "RMW"}
Hits(c, r) == Miss(l1[c].ways, r.line) = 0 /\ (r.kind = "READ" \/ State(l1[c].ways, r.line) # "SH_CL")
Head1(c, progress, mshr) == [l1[c].req EXCEPT ![1].progress = progress, ![1].l1mshr = mshr]

Hit1(c) ==
  /\ Fresh(l1[c].req)
  /\ LET r == Head(l1[c].req)  w == WayOf(l1[c].ways, r.line)
     IN /\ Access(r.kind) /\ ~l1[c].mshr[r.line].valid /\ Hits(c, r)
        /\ l1' = [l1 EXCEPT ![c].req = Tail(@),
                            ![c].ways[w].state = IF r.kind # "READ" THEN "PR_DY" ELSE @]
        /\ done' = Perform({r.id})
  /\ UNCHANGED <<l2, bus>>

\* A write to a shared line goes down without an MSHR.
Forward1(c) ==
  /\ Fresh(l1[c].req)
  /\ LET r == Head(l1[c].req)
     IN /\ r.kind = "WRITE" /\ ~l1[c].mshr[r.line].valid /\ State(l1[c].ways, r.line) = "SH_CL"
        /\ l1' = [l1 EXCEPT ![c].req = Head1(c, 1, FALSE)]
  /\ UNCHANGED <<l2, bus, done>>

New1(c) ==
  /\ Fresh(l1[c].req)
  /\ LET r == Head(l1[c].req)  miss == Miss(l1[c].ways, r.line)
     IN /\ Access(r.kind) /\ ~l1[c].mshr[r.line].valid /\ ~Hits(c, r)
        /\ ~(r.kind = "WRITE" /\ miss = 0) /\ Used(l1[c].mshr) < MSHRs1
        /\ l1' = [l1 EXCEPT ![c].req = Head1(c, 1, TRUE),
                            ![c].mshr[r.line] = [NoMSHR EXCEPT !.valid = TRUE, !.main = r, !.miss = miss,
                                                               !.way = WayOf(l1[c].ways, r.line)]]
  /\ UNCHANGED <<l2, bus, done>>

\* A request that joins the MSHR of its line, unless a flush, a write after a read
\* or a full MSHR holds it back. The mutant lets it join one with a flush pending.
WriteAfterRead(m, r) == r.kind # "READ" /\ m.main.kind = "READ"
JoinsPurged(m, r) == m.valid /\ ~m.war /\ ~WriteAfterRead(m, r) /\ Len(m.coal) < MAX_COALS - 1
Joins(m, r) == JoinsPurged(m, r) /\ m.pend = "none" /\ ~m.releasing
Coalesce1(c) ==
  /\ Fresh(l1[c].req)
  /\ LET r == Head(l1[c].req)
     IN /\ Access(r.kind) /\ Joins(l1[c].mshr[r.line], r)
        /\ l1' = [l1 EXCEPT ![c].req = Tail(@), ![c].mshr[r.line].coal = Append(@, r)]
  /\ UNCHANGED <<l2, bus, done>>
StallWAR(m, r) == m.valid /\ m.pend = "none" /\ ~m.releasing /\ ~m.war /\ WriteAfterRead(m, r)
StallWAR1(c) ==
  /\ Fresh(l1[c].req)
  /\ LET r == Head(l1[c].req)
     IN /\ Access(r.kind) /\ StallWAR(l1[c].mshr[r.line], r)
        /\ l1' = [l1 EXCEPT ![c].mshr[r.line].war = TRUE]
  /\ UNCHANGED <<l2, bus, done>>

\* A purge drops the line, or marks its MSHR (L1DProcessFlushPurge); a flush is left
\* to the second level.
FlushPurge1(c) ==
  /\ Fresh(l1[c].req)
  /\ LET r == Head(l1[c].req)  m == l1[c].mshr[r.line]
     IN /\ ~Access(r.kind)
        /\ l1' = [l1 EXCEPT ![c].req = Head1(c, 1, FALSE),
                            ![c].mshr[r.line].pend = IF r.kind = "PURGEC" /\ m.valid THEN r.kind ELSE @,
                            ![c].ways = IF r.kind = "PURGEC" /\ ~m.valid THEN Drop(@, r.line) ELSE @]
  /\ UNCHANGED <<l2, bus, done>>

Send1(c) ==
  /\ l1[c].req # <<>> /\ Head(l1[c].req).progress = 1 /\ Len(l2.req) < L2_REQUEST
  /\ l1' = [l1 EXCEPT ![c].req = Tail(@)]
  /\ l2' = [l2 EXCEPT !.req = Append(@, [Head(l1[c].req) EXCEPT !.progress = 0])]
  /\ UNCHANGED <<bus, done>>

-----------------------------------------------------------------------------
\* Messages to a first-level cache: replies, and coherence messages in a pipeline of
\* their own. A message whose work on the tags is done (progress 1) and whose answer
\* finds no room is stuck; either kind passes the other only while that is stuck.
NoMessage == [kind |-> "COHE", line |-> NoLine, sh |-> FALSE, to |-> "INVALIDATE", own |-> FALSE,
              flush |-> NoRequest, dirty |-> FALSE, stuck |-> FALSE, wrb |-> NoLine]
Reply(r) == [NoMessage EXCEPT !.kind = "REPLY", !.line = r.line, !.sh = r.sh]
Stuck(e) == e.stuck /\ (e.kind = "REPLY" => Len(l2.req) >= L2_REQUEST)
Next1(c, kind) ==
  LET d == l1[c].down
  IN {i \in DOMAIN d : d[i].kind = kind /\ \A j \in 1 .. i - 1 : d[j].kind # kind /\ Stuck(d[1])}
Without(s, i) == SubSeq(s, 1, i - 1) \o SubSeq(s, i + 1, Len(s))

\* L1DProcessTagReply, L1IProcessTagReply. The line takes its way, the way it had, or
\* a victim's, and a dirty victim of the data cache is written back.
Filled(c, e, w) ==
  IF l1[c].mshr[e.line].miss = 0 THEN [l1[c].ways[w] EXCEPT !.state = "PR_DY"]
  ELSE [tag |-> e.line, state |-> IF e.sh THEN "SH_CL" ELSE "PR_CL"]
WrittenBack(c, e, w) ==
  IF l1[c].mshr[e.line].miss # 0 /\ l1[c].ways[w].state = "PR_DY" /\ c = "D" THEN l1[c].ways[w].tag ELSE NoLine
\* Without room for the victim y the call ends here and is made again.
Wait1(c, i, w, line, y) ==
  /\ l1' = [l1 EXCEPT ![c].ways[w] = line, ![c].mshr[l1[c].down[i].line].way = w,
                      ![c].down[i].stuck = TRUE, ![c].down[i].wrb = y]
  /\ UNCHANGED <<l2, done>>
\* In the same call the requests of the MSHR are performed, a pending purge takes the
\* line away and the MSHR is free.
Release1(c, i, w, line, y) ==
  LET x == l1[c].down[i].line  m == l1[c].mshr[x]
  IN /\ l2' = IF y = NoLine THEN l2
              ELSE [l2 EXCEPT !.req = Append(@, [NoRequest EXCEPT !.kind = "WBACK", !.line = y])]
     /\ done' = Perform({m.main.id} \cup Ids(m.coal))
     /\ l1' = [l1 EXCEPT ![c].down = Without(@, i), ![c].mshr[x] = NoMSHR,
                         ![c].ways[w] = IF m.pend # "none" /\ line.state # "INVALID" THEN Invalid ELSE line]
Reply1(c) ==
  \E i \in Next1(c, "REPLY") :
    LET e == l1[c].down[i]  m == l1[c].mshr[e.line]
    IN /\ ~e.stuck
       /\ IF ~m.valid THEN done' = [done EXCEPT !.fault = TRUE] /\ UNCHANGED <<l1, l2>>
          ELSE \E w \in IF m.miss = 2 THEN Victims(l1[c].ways, {}) ELSE {m.way} :
                 LET y == WrittenBack(c, e, w)
                 IN IF y # NoLine /\ Len(l2.req) >= L2_REQUEST THEN Wait1(c, i, w, Filled(c, e, w), y)
                    ELSE Release1(c, i, w, Filled(c, e, w), y)
       /\ UNCHANGED bus
StuckReply1(c) ==
  \E i \in Next1(c, "REPLY") :
    LET e == l1[c].down[i]  w == l1[c].mshr[e.line].way
    IN /\ e.stuck /\ Len(l2.req) < L2_REQUEST
       /\ Release1(c, i, w, l1[c].ways[w], e.wrb)
       /\ UNCHANGED bus

\* L1DProcessTagCohe and L1IProcessTagCohe: the tag changes once, then the data cache
\* answers. A flush is performed (L2ProcessTagFlushReply) when the data pipe has room,
\* the reply that evicted the line goes on (L2ProcessTagInvlReply), a snoop is
\* answered (L2ProcessTagCoheReply).
RemoteAfter(kind) == IF kind = "INVALIDATE" THEN "owned" ELSE "shared"
Answered(x, to) == [bus EXCEPT !.asked = @ \ {x}, !.remote[x] = RemoteAfter(to)]
Out == [kind |-> "OUT", r |-> NoRequest]
\* The mutant forgets that its own reply waits for the answer.
ResumeNothing(e) == l2
Resume(e) == [l2 EXCEPT !.reply[1].progress = 3, !.reply[1].wrb = @ \/ e.dirty]
After1(ways, e) ==
  IF e.stuck \/ State(ways, e.line) = "INVALID" THEN ways
  ELSE IF e.to = "SHARED" THEN [ways EXCEPT ![WayOf(ways, e.line)].state = "SH_CL"]
  ELSE IF e.own THEN [ways EXCEPT ![WayOf(ways, e.line)] = Invalid]
  ELSE [ways EXCEPT ![WayOf(ways, e.line)].state = "INVALID"]
Dirty1(c, e) == e.dirty \/ (~e.stuck /\ e.to = "INVALIDATE" /\ State(l1[c].ways, e.line) = "PR_DY")
FlushAnswer(c, e) == c = "D" /\ e.flush.id # 0
NoRoomFor(c, e) == FlushAnswer(c, e) /\ Dirty1(c, e) /\ Len(l2.data) >= L2_DATA
Cohe1(c) ==
  \E i \in Next1(c, "COHE") :
    LET e == l1[c].down[i]
        dirty == Dirty1(c, e)
    IN /\ ~NoRoomFor(c, e)
       /\ l1' = [l1 EXCEPT ![c].down = Without(@, i), ![c].ways = After1(@, e)]
       /\ CASE c = "I" -> UNCHANGED <<l2, bus, done>>
            [] FlushAnswer(c, e) ->
                 /\ l2' = IF dirty THEN [l2 EXCEPT !.data = Append(@, Out)] ELSE l2
                 /\ done' = Perform({e.flush.id}) /\ UNCHANGED bus
            [] c = "D" /\ e.flush.id = 0 /\ e.own ->
                 l2' = Resume([e EXCEPT !.dirty = dirty]) /\ UNCHANGED <<bus, done>>
            [] OTHER -> bus' = Answered(e.line, e.to) /\ UNCHANGED <<l2, done>>
StuckCohe1(c) ==
  \E i \in Next1(c, "COHE") :
    LET e == l1[c].down[i]
    IN /\ ~e.stuck /\ NoRoomFor(c, e)
       /\ l1' = [l1 EXCEPT ![c].ways = After1(@, e), ![c].down[i].stuck = TRUE, ![c].down[i].dirty = TRUE]
       /\ UNCHANGED <<l2, bus, done>>

-----------------------------------------------------------------------------
\* The second level. Requests: L2ProcessTagRequest, L2ProcessFlushPurge.
Head2(progress, sh) == [l2.req EXCEPT ![1].progress = progress, ![1].sh = sh]
Tell(c, e) == [l1[c] EXCEPT !.down = Append(@, e)]
ToBoth(data, instr) == [c \in Caches |-> IF c = "D" THEN Tell(c, data) ELSE Tell(c, instr)]

WBack2 ==
  /\ Fresh(l2.req) /\ Head(l2.req).kind = "WBACK" /\ Len(l2.data) < L2_DATA
  /\ l2' = [l2 EXCEPT !.req = Tail(@), !.data = Append(@, Out)]
  /\ UNCHANGED <<l1, bus, done>>

\* A flush that finds its line is performed when the data cache answers, every other
\* flush or purge at once. The mutant performs that flush at once as well.
PerformedAtOnce(r) == {r.id}
PerformedNow(r) ==
  IF r.kind = "FLUSHC" /\ Miss(l2.ways, r.line) = 0 /\ ~l2.mshr[r.line].valid THEN {} ELSE {r.id}
FlushPurge2 ==
  /\ Fresh(l2.req)
  /\ LET r == Head(l2.req)
         m == l2.mshr[r.line]
         hit == ~m.valid /\ Miss(l2.ways, r.line) = 0
         invalidate == [NoMessage EXCEPT !.line = r.line, !.own = TRUE]
         flush == [invalidate EXCEPT !.flush = r, !.dirty = State(l2.ways, r.line) = "PR_DY"]
     IN /\ r.kind \in {"FLUSHC", "PURGEC"}
        /\ l2' = [l2 EXCEPT !.req = Tail(@), !.ways = IF hit THEN Drop(@, r.line) ELSE @,
                            !.mshr[r.line].pend = IF m.valid THEN r.kind ELSE @]
        /\ l1' = IF ~hit THEN l1
                 ELSE IF r.kind = "FLUSHC" THEN ToBoth(flush, invalidate)
                 ELSE [l1 EXCEPT !["I"] = Tell("I", invalidate)]
        /\ done' = Perform(PerformedNow(r))
  /\ UNCHANGED bus

\* A hit waits for room in the data pipe, whatever happens to the line meanwhile.
Hits2(r) == Miss(l2.ways, r.line) = 0 /\ (r.kind = "READ" \/ State(l2.ways, r.line) # "SH_CL")
Hit2 ==
  /\ Fresh(l2.req)
  /\ LET r == Head(l2.req)  w == WayOf(l2.ways, r.line)
     IN /\ Access(r.kind) /\ ~l2.mshr[r.line].valid /\ Hits2(r)
        /\ l2' = [l2 EXCEPT !.req = Head2(1, ~Private(l2.ways[w].state)),
                            !.ways[w].state = IF r.kind # "READ" THEN "PR_DY" ELSE @]
  /\ UNCHANGED <<l1, bus, done>>
Send2 ==
  /\ l2.req # <<>> /\ Head(l2.req).progress = 1 /\ Len(l2.data) < L2_DATA
  /\ l2' = [l2 EXCEPT !.req = Tail(@), !.data = Append(@, [kind |-> "REPLY", r |-> Head(l2.req)])]
  /\ UNCHANGED <<l1, bus, done>>

New2 ==
  /\ Fresh(l2.req)
  /\ LET r == Head(l2.req)  miss == Miss(l2.ways, r.line)
     IN /\ Access(r.kind) /\ ~l2.mshr[r.line].valid /\ ~Hits2(r) /\ Used(l2.mshr) < MSHRs2
        /\ l2' = [l2 EXCEPT !.req = Tail(@),
                            !.mshr[r.line] = [NoMSHR EXCEPT !.valid = TRUE, !.main = r, !.miss = miss,
                                                !.way = WayOf(l2.ways, r.line), !.lock = miss = 0,
                                                !.writes = r.kind # "READ"]]
  /\ UNCHANGED <<l1, bus, done>>

\* A request that joins an MSHR clears has_writes: its req_type is never WRITE here.
Coalesce2 ==
  /\ Fresh(l2.req)
  /\ LET r == Head(l2.req)
     IN /\ Access(r.kind) /\ Joins(l2.mshr[r.line], r)
        /\ l2' = [l2 EXCEPT !.req = Tail(@), !.mshr[r.line].coal = Append(@, r),
                            !.mshr[r.line].writes = FALSE]
  /\ UNCHANGED <<l1, bus, done>>
StallWAR2 ==
  /\ Fresh(l2.req)
  /\ LET r == Head(l2.req)
     IN /\ Access(r.kind) /\ StallWAR(l2.mshr[r.line], r)
        /\ l2' = [l2 EXCEPT !.mshr[r.line].war = TRUE]
  /\ UNCHANGED <<l1, bus, done>>

-----------------------------------------------------------------------------
\* The bus: own requests and the others' are snooped in one order (L2ProcessTagCohe).
\* An own request waits for the answer to a snoop of its line.
BusIssue(x) ==
  /\ l2.mshr[x].valid /\ l2.mshr[x].bus = "none"
  /\ l2' = [l2 EXCEPT !.mshr[x].bus = "snooped", !.cohe = Append(@, [line |-> x, kind |-> "own"])]
  /\ UNCHANGED <<l1, bus, done>>
OwnCohe2 ==
  /\ l2.cohe # <<>> /\ Head(l2.cohe).kind = "own"
  /\ LET x == Head(l2.cohe).line
         reads == l2.mshr[x].main.kind = "READ" /\ l2.mshr[x].miss # 0
         remote == bus.remote[x]
     IN /\ x \notin bus.asked
        /\ l2' = [l2 EXCEPT !.cohe = Tail(@), !.mshr[x].bus = "issued",
                            !.mshr[x].sh = reads /\ remote # "none"]
        /\ bus' = [bus EXCEPT !.remote[x] = IF reads /\ remote # "none" THEN "shared" ELSE "none"]
  /\ UNCHANGED <<l1, done>>
BusReply(x) ==
  /\ l2.mshr[x].bus = "issued"
  /\ l2' = [l2 EXCEPT !.mshr[x].bus = "replied",
                      !.reply = Append(@, [line |-> x, progress |-> 0, wrb |-> FALSE])]
  /\ UNCHANGED <<l1, bus, done>>

Snoop(x, kind) ==
  /\ bus.snoops > 0 /\ x \notin bus.asked
  /\ \A k \in DOMAIN l2.cohe : l2.cohe[k].line = x => l2.cohe[k].kind = "own"
  /\ bus.remote[x] # "owned" /\ (kind = "READ_SH" => bus.remote[x] = "none")
  /\ l2' = [l2 EXCEPT !.cohe = Append(@, [line |-> x, kind |-> kind])]
  /\ bus' = [bus EXCEPT !.snoops = @ - 1]
  /\ UNCHANGED <<l1, done>>
Cohe2 ==
  /\ l2.cohe # <<>> /\ Head(l2.cohe).kind # "own"
  /\ LET x == Head(l2.cohe).line
         old == State(l2.ways, x)
         to == IF Head(l2.cohe).kind = "READ_SH" THEN "SHARED" ELSE "INVALIDATE"
         e == [NoMessage EXCEPT !.line = x, !.to = to, !.dirty = old = "PR_DY"]
     IN /\ ~(l2.mshr[x].valid /\ l2.mshr[x].bus \in {"issued", "replied"})
        /\ l2' = [l2 EXCEPT !.cohe = Tail(@),
                            !.ways = IF old = "INVALID" THEN @
                                     ELSE [@ EXCEPT ![WayOf(@, x)].state =
                                             IF to = "SHARED" THEN "SH_CL" ELSE "INVALID"]]
        /\ IF old = "INVALID" THEN bus' = Answered(x, to) /\ UNCHANGED l1
           ELSE bus' = [bus EXCEPT !.asked = @ \cup {x}] /\ l1' = ToBoth(e, e)
  /\ UNCHANGED done

-----------------------------------------------------------------------------
\* Replies: L2ProcessTagReply. A victim leaves the first level first: the reply goes
\* on (progress 3) when the data cache has answered.
Locked == {w \in 1 .. Ways2 : \E x \in Lines : l2.mshr[x].lock /\ l2.mshr[x].way = w}
Reply2 ==
  /\ l2.reply # <<>> /\ Head(l2.reply).progress = 0
  /\ LET x == Head(l2.reply).line  m == l2.mshr[x]
     IN \E w \in IF m.miss = 2 THEN Victims(l2.ways, Locked) ELSE {m.way} :
          LET old == l2.ways[w]
              evicts == m.miss # 0 /\ old.state # "INVALID"
              e == [NoMessage EXCEPT !.line = old.tag, !.own = TRUE]
          IN /\ l2' = [l2 EXCEPT
                  !.ways[w] = IF m.miss = 0 THEN [@ EXCEPT !.state = "PR_DY"]
                              ELSE [tag |-> x, state |-> IF m.writes THEN "PR_DY"
                                                         ELSE IF m.sh THEN "SH_CL" ELSE "PR_CL"],
                  !.mshr[x].way = w, !.mshr[x].lock = FALSE,
                  !.reply[1].progress = IF evicts THEN 2 ELSE 3,
                  !.reply[1].wrb = evicts /\ old.state = "PR_DY"]
             /\ l1' = IF evicts THEN ToBoth(e, e) ELSE l1
  /\ UNCHANGED <<bus, done>>
Write2 ==
  /\ l2.reply # <<>> /\ Head(l2.reply).progress = 3 /\ Len(l2.data) < L2_DATA
  /\ l2' = IF Head(l2.reply).wrb
           THEN [l2 EXCEPT !.reply[1].wrb = FALSE, !.data = Append(@, Out)]
           ELSE [l2 EXCEPT !.reply = Tail(@), !.mshr[Head(l2.reply).line].releasing = TRUE,
                           !.data = Append(@, [kind |-> "FILL", r |-> l2.mshr[Head(l2.reply).line].main])]
  /\ UNCHANGED <<l1, bus, done>>

\* The data pipe: replies go to the first level (Cache_add_repl_to_l1), or are
\* performed when nothing waits for them there; then the MSHR is free. The mutant
\* answers the first request of an MSHR only.
WaitsFirst(rs, k) == k = 1 /\ rs[k].l1mshr
Waits(rs, k) == rs[k].l1mshr
Deliver(rs) ==
  [c \in Caches |->
     LET down[k \in 0 .. Len(rs)] ==
           IF k = 0 THEN l1[c].down
           ELSE IF Waits(rs, k) /\ rs[k].cache = c THEN Append(down[k - 1], Reply(rs[k])) ELSE down[k - 1]
     IN [l1[c] EXCEPT !.down = down[Len(rs)]]]
Data2 ==
  /\ l2.data # <<>>
  /\ LET d == Head(l2.data)
         m == l2.mshr[d.r.line]
         ready == <<m.main>> \o m.coal
         rs == IF d.kind = "REPLY" THEN <<d.r>>
               ELSE [k \in DOMAIN ready |-> [ready[k] EXCEPT !.sh = m.sh]]
     IN CASE d.kind = "OUT" -> l2' = [l2 EXCEPT !.data = Tail(@)] /\ UNCHANGED <<l1, done>>
          [] OTHER ->
               /\ l1' = Deliver(rs)
               /\ done' = Perform({rs[k].id : k \in {j \in DOMAIN rs : ~Waits(rs, j)}})
               /\ l2' = IF d.kind = "REPLY" THEN [l2 EXCEPT !.data = Tail(@)]
                        ELSE [l2 EXCEPT !.data = Tail(@), !.mshr[d.r.line] = NoMSHR,
                                        !.ways[m.way] = IF m.pend # "none" THEN Invalid ELSE @]
  /\ UNCHANGED bus

-----------------------------------------------------------------------------
Level1(c) ==
  \/ Hit1(c) \/ Forward1(c) \/ New1(c) \/ Coalesce1(c) \/ StallWAR1(c) \/ FlushPurge1(c) \/ Send1(c)
  \/ Reply1(c) \/ StuckReply1(c) \/ Cohe1(c) \/ StuckCohe1(c)
Level2 ==
  \/ WBack2 \/ FlushPurge2 \/ Hit2 \/ Send2 \/ New2 \/ Coalesce2 \/ StallWAR2
  \/ OwnCohe2 \/ Cohe2 \/ Reply2 \/ Write2 \/ Data2
Bus == \E x \in Lines : BusIssue(x) \/ BusReply(x)
Next ==
  \/ Issue
  \/ \E c \in Caches : Level1(c)
  \/ Level2
  \/ Bus
  \/ \E x \in Lines : \E kind \in {"READ_SH", "READ_OWN"} : Snoop(x, kind)

Spec == Init /\ [][Next]_vars

\* No access is performed twice, however it was answered (Cache_global_perform), and
\* no reply finds its MSHR gone ("received a reply for a nonexistent MSHR").
PerformedOnce == ~done.fault /\ \A n \in DOMAIN done.count : done.count[n] <= 1

\* Every MSHR of the first level has its request in exactly one place on the way
\* down or its reply on the way up: none waits for nothing, none is answered twice.
Places(c, x) ==
  LET id == l1[c].mshr[x].main.id
      Mine(r) == r.id = id /\ r.cache = c /\ r.l1mshr
      In(q) == Cardinality({k \in DOMAIN q : Mine(q[k])})
      m == l2.mshr[x]
  IN In(l1[c].req) + In(l2.req) + In(<<m.main>>) + In(m.coal)
     + Cardinality({k \in DOMAIN l2.data : l2.data[k].kind = "REPLY" /\ Mine(l2.data[k].r)})
     + Cardinality({k \in DOMAIN l1[c].down : l1[c].down[k].kind = "REPLY" /\ l1[c].down[k].line = x})
MSHRsAreAnswered ==
  \A c \in Caches, x \in Lines : l1[c].mshr[x].valid => Places(c, x) = 1
=============================================================================
