------------------------------ MODULE ScsiDisk ------------------------------
\* A SCSI disk (IO/scsi_disk.c, IO/disk_mech.c): requests are accepted from the
\* bus into a queue, served one at a time by three events, and answered through
\* the disk's slot at the bus. An event that is scheduled fires some time later;
\* how long a seek or a rotation takes is left open, and so is whether the next
\* sector passes under the head without a seek.
EXTENDS DiskCache, Sequences

CONSTANTS
  Blocks,           \* capacity of the disk
  request_queue, response_queue,
  fast_writes, prefetch,
  full_num, full_den  \* buffer_full_ratio = full_num / full_den

ASSUME DiskAssumption ==
  /\ Blocks \in Nat \ {0}
  /\ request_queue \in Nat \ {0} /\ response_queue \in Nat \ {0}
  /\ fast_writes \in BOOLEAN /\ prefetch \in BOOLEAN
  /\ full_den \in Nat \ {0} /\ full_num \in 0 .. full_den

NoRequest == [op |-> "none"]

DiskInit ==
  [cache |-> CacheInit, state |-> "IDLE", current |-> NoRequest, inqueue |-> <<>>,
   out |-> <<>>, events |-> {}, seek_target |-> 0,
   media |-> 0 .. Blocks - 1,  \* blocks whose last accepted write is on the media
   fault |-> "none"]

Busy(d) == d.current # NoRequest
Extent(r) == r.start .. r.start + r.len - 1

Schedule(d, e) == [d EXCEPT !.events = @ \cup {e}]
Idle(d) == [d EXCEPT !.state = "IDLE", !.current = NoRequest]
Fail(d, what) == [d EXCEPT !.fault = IF @ = "none" THEN what ELSE @]
\* A routine that finds no segment writes in front of the array.
Checked(d, n) == IF n = NoSegment THEN Fail(d, "no segment") ELSE d

\* The reply waits in the slot of the disk, behind it in the queue, or is lost.
Issue(d, r) ==
  IF Len(d.out) > response_queue THEN Fail(d, "reply lost") ELSE [d EXCEPT !.out = Append(@, r)]
Reconnect(r, reply, data) ==
  [r EXCEPT !.type = "RECONNECT", !.reply = reply, !.data = data, !.bus = data > 0]

\* A seek to the sector that is coming anyway changes nothing.
DoSeek(d, sector) ==
  IF d.events \cap {"seek", "sector"} # {} /\ sector = d.seek_target THEN d
  ELSE [d EXCEPT !.events = (@ \ {"sector"}) \cup {"seek"},
                 !.seek_target = sector, !.state = "SEEK"]

\* Is the next request no more than a write that still has to send its data?
NoneButAWrite(d) ==
  d.inqueue = <<>> \/ (Head(d.inqueue).op = "WRITE" /\ Head(d.inqueue).transferred = 0)

Background(r) ==
  \/ r.op = "PREFETCH"
  \/ r.op = "WRITE" /\ r.imm /\ fast_writes

-----------------------------------------------------------------------------
\* A request arrives over the bus (DISK_request): <<disk, request>>, the request
\* with its reply.
Accept(d, r, reply, data) ==
  <<[d EXCEPT !.inqueue = IF r.queue = "HEAD" THEN <<r>> \o @ ELSE Append(@, r)],
    [r EXCEPT !.reply = reply, !.data = data]>>
Wake(p, when) == IF when THEN <<Schedule(p[1], "request"), p[2]>> ELSE p
Answer(d, r, reply) == <<d, [r EXCEPT !.reply = reply, !.bus = FALSE]>>

\* An untagged request makes the disk drop what it does in the background.
Abandons(d, r) ==
  r.queue = "NONE" /\ Busy(d) /\ ~(d.current.op = "WRITE" /\ r.op \in {"SYNC", "WRITE"})

\* The answer to a write that left some of its data in the cache.
WriteReplyEarly(taken, len, fast) ==
  IF taken = 0 THEN "DISCONNECT" ELSE IF taken = len THEN "COMPLETE" ELSE "SAVE_DATA_POINTER"
WriteReply(taken, len, fast) ==
  IF taken = 0 THEN "DISCONNECT"
  ELSE IF fast /\ taken = len THEN "COMPLETE" ELSE "SAVE_DATA_POINTER"

Dispatch(d, r) ==
  CASE r.op = "READ" -> Wake(Accept(d, r, "DISCONNECT", 0), TRUE)
    [] r.op = "SYNC" ->
         Wake(Accept(d, r, IF r.imm THEN "COMPLETE" ELSE "DISCONNECT", 0), d.state = "IDLE")
    [] r.op = "OTHER" -> <<d, [r EXCEPT !.reply = "COMPLETE", !.data = r.len]>>
    [] r.op = "WRITE" ->
         LET b == BufferWrite(d.cache, r.start, r.len)
             fast == r.imm /\ fast_writes
             d0 == IF b.failed THEN Fail(d, "no segment") ELSE d
             d1 == [d0 EXCEPT !.cache = b.cache, !.media = @ \ Extent(r)]
             r1 == [r EXCEPT !.transferred = b.taken, !.bus = b.taken > 0]
         IN IF b.taken = 0 /\ ~fast
            THEN Answer(d0, r, "BUSY")
            ELSE Wake(Accept(d1, r1,
                             WriteReply(b.taken, r.len, fast), b.taken),
                      d.state = "IDLE")

Request(d, req) ==
  LET r == [req EXCEPT !.bus = TRUE]
      overlaps == r.queue = "NONE" /\ (d.inqueue # <<>> \/ Busy(d))
  IN IF r.op \in {"READ", "WRITE"} /\ r.start + r.len > Blocks THEN Answer(d, r, "REJECT")
     ELSE IF overlaps /\ ~(Busy(d) /\ Background(d.current)) THEN Answer(d, r, "BUSY")
     ELSE IF r.queue # "NONE" /\ Len(d.inqueue) >= request_queue THEN Answer(d, r, "BUSY")
     ELSE Dispatch(IF overlaps /\ Abandons(d, r) THEN Idle(d) ELSE d, r)

-----------------------------------------------------------------------------
\* The request event (DISK_request_handler) takes the next request, or starts
\* the one in service anew.
ServeRead(d, r) ==
  LET preempted == r.op = "PREFETCH" /\ d.inqueue # <<>>
      d1 == IF preempted THEN Schedule([d EXCEPT !.current = NoRequest], "request") ELSE d
      hit == Hit(d.cache, r.start, r.len)
      g == ReadSegment(d.cache, r.start)
      n == g.segment
      had == IF hit = "PARTIAL" THEN g.cache[n].hi - r.start ELSE 0
      touched == [Checked(d1, n) EXCEPT
                    !.cache = CASE hit = "FULL" -> TouchRange(g.cache, r.start, r.len)
                                [] hit = "PARTIAL" -> TouchRange(g.cache, r.start, g.cache[n].hi - r.len)
                                [] hit = "MISS" -> g.cache,
                    !.current = IF preempted THEN NoRequest
                                ELSE [r EXCEPT !.current = had, !.segment = n, !.early = FALSE]]
  IN IF n = NoSegment THEN touched
     ELSE IF hit = "FULL"
     THEN Schedule(Idle(IF r.op = "READ"
                        THEN Issue(touched, [Reconnect(r, "COMPLETE", r.len)
                                               EXCEPT !.transferred = r.len])
                        ELSE touched), "request")
     ELSE DoSeek(touched, r.start + had)

\* A fast write that has all its data starts, or lets others start, the writing
\* of whatever is committed.
ServeFastWrite(d, r) ==
  LET w == Dirty(d.cache, 0, Blocks)
      flush == [r EXCEPT !.start = d.cache[w].lo, !.len = d.cache[w].hi - d.cache[w].lo,
                         !.transferred = IF r.bus THEN d.cache[w].hi - d.cache[w].lo ELSE @,
                         !.segment = w]
  IN IF d.state = "IDLE" /\ NoneButAWrite(d)
     THEN IF w = NoSegment THEN Fail(d, "nothing to write")
          ELSE [DoSeek([d EXCEPT !.cache = Touch(@, w)], flush.start) EXCEPT !.current = flush]
     ELSE IF d.state = "IDLE" THEN Schedule([d EXCEPT !.current = NoRequest], "request")
     ELSE IF r.bus THEN d
     ELSE Fail(d, "freed in service")

ServeWrite(d, r) ==
  LET c == CommitWrite(d.cache, r.start, r.len)
      b == BufferWrite(c, r.start, r.len)
      late == r.transferred = 0
      r1 == IF late THEN [r EXCEPT !.transferred = b.taken] ELSE r
      c1 == IF late THEN CommitWrite(b.cache, r.start, r.len) ELSE c
      g == WriteSegment(c1, r.start)
      reply == IF b.taken = r.len THEN "COMPLETE" ELSE "SAVE_DATA_POINTER"
      d1 == IF late THEN Issue(d, Reconnect(r1, reply, b.taken)) ELSE d
      d2 == [d1 EXCEPT !.cache = g.cache, !.current = [r1 EXCEPT !.segment = g.segment]]
  IN IF fast_writes /\ r.imm /\ r.len = r.transferred
     THEN ServeFastWrite([d EXCEPT !.cache = c], r)
     ELSE DoSeek(IF late /\ b.failed THEN Fail(d2, "no segment") ELSE Checked(d2, g.segment),
                 r.start)

\* A write-back has no more segment to write.
SyncDone(d, r) ==
  Schedule(Idle(IF r.imm THEN d ELSE Issue(d, Reconnect(r, "COMPLETE", 0))), "request")

ServeSync(d, r) ==
  LET w == Dirty(d.cache, r.start, IF r.len > 0 THEN r.start + r.len + SegmentSize ELSE Blocks)
      s == d.cache[w]
      r1 == [r EXCEPT !.start = s.lo, !.len = s.hi - s.lo, !.segment = w]
  IN IF w = NoSegment THEN SyncDone(d, r)
     ELSE DoSeek([d EXCEPT !.cache = Touch(@, w), !.current = r1], s.lo)

Serve(d) ==
  LET r == [d.current EXCEPT !.current = 0]
      d1 == [d EXCEPT !.current = r]
  IN CASE r.op \in {"READ", "PREFETCH"} -> ServeRead(d1, r)
       [] r.op = "WRITE" -> ServeWrite(d1, r)
       [] r.op = "SYNC" -> ServeSync(d1, r)

FlushRequest(s, w) ==
  [op |-> "WRITE", type |-> "WRITE", scb |-> 0, start |-> s.lo, len |-> s.hi - s.lo, imm |-> TRUE,
   queue |-> "NONE", target |-> "disk", current |-> 0, transferred |-> s.hi - s.lo,
   segment |-> w, data |-> 0, bus |-> FALSE, reply |-> "none", early |-> FALSE]

RequestHandler(disk) ==
  LET w == Dirty(disk.cache, 0, Blocks)
      d == [disk EXCEPT !.events = @ \ {"request"}, !.cache = Touch(@, w)]
  IN IF fast_writes /\ ~Busy(d) /\ w # NoSegment /\ NoneButAWrite(d)
     THEN Serve([d EXCEPT !.current = FlushRequest(d.cache[w], w)])
     ELSE IF Busy(d) THEN Serve(d)
     ELSE IF d.inqueue = <<>> THEN d
     ELSE Serve([d EXCEPT !.current = Head(d.inqueue), !.inqueue = Tail(@)])

-----------------------------------------------------------------------------
\* The head is over the first sector (DISK_seek_handler).
SeekHandler(disk) ==
  LET d == [disk EXCEPT !.events = @ \ {"seek"}]
  IN IF ~Busy(d) THEN d
     ELSE LET d1 == [d EXCEPT !.state = "TRANSFER"]
          IN IF "request" \in d.events THEN d1 ELSE Schedule(d1, "sector")

\* What the disk has sent, it does not send again; the mutant forgets it.
SentNothing(r) == r
SentSoFar(r) == [r EXCEPT !.transferred = r.current]

\* A sector has passed (DISK_sector_handler). The sectors of a read go to the
\* cache; when enough of them are there the disk asks for the bus, for all of
\* the rest if the media is going to be faster (early).
ReadSector(d, r, early) ==
  LET c == Insert(d.cache, r.start + r.current - 1, 1, r.segment)
      full == Full(c[r.segment])
      g == IF full /\ r.current < r.len THEN ReadSegment(c, r.start + r.current)
           ELSE [cache |-> c, segment |-> r.segment]
      left == r.len - r.transferred
      ready == /\ r.op = "READ" /\ left > 0
               /\ (r.current - r.transferred) * full_den >= left * full_num
      r1 == [r EXCEPT !.segment = g.segment]
      r2 == [Reconnect(r1, "COMPLETE", left) EXCEPT !.transferred = r.len, !.early = TRUE]
      r3 == Reconnect(r1, "SAVE_DATA_POINTER", r.current - r.transferred)
      d1 == [Checked(d, g.segment) EXCEPT !.cache = g.cache]
  IN IF ~ready THEN [d1 EXCEPT !.current = r1]
     ELSE IF early \/ r.current >= r.len THEN Issue([d1 EXCEPT !.current = r2], r2)
     ELSE Issue([d1 EXCEPT !.current = SentSoFar(r1)], r3)

\* A sector of a write segment is on the media; the last of a segment frees it
\* for data of the request that is still to come.
WriteSector(d, r) ==
  LET atEnd == r.current % SegmentSize = 0 \/ r.current = r.len
      c == CompleteWrite(d.cache, r.segment)
      b == BufferWrite(c, r.start + r.transferred, r.len - r.transferred)
      more == r.transferred < r.len
      sent == r.transferred + b.taken
      r1 == IF more THEN [Reconnect(r, IF sent < r.len THEN "SAVE_DATA_POINTER" ELSE "COMPLETE", b.taken)
                            EXCEPT !.transferred = sent] ELSE r
      c1 == IF more THEN CommitWrite(b.cache, r.start + r.transferred, r.len - r.transferred) ELSE c
      d1 == IF more THEN Issue(IF b.failed THEN Fail(d, "no segment") ELSE d, r1) ELSE d
      w == Dirty(c1, 0, Blocks)
      g == WriteSegment(c1, r.start + r.current)
  IN IF ~atEnd THEN d
     ELSE IF fast_writes /\ r.imm /\ r1.type # "RECONNECT"
     THEN IF w = NoSegment THEN Schedule(Idle([d1 EXCEPT !.cache = c1]), "request")
          ELSE [d1 EXCEPT !.cache = Touch(c1, w),
                  !.current = [r1 EXCEPT !.start = c1[w].lo, !.len = c1[w].hi - c1[w].lo,
                                 !.segment = w, !.current = 0,
                                 !.transferred = c1[w].hi - c1[w].lo]]
     ELSE IF r.current < r.len
     THEN [Checked(d1, g.segment) EXCEPT !.cache = g.cache,
             !.current = [r1 EXCEPT !.segment = g.segment]]
     ELSE [d1 EXCEPT !.cache = c1, !.current = r1]

SyncSector(d, r) ==
  LET c == CompleteWrite(d.cache, r.segment)
      w == Dirty(c, 0, Blocks)
  IN IF r.current < r.len THEN d
     ELSE IF w = NoSegment THEN SyncDone([d EXCEPT !.cache = c], r)
     ELSE [d EXCEPT !.cache = Touch(c, w),
             !.current = [r EXCEPT !.start = c[w].lo, !.len = c[w].hi - c[w].lo,
                            !.segment = w, !.current = 0]]

\* On to the next sector, under the head or after a seek; or the end of the
\* request, when a read may go on as a prefetch.
Continue(d, r, near) ==
  IF near THEN [Schedule(d, "sector") EXCEPT !.seek_target = r.start + r.current]
  ELSE DoSeek(d, r.start + r.current)

Finish(d, r) ==
  LET prefetched == [r EXCEPT !.op = "PREFETCH", !.type = "READ", !.start = r.start + r.len,
                              !.imm = TRUE, !.early = FALSE]
      goesOn == /\ r.op = "READ" /\ prefetch
                /\ d.inqueue = <<>> /\ ~Full(d.cache[r.segment])
      last == r.op = "WRITE" /\ ~(fast_writes /\ r.imm)
  IN Schedule(IF goesOn THEN [Idle(d) EXCEPT !.current = prefetched]
              ELSE Idle(IF last THEN Issue(d, Reconnect(r, "COMPLETE", 0)) ELSE d),
              "request")

\* After the block has been moved.
NextSector(d, near) ==
  IF ~Busy(d) THEN d
  ELSE IF d.current.current < d.current.len THEN Continue(d, d.current, near)
  ELSE Finish(d, d.current)

SectorHandler(disk, early, near) ==
  LET r == [disk.current EXCEPT !.current = @ + 1]
      block == r.start + r.current - 1
      d == [disk EXCEPT !.events = @ \ {"sector"}, !.current = r]
      written == [d EXCEPT !.media = @ \cup {block}]
      filled == Insert(d.cache, block, 1, r.segment)
  IN IF ~Busy(disk) THEN [disk EXCEPT !.events = @ \ {"sector"}]
     ELSE IF r.op = "PREFETCH" /\ (d.inqueue # <<>> \/ Full(filled[r.segment]))
     THEN Schedule(Idle([d EXCEPT !.cache = filled]), "request")
     ELSE NextSector(CASE r.op \in {"READ", "PREFETCH"} -> ReadSector(d, r, early)
                       [] r.op = "WRITE" -> WriteSector(written, r)
                       [] r.op = "SYNC" -> SyncSector(written, r), near)
=============================================================================
