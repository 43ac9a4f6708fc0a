------------------------------ MODULE DiskCache ------------------------------
\* The segmented buffer of a disk (IO/disk_cache.c): what each routine does to
\* the array of segments. A segment holds the blocks lo .. hi - 1.
EXTENDS Integers, FiniteSets, Sequences

CONSTANTS Segments, SegmentSize, WriteSegments

ASSUME CacheAssumption ==
  /\ Segments \in Nat \ {0} /\ SegmentSize \in Nat \ {0}
  /\ WriteSegments \in 1 .. Segments

\* An array is kept as a sequence.
Array(f) == SubSeq(f, 1, Segments)
Index == 1 .. Segments
NoSegment == 0  \* index -1 of the C array
EmptySegment == [lo |-> 0, hi |-> 0, lru |-> 0, write |-> FALSE, committed |-> FALSE]
CacheInit == Array([n \in Index |-> EmptySegment])

Least(S) == CHOOSE n \in S : \A m \in S : n <= m
FirstOf(S) == IF S = {} THEN NoSegment ELSE Least(S)

Holds(s, b) == s.lo <= b /\ b < s.hi
Full(s) == s.hi - s.lo >= SegmentSize
Pending(s) == s.write /\ ~s.committed

\* Every other segment that was used later grows older by one.
Touch(c, n) ==
  IF n = NoSegment THEN c
  ELSE Array([m \in Index |->
         IF m = n THEN [c[m] EXCEPT !.lru = Segments - 1]
         ELSE IF c[m].lru > c[n].lru THEN [c[m] EXCEPT !.lru = @ - 1] ELSE c[m]])

\* The first segment of an age decides: a write segment sends the search to the
\* next age, and an age nobody has ends it.
NewSegment(c) ==
  LET First(age) == FirstOf({n \in Index : c[n].lru = age})
      Passed(age) == First(age) # NoSegment /\ c[First(age)].write
  IN First(Least({age \in 0 .. Segments : ~Passed(age)}))

Cleared(c, n) ==
  IF n = NoSegment THEN c
  ELSE [c EXCEPT ![n] = [EmptySegment EXCEPT !.lru = c[n].lru]]

Allocate(c) == LET n == NewSegment(c) IN [cache |-> Touch(Cleared(c, n), n), segment |-> n]

Hit(c, start, len) ==
  LET Cached(b) == \E n \in Index : ~Pending(c[n]) /\ Holds(c[n], b)
  IN IF ~Cached(start) THEN "MISS"
     ELSE IF \A b \in start .. start + len - 1 : Cached(b) THEN "FULL" ELSE "PARTIAL"

\* The segment a read fills: one that holds the block or that it would extend.
ReadSegment(c, start) ==
  LET n == FirstOf({m \in Index :
             /\ ~c[m].write
             /\ \/ Holds(c[m], start)
                \/ start \in c[m].lo .. c[m].hi /\ ~Full(c[m])})
  IN IF n = NoSegment THEN Allocate(c) ELSE [cache |-> Touch(c, n), segment |-> n]

\* The segment a write to the media empties.
WriteSegment(c, start) ==
  LET n == FirstOf({m \in Index : c[m].write /\ c[m].committed /\ Holds(c[m], start)})
  IN IF n = NoSegment THEN Allocate(c) ELSE [cache |-> Touch(c, n), segment |-> n]

\* The first committed write segment inside the range.
Dirty(c, start, end) ==
  FirstOf({m \in Index : c[m].write /\ c[m].committed /\ start <= c[m].lo /\ end >= c[m].hi})

Room(c, n, len) ==
  LET free == SegmentSize - (c[n].hi - c[n].lo) IN IF len > free THEN free ELSE len

Insert(c, start, len, n) ==
  IF n = NoSegment THEN c
  ELSE LET end == start + Room(c, n, len)
           s == Touch(c, n)[n]
       IN [Touch(c, n) EXCEPT ![n] =
            [s EXCEPT !.lo = IF start = s.hi \/ (Holds(s, start) /\ end > s.hi) THEN @ ELSE start,
                      !.hi = end,
                      !.committed = TRUE]]

RECURSIVE TouchFrom(_, _, _, _)
\* A segment that ends inside the range moves the search to its end.
TouchFrom(c, n, start, end) ==
  IF n > Segments THEN c
  ELSE IF ~Holds(c[n], start) THEN TouchFrom(c, n + 1, start, end)
  ELSE IF end > c[n].hi THEN TouchFrom(Touch(c, n), 1, c[n].hi, end)
  ELSE TouchFrom(Touch(c, n), n + 1, start, end)

TouchRange(c, start, len) == TouchFrom(c, 1, start, start + len)

RECURSIVE Buffer(_, _, _, _)
\* Fresh segments for the blocks of a write, as long as write segments are left.
Buffer(c, start, len, done) ==
  LET n == NewSegment(c)
      fresh == Cleared(c, n)
      taken == IF n = NoSegment THEN 0 ELSE Room(fresh, n, len)
      next == [Insert(fresh, start, len, n) EXCEPT ![n].write = TRUE, ![n].committed = FALSE]
      writes == Cardinality({m \in Index : next[m].write})
  IN IF n = NoSegment THEN [cache |-> c, taken |-> done, failed |-> TRUE]
     ELSE IF writes < WriteSegments /\ len > taken
          THEN Buffer(next, start + taken, len - taken, done + taken)
     ELSE [cache |-> next, taken |-> done + taken, failed |-> FALSE]

BufferWrite(c, start, len) ==
  IF Cardinality({m \in Index : c[m].write}) >= WriteSegments
  THEN [cache |-> c, taken |-> 0, failed |-> FALSE]
  ELSE Buffer(c, start, len, 0)

\* What a write leaves of a segment that was read before it.
Overwritten(s, start, end) ==
  LET dropped == [s EXCEPT !.lo = 0, !.hi = 0, !.committed = FALSE, !.lru = 0]
  IN IF s.write THEN s
     ELSE IF start <= s.lo /\ s.lo < end /\ end < s.hi THEN [s EXCEPT !.lo = end]
     ELSE IF start > s.lo /\ end <= s.hi THEN dropped
     ELSE IF start > s.lo /\ start <= s.hi /\ end > s.lo /\ end >= s.hi
          THEN [s EXCEPT !.hi = start]
     ELSE IF start <= s.lo /\ end >= s.hi THEN dropped
     ELSE s

RECURSIVE CommitFrom(_, _)
\* Segments that follow one another are committed together, whoever filled them.
CommitFrom(c, start) ==
  LET n == FirstOf({m \in Index : c[m].write /\ c[m].lo = start})
  IN IF n = NoSegment THEN c ELSE CommitFrom([c EXCEPT ![n].committed = TRUE], c[n].hi)

CommitWrite(c, start, len) ==
  CommitFrom(Array([n \in Index |-> Overwritten(c[n], start, start + len)]), start)

CompleteWrite(c, n) == IF n = NoSegment THEN c ELSE [c EXCEPT ![n].write = FALSE]
=============================================================================
