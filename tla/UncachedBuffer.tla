--------------------------- MODULE UncachedBuffer ---------------------------
\* The uncached buffer of one processor (Caches/ubuf.c): uncached loads and
\* stores and memory barriers leave the memory unit in program order, accesses
\* to the words of one line are combined, and one transaction at a time goes to
\* the bus. An access is named by its index in `prog`; addresses count words.
EXTENDS Integers, Sequences, FiniteSets, FiniteSetsExt, SequencesExt

CONSTANTS
  ubufsize,       \* entries
  ubufentrysize,  \* request slots of an entry, a power of two
  ubufflush,      \* number of entries from which the buffer sends on its own
  combine         \* ubuftype: "comb" (TRUE) or "nocomb"

ASSUME BufferAssumption ==
  /\ ubufsize \in Nat \ {0} /\ ubufentrysize \in {2^k : k \in 0..5}
  /\ ubufflush \in Nat \ {0} /\ combine \in BOOLEAN

VARIABLES
  prog,                \* the accesses of the program: [op, addr, words]
  issued,              \* how many have entered the buffer
  entries,             \* oldest first: [type, address, fence, busy, reqs]
  cur_reads,           \* what makes the buffer send below the threshold
  transaction_pending, \* a transaction waits for the bus, or for its data
  bus_waiter,          \* the transaction that waits for the bus, or NoAccesses
  completed,           \* accesses reported to the memory unit
  hung                 \* MaxCoalesce never returned

bufferVars == <<prog, issued, entries, cur_reads, transaction_pending,
                bus_waiter, completed, hung>>

NULL == 0
NoAccesses == <<>>
Slots == 0..(ubufentrysize - 1)

\* line_mask is applied to the byte address, the slot is the word's.
LineOf(k) == (4 * prog[k].addr) - ((4 * prog[k].addr) % ubufentrysize)
SlotOf(k) == prog[k].addr % ubufentrysize
IsSubWord(k) == prog[k].words = 0

BufferInit(p) ==
  /\ prog = p
  /\ issued = 0
  /\ entries = <<>>
  /\ cur_reads = 0
  /\ transaction_pending = FALSE
  /\ bus_waiter = NoAccesses
  /\ completed = {}
  /\ hung = FALSE

\* An uncached load is issued at the head of the active list: nothing follows it
\* until it has completed.
LoadOutstanding == \E k \in 1..issued : prog[k].op = "READ" /\ k \notin completed

\* A barrier is a mark on the newest entry; it is forgotten if there is none.
AddBarrier ==
  /\ ~hung /\ issued < Len(prog) /\ ~LoadOutstanding
  /\ prog[issued + 1].op = "BARRIER"
  /\ issued' = issued + 1
  /\ completed' = completed \cup {issued + 1}
  /\ IF entries = <<>> THEN UNCHANGED <<entries, cur_reads>>
     ELSE /\ entries' = [entries EXCEPT ![Len(entries)].fence = TRUE]
          /\ cur_reads' = cur_reads + 1
  /\ UNCHANGED <<prog, transaction_pending, bus_waiter, hung>>

\* The newest entry of the line that is not behind an entry of another type, a
\* marked one or one that is being sent.
CombinesWith(k) ==
  IF ~combine \/ IsSubWord(k) THEN {}
  ELSE {n \in 1..Len(entries) :
          /\ entries[n].address = LineOf(k)
          /\ \A m \in n..Len(entries) :
               entries[m].type = prog[k].op /\ ~entries[m].fence /\ ~entries[m].busy}

OldestEntryFor(k) ==
  IF CombinesWith(k) # {} THEN Min(CombinesWith(k)) ELSE Len(entries) + 1

EntryFor(k) ==
  IF CombinesWith(k) # {} THEN Max(CombinesWith(k)) ELSE Len(entries) + 1

StallsLate(top) == top > ubufsize + 1
Stalls(top) == top > ubufsize

EmptyEntry == [s \in Slots |-> NULL]

\* The request takes its slot; one that was there is reported complete without
\* having been performed.
AddRequest ==
  LET k   == issued + 1
      top == EntryFor(k)
      old == IF top > Len(entries) THEN EmptyEntry ELSE entries[top].reqs
      new == [type |-> prog[k].op, address |-> LineOf(k), fence |-> FALSE,
              busy |-> FALSE, reqs |-> [old EXCEPT ![SlotOf(k)] = k]]
  IN /\ ~hung /\ issued < Len(prog) /\ ~LoadOutstanding
     /\ prog[k].op # "BARRIER"
     /\ ~Stalls(top)
     /\ entries' = IF top > Len(entries) THEN Append(entries, new)
                   ELSE [entries EXCEPT ![top] = new]
     /\ completed' = completed \cup ({old[SlotOf(k)]} \ {NULL})
     /\ cur_reads' = IF prog[k].op = "READ" THEN cur_reads + 1 ELSE cur_reads
     /\ issued' = k
     /\ UNCHANGED <<prog, transaction_pending, bus_waiter, hung>>

Occupied(reqs) == {s \in Slots : reqs[s] # NULL}

\* The slots MaxCoalesce visits from `start`: each request is followed by the
\* slot behind its last word.
RunFrom(reqs, start) ==
  LET run[s \in 0..(2 * ubufentrysize)] ==
        IF s \notin Slots THEN {}
        ELSE IF reqs[s] = NULL THEN {}
        ELSE IF IsSubWord(reqs[s]) THEN {s}
        ELSE {s} \cup run[s + prog[reqs[s]].words]
  IN run[start]

\* A request of less than a word does not advance the loop.
NeverReturns(reqs, start) ==
  /\ ~IsSubWord(reqs[start])
  /\ \E s \in RunFrom(reqs, start) : IsSubWord(reqs[s])

Words(reqs, slots) == MapThenSumSet(LAMBDA s : prog[reqs[s]].words, slots)

\* The largest aligned power of two of words that starts at `start`.
MaxCoalesce(reqs, start) ==
  LET sizes == {ubufentrysize \div (2^k) : k \in 0..5} \ {0}
      align == Max({a \in sizes : start % a = 0})
      max   == Words(reqs, RunFrom(reqs, start))
  IN IF IsSubWord(reqs[start]) THEN 0
     ELSE IF max >= align THEN align
     ELSE Max({a \in sizes : a <= max})

\* UBuffer_out_sim: the first requests of the oldest entry become one
\* transaction. The entry goes when nothing is left behind the words sent.
SendTransaction ==
  LET reqs  == entries[1].reqs
      start == Min(Occupied(reqs))
      coals == MaxCoalesce(reqs, start)
      sent  == {s \in Occupied(reqs) \cap RunFrom(reqs, start) : s = start \/ s < start + coals}
      left  == {s \in Occupied(reqs) \ sent : s >= start + coals}
      reads == IF entries[1].type = "READ" THEN Cardinality(sent) ELSE 0
      fence == IF left = {} /\ entries[1].fence THEN 1 ELSE 0
  IN /\ ~hung /\ entries # <<>> /\ ~transaction_pending
     /\ Len(entries) >= ubufflush \/ cur_reads > 0
     /\ IF NeverReturns(reqs, start)
        THEN /\ hung' = TRUE
             /\ UNCHANGED <<entries, cur_reads, transaction_pending, bus_waiter>>
        ELSE /\ bus_waiter' = [n \in 1..Cardinality(sent) |->
                   reqs[CHOOSE s \in sent : Cardinality({t \in sent : t <= s}) = n]]
             /\ transaction_pending' = TRUE
             /\ cur_reads' = cur_reads - reads - fence
             /\ entries' =
                  IF left = {} THEN Tail(entries)
                  ELSE [entries EXCEPT ![1].busy = TRUE,
                          ![1].reqs = [s \in Slots |-> IF s \in sent THEN NULL ELSE reqs[s]]]
             /\ UNCHANGED hung
     /\ UNCHANGED <<prog, issued, completed>>

BufferStep == AddBarrier \/ AddRequest \/ SendTransaction

BufferTypeOK ==
  /\ issued \in 0..Len(prog)
  /\ Len(entries) <= ubufsize
  /\ \A n \in DOMAIN entries :
       /\ entries[n].type \in {"READ", "WRITE"}
       /\ entries[n].reqs \in [Slots -> 0..Len(prog)]
       /\ Occupied(entries[n].reqs) # {}
  /\ cur_reads \in Int
  /\ completed \subseteq 1..Len(prog)
=============================================================================
