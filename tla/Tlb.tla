-------------------------------- MODULE Tlb --------------------------------
\* The translation buffers of a processor (Processor/tlb.cc) as operators on a
\* record: its kind, its entries, the ages of the set-associative kind and the
\* index where the fully associative kinds start to look. Addresses are page
\* numbers; the data of an entry are the fields of a page table word.
EXTENDS Integers, Sequences, FiniteSets

NoData == [frame |-> <<>>, mvalid |-> FALSE, rdonly |-> FALSE, priv |-> FALSE]
NoEntry == [valid |-> FALSE, tag |-> 0, context |-> 0, data |-> NoData, age |-> 0]
Slots(t) == 0 .. t.size - 1
NewTLB(type, size, assoc, tagged) ==
  [type |-> type, size |-> size, assoc |-> assoc, tagged |-> tagged, index |-> 0,
   entries |-> [n \in 0 .. size - 1 |-> NoEntry]]

\* The entries an address may be in.
Base(t, page) ==
  CASE t.type = "DIRECT" -> page % t.size
    [] t.type = "SET"    -> (page % (t.size \div t.assoc)) * t.assoc
    [] OTHER             -> 0
Ways(t, page) ==
  CASE t.type = "DIRECT" -> {Base(t, page)}
    [] t.type = "SET"    -> Base(t, page) .. Base(t, page) + t.assoc - 1
    [] OTHER             -> Slots(t)

\* The mutant never compares the address space.
MatchesAnySpace(t, n, page, context) == t.entries[n].tag = page /\ t.entries[n].valid
Matches(t, n, page, context) ==
  /\ t.entries[n].tag = page /\ t.entries[n].valid
  /\ t.tagged => t.entries[n].context = context

\* The search starts at index, or at the first way of the set.
Order(t, n) == IF t.type \in {"FULLY", "PERFECT"} THEN (n - t.index + t.size) % t.size ELSE n
Found(t, page, context) ==
  LET hits == {n \in Ways(t, page) : Matches(t, n, page, context)}
  IN IF hits = {} THEN -1 ELSE CHOOSE n \in hits : \A o \in hits : Order(t, n) <= Order(t, o)

Allowed(data, write, priv) == data.mvalid /\ ~(write /\ data.rdonly) /\ (priv \/ ~data.priv)

\* A hit in a set makes its entry the youngest of the set. The mutant leaves the
\* others as they are.
YoungestOnly(t, n, set) == [t.entries EXCEPT ![n].age = t.assoc - 1]
Youngest(t, n, set) ==
  [o \in Slots(t) |->
     IF o = n THEN [t.entries[n] EXCEPT !.age = t.assoc - 1]
     ELSE IF o \in set /\ t.entries[o].age > t.entries[n].age
          THEN [t.entries[o] EXCEPT !.age = @ - 1] ELSE t.entries[o]]

\* The lookup: what it finds and the buffer it leaves. The perfect buffer reads a
\* missing word from the page table and keeps it, whatever the access may do.
LookUp(t, page, context, write, priv, walk) ==
  LET n == Found(t, page, context)
      hit == t.entries[n]
      filled == [NoEntry EXCEPT !.valid = TRUE, !.tag = page, !.context = context, !.data = walk]
      Outcome(data) == IF Allowed(data, write, priv) THEN "HIT" ELSE "FAULT"
  IN IF n # -1
     THEN [result |-> Outcome(hit.data), data |-> hit.data,
           tlb |-> CASE t.type \in {"FULLY", "PERFECT"} -> [t EXCEPT !.index = n]
                     [] t.type = "SET" /\ Outcome(hit.data) = "HIT" ->
                          [t EXCEPT !.entries = Youngest(t, n, Ways(t, page))]
                     [] OTHER -> t]
     ELSE IF t.type = "PERFECT"
     THEN [result |-> Outcome(walk), data |-> walk,
           tlb |-> IF walk.mvalid THEN [t EXCEPT !.entries[t.index] = [filled EXCEPT !.age = t.entries[t.index].age]]
                   ELSE t]
     ELSE [result |-> "MISS", data |-> NoData, tlb |-> t]

\* The entry a miss should fill: the first invalid one of the set, or the last one
\* of age 0, of which there must be one.
MissEntry(t, page) ==
  LET invalid == {n \in Ways(t, page) : ~t.entries[n].valid}
      oldest == {n \in Ways(t, page) : t.entries[n].age = 0}
  IN CASE t.type = "DIRECT" -> Base(t, page)
       [] t.type = "SET" ->
            IF invalid # {} THEN CHOOSE n \in invalid : \A o \in invalid : n <= o
            ELSE IF oldest # {} THEN CHOOSE n \in oldest : \A o \in oldest : n >= o
            ELSE -1
       [] OTHER -> 0

\* A probe looks at every entry, in whatever address space. The index of a failed
\* one has only its sign bit set, which is 0 modulo the size of a buffer.
ProbeEntry(t, page) ==
  LET hits == {n \in Slots(t) : t.entries[n].tag = page /\ t.entries[n].valid}
  IN IF hits = {} THEN 0 ELSE CHOOSE n \in hits : \A o \in hits : n <= o

\* The tag register holds a page and the valid bit.
WriteEntry(t, n, tag, context, data) ==
  [t EXCEPT !.entries[n % t.size] = [valid |-> tag.valid, tag |-> tag.page, context |-> context,
                                     data |-> data, age |-> @.age]]

\* A tagged buffer is not flushed.
Flush(t) ==
  IF t.tagged THEN t
  ELSE [t EXCEPT !.entries = [n \in Slots(t) |-> [t.entries[n] EXCEPT !.valid = FALSE, !.tag = 0]]]

\* The page table word at addr: the youngest store to it that is older than tag, or
\* memory. A doubleword covers addr and, in the second half, the word before it.
tlb_read_word(mem, stores, addr, tag) ==
  LET Covers(s) == s.ready /\ s.tag < tag
                   /\ (s.addr = addr \/ (s.op = "STD" /\ s.addr = addr + 1))
      older == {k \in DOMAIN stores : Covers(stores[k])}
      last == CHOOSE k \in older : \A o \in older : k >= o
  IN IF older = {} THEN mem[addr]
     ELSE IF stores[last].addr = addr THEN stores[last].a ELSE stores[last].b
=============================================================================
