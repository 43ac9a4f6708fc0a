---------------------------- MODULE MCUncachedIO ----------------------------
EXTENDS UncachedIO

Byte(w)  == [op |-> "WRITE", addr |-> w, words |-> 0]
Word(w)  == [op |-> "WRITE", addr |-> w, words |-> 1]
Double(w) == [op |-> "WRITE", addr |-> w, words |-> 2]
Load(w)  == [op |-> "READ", addr |-> w, words |-> 1]
Barrier  == [op |-> "BARRIER", addr |-> 0, words |-> 0]

Do(kind, line) == [kind |-> kind, line |-> line]
Interrupt == Do("INTERRUPT", 0)

NoSnoops == <<>>
Device == <<Do("READ_CURRENT", 1), Interrupt>>

\* Words 0 and 1 share a line, so do 2 and 3.
Buffers == {
  [prog |-> <<Word(0), Word(1), Word(0), Word(2), Barrier, Word(0), Load(1), Word(1), Barrier>>,
   dma |-> Device, snoops |-> NoSnoops],
  [prog |-> <<Double(0), Word(2), Double(0), Load(2), Word(0), Barrier, Word(0), Word(3), Barrier>>,
   dma |-> Device, snoops |-> NoSnoops],
  [prog |-> <<Byte(0), Byte(0), Word(0), Word(3), Barrier, Load(0), Byte(1), Barrier>>,
   dma |-> Device, snoops |-> NoSnoops]}

\* DMA of a controller against requests of the caches for the same lines.
Transfers == {
  [prog |-> <<Word(0), Barrier, Load(0)>>,
   dma |-> <<Do("READ_OWN", 1), Do("READ_CURRENT", 2), Interrupt>>,
   snoops |-> <<Do("READ_SH", 1), Do("READ_OWN", 2)>>],
  [prog |-> <<Load(0), Word(0), Barrier>>,
   dma |-> <<Do("READ_OWN", 1), Do("READ_OWN", 2), Do("WRITEPURGE", 3)>>,
   snoops |-> <<Do("READ_OWN", 1), Do("READ_SH", 3)>>]}

Ordinary == Buffers \cup Transfers

\* A byte next to a word, a word inside a double, the device's requests up to the
\* bus's limit, two of its requests for one line.
ByteThenWord == {[prog |-> <<Byte(1), Word(0), Barrier>>, dma |-> <<>>, snoops |-> NoSnoops]}
DoubleThenWord == {[prog |-> <<Double(0), Word(1), Barrier>>, dma |-> <<>>, snoops |-> NoSnoops]}
ManyRequests == {
  [prog |-> <<>>, dma |-> <<Do("READ_OWN", 1), Do("READ_CURRENT", 2)>>,
   snoops |-> <<Do("READ_SH", 1), Do("READ_SH", 3)>>]}
SameLine == {
  [prog |-> <<>>, dma |-> <<Do("READ_CURRENT", 1), Do("READ_OWN", 1)>>,
   snoops |-> <<Do("READ_SH", 1)>>]}
=============================================================================
