------------------------------- MODULE MCScsi -------------------------------
EXTENDS Scsi

Command(op, start, len, queue) ==
  [op |-> op, start |-> start, len |-> len, imm |-> FALSE, queue |-> queue, target |-> "disk"]
Read(start, len)  == Command("READ", start, len, "SIMPLE")
Write(start, len) == Command("WRITE", start, len, "SIMPLE")
Sync              == Command("SYNC", 0, 0, "SIMPLE")
Untagged(c)   == [c EXCEPT !.queue = "NONE"]
AtHead(c)     == [c EXCEPT !.queue = "HEAD"]
Immediate(c)  == [c EXCEPT !.imm = TRUE]
Elsewhere(c)  == [c EXCEPT !.target = "none"]
Inquiry       == Command("OTHER", 0, 1, "SIMPLE")

\* Ordinary commands, with more of them than the queue of the disk holds, writes
\* that find no write segment, commands the disk rejects and a missing target.
Ordinary == {
  <<Write(0, 2), Write(2, 2), Write(4, 1), Read(0, 2)>>,
  <<Read(0, 2), Read(2, 2), Read(4, 2), Inquiry>>,
  <<AtHead(Write(0, 2)), Read(0, 2), Immediate(Sync), Write(3, 1)>>,
  <<Untagged(Write(0, 2)), Untagged(Sync), Untagged(Read(1, 3)), Untagged(Inquiry)>>,
  <<Immediate(Write(0, 2)), Immediate(Write(2, 2)), Sync>>,
  <<Write(0, 1), Read(0, 2), Sync>>,
  <<Elsewhere(Read(0, 1)), Read(5, 4), Inquiry>>,
  <<Read(0, 2), Read(1, 4)>>}

\* A write larger than the write segments; early acknowledged writes whose segments
\* are gone when they are served; an untagged command among tagged ones.
LongWrite  == {<<Write(0, 5)>>}
FastWrites == {<<Immediate(Write(0, 2)), Read(0, 2), Immediate(Write(2, 2)), Sync>>}
MixedTags == {<<Read(0, 2), Untagged(Read(2, 2))>>}
=============================================================================
