--------------------------- MODULE MCL2Coherence ---------------------------
(* Small instances of L2Coherence for TLC. *)
EXTENDS L2Coherence, TLC

CONSTANTS c1, c2, x, y, z

OneWay  == 1 .. 1
TwoWays == 1 .. 2
FourWays == 1 .. 4
CPUSymmetry == Permutations({c1, c2})

(* What the processors issue, one definition per question. *)

\* Both processors read and write one line.
Sharing  == {c1, c2} \X {"READ", "WRITE"} \X {x}
\* One reads and writes a line that the other writes: a copy, an upgrade and the loss
\* of either to a write all happen, in about half of Sharing's states.
Contending == {<<c1, "READ", x>>, <<c1, "WRITE", x>>, <<c2, "WRITE", x>>}
\* One writes what the other reads: the line migrates by copies and upgrades.
ProducerConsumer == {<<c1, "WRITE", x>>, <<c2, "READ", x>>}
\* Two lines fight for one way of the first cache; the second cache reads one.
Evicting == {c1} \X {"WRITE"} \X {x, y} \cup {<<c2, "READ", x>>}
\* Flushes and purges meet the snoops of the other cache.
Flushing == {c1} \X {"WRITE", "FLUSHC", "PURGEC"} \X {x} \cup {<<c2, "READ", x>>}
\* Both share and upgrade a line that one of them also flushes.
FlushedUpgrade == Sharing \cup {<<c2, "FLUSHC", x>>}
\* The owner of x has two requests of its own under way.
BusyOwner == {<<c1, "READ", x>>, <<c2, "WRITE", x>>, <<c2, "READ", y>>, <<c2, "READ", z>>}

-----------------------------------------------------------------------------
(* Warm starts: everything idle, the caches filled by an earlier history.   *)

IdleWith(t) ==
  /\ wbuf = [c \in CPUs |-> <<>>] /\ reqq = [c \in CPUs |-> <<>>]
  /\ tags = t
  /\ mshr = [r \in Request |-> FreeMSHR]
  /\ coheq = [c \in CPUs |-> <<>>] /\ replyq = [c \in CPUs |-> <<>>]
  /\ dpipe = [c \in CPUs |-> <<>>] /\ dcp = [c \in CPUs |-> None]
  /\ sif = [c \in CPUs |-> IdleInterface]
  /\ mmcq = <<>> /\ bus = IdleBus /\ error = {}
Line(tag, state) == [tag |-> tag, state |-> state, mshr_out |-> FALSE]

\* c1 still holds y, which it has written: the line it fetches next takes y's way, and
\* y goes to memory between the snoops.
VictimSpec ==
  IdleWith(c1 :> <<Line(y, "PR_DY")>> @@ c2 :> <<EmptyLine>>) /\ [][Next]_vars

\* c1 read x and lost it to a write of c2, which then read y into the same way.
\* Now c1 refetches x while y comes and is upgraded.
LostWaySpec ==
  IdleWith(c1 :> <<Line(x, "INVALID")>> @@ c2 :> <<Line(y, "PR_CL")>>) /\ [][Next]_vars
LostWay == {<<c1, "READ", x>>, <<c1, "READ", y>>, <<c1, "WRITE", y>>}

\* c2 has written x.  Both caches miss on y, and c1 on x: c1's snoop of y holds
\* back the report on its own request for x.
DirtyElsewhereSpec ==
  IdleWith(c1 :> <<EmptyLine, EmptyLine>> @@ c2 :> <<Line(x, "PR_DY"), EmptyLine>>)
  /\ [][Next]_vars
TwoLines == {<<c1, "READ", x>>, <<c1, "READ", y>>, <<c2, "READ", y>>}
=============================================================================
