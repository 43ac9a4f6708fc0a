------------------------- MODULE MCCacheHierarchy -------------------------
\* The caches of one processor on three lines.
EXTENDS CacheHierarchy

ThreeLines == {"a", "b", "c"}
D(kind, x) == [cache |-> "D", kind |-> kind, line |-> x]
I(x) == [cache |-> "I", kind |-> "READ", line |-> x]
AllPrograms ==
  {<<D("WRITE", "a"), D("READ", "b"), D("WRITE", "a")>>,
   <<D("READ", "a"), D("RMW", "a"), D("FLUSHC", "a"), I("b")>>,
   <<I("a"), D("WRITE", "a"), D("READ", "b")>>,
   <<D("WRITE", "a"), D("WRITE", "a"), D("RMW", "b"), D("READ", "c")>>,
   <<D("RMW", "a"), D("FLUSHC", "a"), D("READ", "b"), I("c")>>,
   <<D("RMW", "a"), D("PURGEC", "a"), D("READ", "a")>>,
   <<D("WRITE", "a"), D("FLUSHC", "a"), D("READ", "a"), D("FLUSHC", "a")>>,
   <<D("READ", "a"), I("a"), D("READ", "a"), D("WRITE", "a")>>}
\* Flushes of lines that a first-level cache is fetching.
FlushPrograms ==
  {<<D("RMW", "a"), D("FLUSHC", "a"), D("READ", "b")>>,
   <<D("READ", "a"), D("FLUSHC", "a"), I("a"), D("READ", "a")>>}
Requests1(c) == \/ Hit1(c) \/ Forward1(c) \/ New1(c) \/ Coalesce1(c) \/ StallWAR1(c) \/ FlushPurge1(c) \/ Send1(c)
Replies1(c) == Reply1(c) \/ StuckReply1(c)
Messages1(c) == Cohe1(c) \/ StuckCohe1(c)
Requests2 == WBack2 \/ FlushPurge2 \/ Hit2 \/ Send2 \/ New2 \/ Coalesce2 \/ StallWAR2
Coherence2 == OwnCohe2 \/ Cohe2
Replies2 == Reply2 \/ Write2
\* Every pipeline is looked at in every cycle, and the bus serves every request.
FairSpec ==
  /\ Spec /\ WF_vars(Issue)
  /\ \A c \in Caches : WF_vars(Requests1(c)) /\ WF_vars(Replies1(c)) /\ WF_vars(Messages1(c))
  /\ WF_vars(Requests2) /\ WF_vars(Coherence2) /\ WF_vars(Replies2) /\ WF_vars(Data2)
  /\ \A x \in Lines : WF_vars(BusIssue(x)) /\ WF_vars(BusReply(x))

\* Every access ends (the caches never wait for each other for ever).
EveryAccessEnds == <>(\A n \in DOMAIN done.count : done.count[n] = 1)

\* The first level holds no line that the second has lost, unless the message that
\* takes it away is on its way.
Inclusion ==
  \A c \in Caches, x \in Lines :
    Miss(l1[c].ways, x) = 0 =>
      \/ Miss(l2.ways, x) = 0
      \/ \E k \in DOMAIN l1[c].down : l1[c].down[k].line = x /\ l1[c].down[k].to = "INVALIDATE"
                                      /\ l1[c].down[k].kind = "COHE"

=============================================================================
