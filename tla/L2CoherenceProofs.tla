-------------------------- MODULE L2CoherenceProofs --------------------------
(***************************************************************************)
(* The L2 caches, the bus and the coherence side of the memory controller  *)
(* keep to Snooping, for any number of caches, lines, ways, MSHRs and      *)
(* buffers, until a reply takes a way that an UPGRADE has locked; so a     *)
(* line private in one cache is valid in no other.                         *)
(*                                                                         *)
(* The proof is along the invariant CInv of L2InvariantProofs, here for    *)
(* the steps that the bus, the memory controller and the snoops take.  It  *)
(* holds together with Snooping's own invariant, which tells that no two   *)
(* dirty caches answer one request.                                        *)
(*                                                                         *)
(* A line that an UPGRADE has locked may lose its way to another reply of  *)
(* its cache.  CoherenceIsKept shows that this is the one thing that can   *)
(* make the caches disagree.  With one MSHR to a cache there is no other   *)
(* reply (OneMSHR), and the other theorems hold for every behaviour.       *)
(***************************************************************************)
EXTENDS L2InvariantProofs

-----------------------------------------------------------------------------
(* The bus carries a request *)

\* The request that is on the bus is idle, has its MSHR, and nothing else of it
\* is anywhere.
LEMMA RequestOnBus ==
  ASSUME CInv, OnBus("REQUEST")
  PROVE  \E r \in Request :
           /\ r = bus.cur.t.req /\ OnItsWay(r) /\ Stage(r) = "idle" /\ mshr[r].valid
           /\ mshr[r].phase = "out" /\ Unanswered(r)
           /\ \A m \in Masters : /\ ~Pending(m, r) /\ \A t \in TokensOf(r) : ~Waits(m, t) /\ ~Won(m, t)
           /\ \A c \in CPUs : ~Holds(c, r)
           /\ \A q \in Request, m \in Masters : \A t \in TokensOf(q) :
                q # r => ~Runs(m, t)
<1>1. bus.cur \in Grants /\ bus.cur.t.type = "REQUEST"
  BY DEF CInv, Types, OnBus
<1>2. PICK m \in Masters, r \in Request : bus.cur = [who |-> m, t |-> REQ(r)] /\ r = bus.cur.t.req
  <2>1. bus.cur = [who |-> bus.cur.who, t |-> bus.cur.t] /\ bus.cur.who \in Masters /\ bus.cur.t \in Items
    BY <1>1, Transactions
  <2>2. bus.cur.t = REQ(bus.cur.t.req) /\ bus.cur.t.req \in Request
    BY <1>1, <2>1, Transactions
  <2> QED BY <2>1, <2>2
<1>3. Runs(m, REQ(r)) /\ At(m, REQ(r)) /\ OnItsWay(r)
  BY <1>1, <1>2, Transactions DEF Runs, At, OnItsWay, REQ
<1>4. RequestIsSound(r)
  BY DEF CInv
<1>5. m = r[1] /\ mshr[r].valid /\ mshr[r].phase = "out"
  BY <1>3, <1>4 DEF RequestIsSound, RequestGoesOnce
<1>6. Unanswered(r) /\ Stage(r) = "idle"
  BY <1>3, <1>4, <1>5 DEF RequestIsSound, WritesAreExclusive, Stage
<1>7. \A c \in CPUs : ~Holds(c, r)
  BY <1>3, <1>4 DEF RequestIsSound, CopyGoesOnce
<1>8. \A n \in Masters : /\ ~Pending(n, r) /\ ~At(n, REP(r)) /\ ~At(n, COPY(r))
                         /\ ~Waits(n, REQ(r)) /\ ~Won(n, REQ(r))
  <2> SUFFICES ASSUME NEW n \in Masters
               PROVE  /\ ~Pending(n, r) /\ ~At(n, REP(r)) /\ ~At(n, COPY(r))
                      /\ ~Waits(n, REQ(r)) /\ ~Won(n, REQ(r))
    OBVIOUS
  <2>1. ~Waits(m, REQ(r)) /\ ~Won(m, REQ(r))
    BY <1>3, <1>4, Tokens DEF RequestIsSound, SentOnce
  <2>2. At(n, REQ(r)) => n = m
    BY <1>4, <1>5 DEF RequestIsSound, RequestGoesOnce
  <2>3. ~Pending(n, r)
    BY <1>3, <1>4, <1>5 DEF RequestIsSound, RequestGoesOnce
  <2>4. ~At(n, REP(r))
    BY <1>4, <1>5 DEF RequestIsSound, ReplyGoesOnce
  <2>5. ~At(n, COPY(r))
    BY <1>4, <1>7 DEF RequestIsSound, CopyGoesOnce, Holds
  <2> QED BY <2>1, <2>2, <2>3, <2>4, <2>5 DEF At
<1>9. \A n \in Masters : ~Pending(n, r) /\ \A t \in TokensOf(r) : ~Waits(n, t) /\ ~Won(n, t)
  BY <1>8 DEF TokensOf, At
<1>10. ASSUME NEW q \in Request, NEW n \in Masters, NEW t \in TokensOf(q), q # r
       PROVE  ~Runs(n, t)
  <2>1. t # REQ(r)
    BY <1>10, Transactions DEF TokensOf
  <2> QED BY <1>2, <2>1 DEF Runs
<1> QED BY <1>2, <1>3, <1>5, <1>6, <1>7, <1>9, <1>10

\* Bus_send_request: Place.
LEMMA RequestIsPlaced ==
  ASSUME CInv, PerformRequest
  PROVE  CInv' /\ \E r \in Request : Abstract!Place(r)
<1>1. Types /\ TagsAreExact /\ InterfacesAreOrderly /\ PipesAreOrderly /\ RepliesAreOrderly
  BY DEF CInv
<1>2. PICK r \in Request :
           /\ r = bus.cur.t.req /\ OnItsWay(r) /\ Stage(r) = "idle" /\ mshr[r].valid
           /\ mshr[r].phase = "out" /\ Unanswered(r)
           /\ \A m \in Masters : /\ ~Pending(m, r) /\ \A t \in TokensOf(r) : ~Waits(m, t) /\ ~Won(m, t)
           /\ \A c \in CPUs : ~Holds(c, r)
           /\ \A q \in Request, m \in Masters : \A t \in TokensOf(q) :
                q # r => ~Runs(m, t)
  BY RequestOnBus DEF PerformRequest
<1>a. PICK up \in BOOLEAN : up = (mshr[r].type = "UPGRADE")
  OBVIOUS
<1>b. (up = TRUE \/ up = FALSE) /\ (up = TRUE <=> mshr[r].type = "UPGRADE")
  BY <1>a
<1> DEFINE n == Cardinality(CPUs)
<1>3. /\ UNCHANGED <<wbuf, reqq, tags, replyq, dpipe, dcp, sif, mmcq>>
      /\ coheq' = [c \in CPUs |-> Append(coheq[c], r)]
      /\ mshr' = [mshr EXCEPT ![r].c2c_copy = FALSE, ![r].data_rtn = up, ![r].cohe_count = n,
                              ![r].cohe_type = "REPLY_EXCL",
                              ![r].memtrans = IF up THEN "none" ELSE "reading"]
      /\ bus' = [bus EXCEPT !.cur = None]
  BY <1>2, <1>a DEF PerformRequest
<1>4. n \in Int
  BY Names, FS_CardinalityType
<1>5. mshr[r] \in MSHR
  BY <1>1 DEF Types
<1> HIDE DEF n
<1>c. PICK mt \in {"none", "reading"} : mt = IF up THEN "none" ELSE "reading"
  BY <1>b
<1>6. \E k \in MSHR :
        /\ mshr' = [mshr EXCEPT ![r] = k]
        /\ k.valid = mshr[r].valid /\ k.phase = mshr[r].phase /\ k.type = mshr[r].type
        /\ k.misscache = mshr[r].misscache /\ k.way = mshr[r].way /\ k.has_writes = mshr[r].has_writes
        /\ k.c2c_copy = FALSE /\ k.data_rtn = up /\ k.cohe_count = n /\ k.cohe_type = "REPLY_EXCL"
        /\ k.memtrans = mt
  <2> DEFINE k == [[[[[mshr[r] EXCEPT !.c2c_copy = FALSE] EXCEPT !.data_rtn = up]
                    EXCEPT !.cohe_count = n] EXCEPT !.cohe_type = "REPLY_EXCL"]
                    EXCEPT !.memtrans = mt]
  <2>1. k \in MSHR
    BY <1>4, <1>5 DEF MSHR, ReplyType
  <2>2. /\ k.valid = mshr[r].valid /\ k.phase = mshr[r].phase /\ k.type = mshr[r].type
        /\ k.misscache = mshr[r].misscache /\ k.way = mshr[r].way /\ k.has_writes = mshr[r].has_writes
        /\ k.c2c_copy = FALSE /\ k.data_rtn = up /\ k.cohe_count = n /\ k.cohe_type = "REPLY_EXCL"
        /\ k.memtrans = mt
    BY <1>5 DEF MSHR
  <2>3. mshr' = [mshr EXCEPT ![r] = k]
    BY <1>1, <1>3, <1>c DEF Types
  <2> HIDE DEF k
  <2> QED BY <2>1, <2>2, <2>3
<1>7. PICK k \in MSHR :
        /\ mshr' = [mshr EXCEPT ![r] = k]
        /\ k.valid = mshr[r].valid /\ k.phase = mshr[r].phase /\ k.type = mshr[r].type
        /\ k.misscache = mshr[r].misscache /\ k.way = mshr[r].way /\ k.has_writes = mshr[r].has_writes
        /\ k.c2c_copy = FALSE /\ k.data_rtn = up /\ k.cohe_count = n /\ k.cohe_type = "REPLY_EXCL"
        /\ k.memtrans = mt
  BY <1>6
<1>8. mshr' \in [Request -> MSHR] /\ mshr'[r] = k /\ \A q \in Request : q # r => mshr'[q] = mshr[q]
  BY <1>1, <1>7 DEF Types
<1>9. /\ coheq' \in [CPUs -> Seq(Request)]
      /\ \A c \in CPUs : Snoops(c, r)'
      /\ \A c \in CPUs, q \in Request : q # r => (Snoops(c, q)' <=> Snoops(c, q))
  <2>1. \A c \in CPUs : coheq[c] \in Seq(Request)
    BY <1>1 DEF Types
  <2>2. \A c \in CPUs : Append(coheq[c], r) \in Seq(Request)
    BY <2>1, QueueTypes
  <2>3. \A c \in CPUs, q \in Request : Among(q, Append(coheq[c], r)) <=> Among(q, coheq[c]) \/ q = r
    BY <2>1, AmongAppend
  <2>4. \A c \in CPUs : coheq'[c] = Append(coheq[c], r)
    BY <1>3
  <2> QED BY <1>3, <2>2, <2>3, <2>4 DEF Snoops
<1>10. /\ bus' \in [winner : Grants \cup {None}, cur : Grants \cup {None}, req_count : Int,
                   mmc_master : BOOLEAN]
       /\ bus'.cur = None /\ bus'.winner = bus.winner
  BY <1>1, <1>3 DEF Types
<1>11. Types'
  BY <1>1, <1>3, <1>8, <1>9, <1>10 DEF Types
<1>12. ContainersAreOrderly'
  BY <1>1, <1>3, <1>11, SameTags DEF ContainersAreOrderly, InterfacesAreOrderly, PipesAreOrderly, RepliesAreOrderly
<1>13. \A m \in Masters, q \in Request : \A t \in TokensOf(q) :
         /\ Waits(m, t)' <=> Waits(m, t)
         /\ Won(m, t)' <=> Won(m, t)
         /\ ~Runs(m, t)'
  <2> SUFFICES ASSUME NEW m \in Masters, NEW q \in Request, NEW t \in TokensOf(q)
               PROVE  /\ Waits(m, t)' <=> Waits(m, t)
                      /\ Won(m, t)' <=> Won(m, t)
                      /\ ~Runs(m, t)'
    OBVIOUS
  <2>1. t \in Items
    BY Transactions DEF TokensOf
  <2>2. [who |-> m, t |-> t] # None
    BY <2>1, Transactions
  <2> QED BY <1>3, <1>10, <2>2 DEF Waits, Won, Runs
<1>14. \A q \in Request : SameFill(q) /\ SamePending(q) /\ SameCopies(q)
  BY <1>3 DEF SameFill, SamePending, SameCopies, InReplyq, ToInstall, Leaving, Pending, InPipe, SetAside, AtTheBus
<1>15. ASSUME NEW q \in Request, q # r
       PROVE  WayIsKnown(q)' /\ RequestIsSound(q)' /\ RequestOf'[q] = RequestOf[q]
  <2>1. SameTokens(q)
    BY <1>2, <1>13, <1>15 DEF SameTokens
  <2>2. SameMSHR(q)
    BY <1>8, <1>15 DEF SameMSHR
  <2>3. SameSnoops(q)
    BY <1>9, <1>15 DEF SameSnoops
  <2>4. SameRequest(q) /\ RequestIsSound(q) /\ WayIsKnown(q) /\ SameWays(q[1])
    BY <1>3, <1>14, <2>1, <2>2, <2>3, Names, SameTags DEF SameRequest, CInv
  <2> QED BY <1>1, <1>11, <1>14, <2>2, <2>4, SameRequestIsSound, SameWaysAreKnown
<1>16. ~OnItsWay(r)' /\ Unanswered(r)' /\ Stage(r)' = "ordered"
  BY <1>2, <1>7, <1>8, <1>10 DEF OnItsWay, Unanswered, Stage
<1>17. RequestIsSound(r) /\ WayIsKnown(r)
  BY DEF CInv
<1>18. WayIsKnown(r)'
  <2>1. ToFill(r)' <=> ToFill(r)
    BY <1>7, <1>8, <1>14 DEF ToFill, SameFill
  <2> QED BY <1>3, <1>7, <1>8, <1>17, <2>1, WayStaysKnown DEF WayIsKnown
<1>19. RequestIsSound(r)'
  <2>1. WritesAreExclusive(r)'
    <3>1. mshr'[r].type = mshr[r].type /\ mshr'[r].has_writes = mshr[r].has_writes
          /\ mshr'[r].misscache = mshr[r].misscache /\ mshr'[r].cohe_type = "REPLY_EXCL"
          /\ mshr'[r].phase = "out"
      BY <1>2, <1>7, <1>8
    <3> QED BY <1>2, <1>16, <1>17, <3>1 DEF RequestIsSound, WritesAreExclusive
  <2>2. \A m \in Masters, t \in TokensOf(r) : ~At(m, t)'
    BY <1>2, <1>13 DEF At
  <2>3. SentOnce(r)'
    BY <2>2 DEF SentOnce, At
  <2>4. \A m \in Masters : ~Pending(m, r)'
    BY <1>2, <1>14 DEF SamePending
  <2>5. RequestGoesOnce(r)' /\ ReplyGoesOnce(r)'
    BY <2>2, <2>4, Tokens DEF RequestGoesOnce, ReplyGoesOnce
  <2>6. LineFillsOnce(r)'
    BY <1>7, <1>8, <1>14, <1>17 DEF RequestIsSound, LineFillsOnce, SameFill
  <2>7. \A c \in CPUs : ~Holds(c, r)'
    BY <1>2, <1>14 DEF SameCopies, Holds
  <2>8. CopyGoesOnce(r)'
    BY <2>2, <2>7, Tokens DEF CopyGoesOnce, Holds
  <2>9. CountIsExact(r)'
    <3>1. {c \in CPUs : Snoops(c, r)'} = CPUs
      BY <1>9
    <3> QED BY <1>7, <1>8, <3>1 DEF CountIsExact, n
  <2>10. IssuedIsSeen(r)'
    BY <1>9, Names DEF IssuedIsSeen
  <2>11. ReadIsOpen(r)'
    BY <1>2, <1>7, <1>8, <1>16, <1>b, <1>c DEF ReadIsOpen
  <2> QED BY <2>1, <2>3, <2>5, <2>6, <2>8, <2>9, <2>10, <2>11 DEF RequestIsSound
<1>20. CInv'
  <2>1. \A q \in Request : WayIsKnown(q)' /\ RequestIsSound(q)'
    BY <1>15, <1>18, <1>19
  <2> QED BY <1>12, <2>1 DEF CInv, ContainersAreOrderly
<1>21. PICK e \in BOOLEAN : e <=> mshr[r].type # "READ_SH"
  OBVIOUS
<1>22. RequestOf'[r] = [stage |-> "ordered", exclusive |-> e, shared |-> FALSE, copied |-> FALSE]
  BY <1>7, <1>8, <1>16, <1>21 DEF RequestOf
<1>23. RequestOf'[r] = [Abstract!Idle EXCEPT !.stage = "ordered", !.exclusive = e]
  <2>1. [Abstract!Idle EXCEPT !.stage = "ordered", !.exclusive = e]
          = [stage |-> "ordered", exclusive |-> e, shared |-> FALSE, copied |-> FALSE]
    <3> DEFINE x == [Abstract!Idle EXCEPT !.stage = "ordered", !.exclusive = e]
    <3>1. Abstract!Idle \in View
      BY DEF Abstract!Idle, View
    <3>2. x \in View
      BY <3>1 DEF View
    <3>3. x.stage = "ordered" /\ x.exclusive = e /\ x.shared = FALSE /\ x.copied = FALSE
      BY DEF Abstract!Idle
    <3> HIDE DEF x
    <3>4. x = [stage |-> "ordered", exclusive |-> e, shared |-> FALSE, copied |-> FALSE]
      BY <3>2, <3>3 DEF View
    <3> QED BY <3>4 DEF x
  <2> QED BY <1>22, <2>1
<1>24. RequestOf' = [RequestOf EXCEPT ![r] = [Abstract!Idle EXCEPT !.stage = "ordered", !.exclusive = e]]
  <2>1. RequestOf = [q \in Request |-> RequestOf[q]] /\ RequestOf' = [q \in Request |-> RequestOf'[q]]
    BY DEF RequestOf
  <2> QED BY <1>15, <1>23, <2>1
<1>25. ~Abstract!Active(r) /\ LineOf' = LineOf
  BY <1>2, <1>3, SameTags DEF Abstract!Active, RequestOf
<1>26. Abstract!Place(r)
  BY <1>3, <1>24, <1>25 DEF Abstract!Place
<1> QED BY <1>20, <1>26

-----------------------------------------------------------------------------
(* Completing a request: the part of the state its handlers share *)

BusRecord == [winner : Grants \cup {None}, cur : Grants \cup {None}, req_count : Int,
              mmc_master : BOOLEAN]
SharedState == [mshr : [Request -> MSHR], sif : [CPUs -> Interface],
                replyq : [CPUs -> Seq(ReplyItem)], mmcq : Seq(Request), bus : BusRecord]
NewReply(r) == [line |-> r[2], todo |-> "install"]

\* Two MSHRs that differ in what they wait for, and in their place on the bus.
Alike(m, k) ==
  /\ k.valid = m.valid /\ k.misscache = m.misscache /\ k.way = m.way
  /\ k.has_writes = m.has_writes /\ k.memtrans = m.memtrans /\ k.data_rtn = m.data_rtn
  /\ k.cohe_count = m.cohe_count /\ k.cohe_type = m.cohe_type /\ k.issued = m.issued
Waiting(m, k) ==
  Alike(m, k) /\ k.type = m.type /\ k.phase = m.phase /\ k.c2c_copy = m.c2c_copy

\* Flagging a cache-to-cache copy leaves the rest of an MSHR alone.
LEMMA CopyIsFlagged ==
  ASSUME NEW m \in MSHR
  PROVE  /\ [m EXCEPT !.c2c_copy = TRUE] \in MSHR /\ Alike(m, [m EXCEPT !.c2c_copy = TRUE])
         /\ [m EXCEPT !.c2c_copy = TRUE].type = m.type
         /\ [m EXCEPT !.c2c_copy = TRUE].phase = m.phase
         /\ [m EXCEPT !.c2c_copy = TRUE].c2c_copy = TRUE
BY DEF MSHR, Alike

\* The state that the completing handlers share is the present state.
LEMMA SharedParts ==
  ASSUME Types
  PROVE  /\ Shared \in SharedState /\ Shared.mshr = mshr /\ Shared.sif = sif
         /\ Shared.replyq = replyq /\ Shared.mmcq = mmcq /\ Shared.bus = bus
BY DEF Types, Shared, SharedState, BusRecord

Received(M, r) ==
  [q \in Request |-> [Unstalled(M[q], r) EXCEPT !.phase = IF q = r THEN "done" ELSE @]]

\* Cache_get_reply leaves the other MSHRs waiting or released.
LEMMA ReceivedMSHRs ==
  ASSUME NEW M \in [Request -> MSHR], NEW r \in Request
  PROVE  /\ Received(M, r) \in [Request -> MSHR]
         /\ \A q \in Request : q # r => Waiting(M[q], Received(M, r)[q])
         /\ Alike(M[r], Received(M, r)[r]) /\ Received(M, r)[r].phase = "done"
         /\ Received(M, r)[r].type = M[r].type /\ Received(M, r)[r].c2c_copy = M[r].c2c_copy
<1>1. ASSUME NEW q \in Request
      PROVE  /\ Unstalled(M[q], r) \in MSHR /\ Waiting(M[q], Unstalled(M[q], r))
  <2>1. M[q] \in MSHR
    OBVIOUS
  <2>2. PICK p \in Request \cup {None} : p = IF M[q].pending_cohe = r THEN None ELSE M[q].pending_cohe
    BY <2>1 DEF MSHR
  <2>3. Unstalled(M[q], r) = [M[q] EXCEPT !.pending_cohe = p]
    BY <2>2 DEF Unstalled
  <2> QED BY <2>1, <2>3 DEF MSHR, Waiting, Alike
<1>2. ASSUME NEW q \in Request
      PROVE  /\ Received(M, r)[q] \in MSHR /\ Alike(M[q], Received(M, r)[q])
             /\ Received(M, r)[q].type = M[q].type /\ Received(M, r)[q].c2c_copy = M[q].c2c_copy
             /\ Received(M, r)[q].phase = IF q = r THEN "done" ELSE M[q].phase
  <2> DEFINE u == Unstalled(M[q], r)
  <2>1. u \in MSHR /\ Waiting(M[q], u)
    BY <1>1
  <2>2. PICK f \in Phase : f = IF q = r THEN "done" ELSE u.phase
    BY <2>1 DEF MSHR, Phase
  <2>3. Received(M, r)[q] = [u EXCEPT !.phase = f]
    BY <2>2 DEF Received
  <2> HIDE DEF u
  <2> QED BY <2>1, <2>2, <2>3, SMTT(30) DEF MSHR, Waiting, Alike
<1>3. Received(M, r) \in [Request -> MSHR]
  BY <1>2 DEF Received
<1> QED BY <1>2, <1>3 DEF Waiting

\* What CacheGetReply returns.
LEMMA GetsReply ==
  ASSUME NEW S \in SharedState, NEW r \in Request
  PROVE  LET T == CacheGetReply(S, r)
         IN /\ T.mshr = Received(S.mshr, r)
            /\ T.sif = [S.sif EXCEPT ![r[1]] = Freed(S.sif[r[1]], r[1], r)]
            /\ T.replyq = [S.replyq EXCEPT ![r[1]] = Append(@, NewReply(r))]
            /\ T.mmcq = S.mmcq /\ T.bus = S.bus
BY DEF CacheGetReply, Received, Freed, NewReply, SharedState

\* The three ways in which MMC_send_reply ends.
Turns(S, r, T) ==
  /\ S.mshr[r].type = "UPGRADE" /\ S.mshr[r].c2c_copy
  /\ T.mshr[r].phase = S.mshr[r].phase /\ T.mshr[r].c2c_copy = S.mshr[r].c2c_copy
  /\ T.sif = S.sif /\ T.replyq = S.replyq /\ T.mmcq = S.mmcq
GoesToBus(S, r, T) ==
  /\ S.mshr[r].type # "UPGRADE" /\ ~S.mshr[r].c2c_copy
  /\ T.mshr[r].phase = "mem"
  /\ T.sif = S.sif /\ T.replyq = S.replyq /\ T.mmcq = Append(S.mmcq, r)
IsReceived(S, r, T) ==
  /\ T.mshr[r].phase = "done"
  /\ T.sif = [S.sif EXCEPT ![r[1]] = Freed(S.sif[r[1]], r[1], r)]
  /\ T.replyq = [S.replyq EXCEPT ![r[1]] = Append(@, NewReply(r))]
  /\ T.mmcq = S.mmcq
OthersWait(S, r, T) ==
  /\ T.mshr \in [Request -> MSHR] /\ Alike(S.mshr[r], T.mshr[r])
  /\ \A q \in Request : q # r => Waiting(S.mshr[q], T.mshr[q])
  /\ T.bus \in BusRecord /\ T.bus.winner = S.bus.winner /\ T.bus.cur = S.bus.cur

\* The MSHR's request has taken the type of its reply.
Typed(M, r, b, p) ==
  [M EXCEPT ![r] = [[[@ EXCEPT !.c2c_copy = b] EXCEPT !.type = M[r].cohe_type] EXCEPT !.phase = p]]

\* The MSHRs after the type of a request has been set.
LEMMA TypeIsSet ==
  ASSUME NEW M \in [Request -> MSHR], NEW r \in Request, NEW p \in Phase, NEW b \in BOOLEAN
  PROVE  LET N == Typed(M, r, b, p)
         IN /\ N \in [Request -> MSHR] /\ Alike(M[r], N[r]) /\ N[r].type = M[r].cohe_type
            /\ N[r].phase = p /\ N[r].c2c_copy = b
            /\ \A q \in Request : q # r => Waiting(M[q], N[q])
<1>1. M[r] \in MSHR
  OBVIOUS
<1> DEFINE k == [[[M[r] EXCEPT !.c2c_copy = b] EXCEPT !.type = M[r].cohe_type] EXCEPT !.phase = p]
           N == Typed(M, r, b, p)
<1>2. k \in MSHR /\ Alike(M[r], k) /\ k.type = M[r].cohe_type /\ k.phase = p /\ k.c2c_copy = b
  BY <1>1 DEF MSHR, Alike, ReplyType
<1>3. N = [M EXCEPT ![r] = k]
  BY DEF Typed
<1> HIDE DEF k, N
<1>4. N \in [Request -> MSHR] /\ N[r] = k /\ \A q \in Request : q # r => N[q] = M[q]
  BY <1>2, <1>3
<1>5. \A q \in Request : Waiting(M[q], M[q])
  BY DEF Waiting, Alike
<1>6. /\ N \in [Request -> MSHR] /\ Alike(M[r], N[r]) /\ N[r].type = M[r].cohe_type
      /\ N[r].phase = p /\ N[r].c2c_copy = b
      /\ \A q \in Request : q # r => Waiting(M[q], N[q])
  BY <1>2, <1>4, <1>5
<1> QED BY <1>6 DEF N

\* The four shapes an MSHR takes in MMC_send_reply.
LEMMA TypesAre ==
  ASSUME NEW M \in [Request -> MSHR], NEW r \in Request
  PROVE  /\ [M EXCEPT ![r].type = M[r].cohe_type] = Typed(M, r, M[r].c2c_copy, M[r].phase)
         /\ [M EXCEPT ![r].c2c_copy = TRUE, ![r].type = M[r].cohe_type] = Typed(M, r, TRUE, M[r].phase)
         /\ ~M[r].c2c_copy => [M EXCEPT ![r].type = M[r].cohe_type, ![r].phase = "mem"]
                                 = Typed(M, r, FALSE, "mem")
<1>1. M[r] \in MSHR
  OBVIOUS
<1>2. [M[r] EXCEPT !.type = M[r].cohe_type]
        = [[[M[r] EXCEPT !.c2c_copy = M[r].c2c_copy] EXCEPT !.type = M[r].cohe_type]
              EXCEPT !.phase = M[r].phase]
  BY <1>1 DEF MSHR
<1>3. [[M[r] EXCEPT !.c2c_copy = TRUE] EXCEPT !.type = M[r].cohe_type]
        = [[[M[r] EXCEPT !.c2c_copy = TRUE] EXCEPT !.type = M[r].cohe_type]
              EXCEPT !.phase = M[r].phase]
  BY <1>1 DEF MSHR
<1>4. ~M[r].c2c_copy => [[M[r] EXCEPT !.type = M[r].cohe_type] EXCEPT !.phase = "mem"]
        = [[[M[r] EXCEPT !.c2c_copy = FALSE] EXCEPT !.type = M[r].cohe_type] EXCEPT !.phase = "mem"]
  BY <1>1 DEF MSHR
<1>5. [M EXCEPT ![r].type = M[r].cohe_type] = [M EXCEPT ![r] = [M[r] EXCEPT !.type = M[r].cohe_type]]
  OBVIOUS
<1>6. [M EXCEPT ![r].c2c_copy = TRUE, ![r].type = M[r].cohe_type]
        = [M EXCEPT ![r] = [[M[r] EXCEPT !.c2c_copy = TRUE] EXCEPT !.type = M[r].cohe_type]]
  OBVIOUS
<1>7. [M EXCEPT ![r].type = M[r].cohe_type, ![r].phase = "mem"]
        = [M EXCEPT ![r] = [[M[r] EXCEPT !.type = M[r].cohe_type] EXCEPT !.phase = "mem"]]
  OBVIOUS
<1> QED BY <1>2, <1>3, <1>4, <1>5, <1>6, <1>7 DEF Typed

\* What MMCSendReply returns: the request waits on, goes to the bus, or is
\* received.
LEMMA SendsReply ==
  ASSUME NEW S \in SharedState, NEW r \in Request
  PROVE  LET T == MMCSendReply(S, r)
         IN /\ OthersWait(S, r, T) /\ T.mshr[r].type = S.mshr[r].cohe_type
            /\ \/ Turns(S, r, T) \/ GoesToBus(S, r, T)
               \/ IsReceived(S, r, T) /\ (S.mshr[r].type = "UPGRADE" <=> ~S.mshr[r].c2c_copy)
<1> DEFINE T == MMCSendReply(S, r)
           M == S.mshr
           m == M[r]
<1>1. /\ M \in [Request -> MSHR] /\ S.sif \in [CPUs -> Interface]
      /\ S.replyq \in [CPUs -> Seq(ReplyItem)] /\ S.mmcq \in Seq(Request) /\ S.bus \in BusRecord
      /\ m \in MSHR
      /\ S = [mshr |-> M, sif |-> S.sif, replyq |-> S.replyq, mmcq |-> S.mmcq, bus |-> S.bus]
  BY DEF SharedState
<1>2. m.phase \in Phase /\ m.c2c_copy \in BOOLEAN /\ "mem" \in Phase
  BY <1>1 DEF MSHR, Phase
<1>t. ASSUME NEW b \in BOOLEAN, NEW p \in Phase
      PROVE  LET N == Typed(M, r, b, p)
             IN /\ N \in [Request -> MSHR] /\ Alike(M[r], N[r]) /\ N[r].type = M[r].cohe_type
                /\ N[r].phase = p /\ N[r].c2c_copy = b
                /\ \A q \in Request : q # r => Waiting(M[q], N[q])
  BY <1>1, TypeIsSet
<1>g. ASSUME NEW U, NEW N \in [Request -> MSHR], NEW B \in BusRecord,
             U = [mshr |-> N, sif |-> S.sif, replyq |-> S.replyq, mmcq |-> S.mmcq, bus |-> B],
             B.winner = S.bus.winner, B.cur = S.bus.cur,
             Alike(M[r], N[r]), N[r].type = M[r].cohe_type,
             \A q \in Request : q # r => Waiting(M[q], N[q]),
             T = CacheGetReply(U, r)
      PROVE  OthersWait(S, r, T) /\ T.mshr[r].type = m.cohe_type /\ IsReceived(S, r, T)
  <2>1. U \in SharedState
    BY <1>1, <1>g DEF SharedState
  <2>2. U.mshr = N /\ U.sif = S.sif /\ U.replyq = S.replyq /\ U.mmcq = S.mmcq /\ U.bus = B
    BY <1>g
  <2> HIDE DEF T
  <2>3. /\ T.mshr = Received(N, r)
        /\ T.sif = [S.sif EXCEPT ![r[1]] = Freed(S.sif[r[1]], r[1], r)]
        /\ T.replyq = [S.replyq EXCEPT ![r[1]] = Append(@, NewReply(r))]
        /\ T.mmcq = S.mmcq /\ T.bus = B
    <3> DEFINE V == CacheGetReply(U, r)
    <3>1. /\ V.mshr = Received(U.mshr, r)
          /\ V.sif = [U.sif EXCEPT ![r[1]] = Freed(U.sif[r[1]], r[1], r)]
          /\ V.replyq = [U.replyq EXCEPT ![r[1]] = Append(@, NewReply(r))]
          /\ V.mmcq = U.mmcq /\ V.bus = U.bus
      BY <2>1, GetsReply
    <3>2. T = V
      BY <1>g
    <3> HIDE DEF V
    <3> QED BY <3>1, <3>2, <2>2
  <2>4. /\ Received(N, r) \in [Request -> MSHR]
        /\ \A q \in Request : q # r => Waiting(N[q], Received(N, r)[q])
        /\ Alike(N[r], Received(N, r)[r]) /\ Received(N, r)[r].phase = "done"
        /\ Received(N, r)[r].type = N[r].type
    BY ReceivedMSHRs
  <2>5. \A q \in Request : q # r => Waiting(M[q], Received(N, r)[q])
    BY <1>g, <2>4 DEF Waiting, Alike
  <2>6. Alike(M[r], Received(N, r)[r])
    BY <1>g, <2>4 DEF Alike
  <2> QED BY <1>g, <2>3, <2>4, <2>5, <2>6 DEF OthersWait, IsReceived
<1>3. CASE m.type = "UPGRADE" /\ m.c2c_copy
  <2> DEFINE N == Typed(M, r, m.c2c_copy, m.phase)
  <2>1. T = [S EXCEPT !.mshr = [M EXCEPT ![r].type = m.cohe_type]]
    BY <1>3 DEF MMCSendReply
  <2>0. [M EXCEPT ![r].type = m.cohe_type] = N
    BY <1>1, TypesAre
  <2>2. T = [S EXCEPT !.mshr = N]
    BY <2>0, <2>1
  <2> HIDE DEF N, T
  <2>3. T.mshr = N /\ T.sif = S.sif /\ T.replyq = S.replyq /\ T.mmcq = S.mmcq /\ T.bus = S.bus
    BY <1>1, <2>2
  <2>4. /\ N \in [Request -> MSHR] /\ Alike(M[r], N[r]) /\ N[r].type = M[r].cohe_type
        /\ N[r].phase = m.phase /\ N[r].c2c_copy = m.c2c_copy
        /\ \A q \in Request : q # r => Waiting(M[q], N[q])
    BY <1>2, <1>t DEF N
  <2>5. OthersWait(S, r, T) /\ Turns(S, r, T) /\ T.mshr[r].type = m.cohe_type
    BY <1>1, <1>3, <2>3, <2>4 DEF OthersWait, Turns
  <2> QED BY <2>5 DEF T
<1>4. CASE m.type = "UPGRADE" /\ ~m.c2c_copy
  <2> DEFINE N == Typed(M, r, TRUE, m.phase)
             k == S.bus.req_count - 1
             B == [S.bus EXCEPT !.req_count = k]
             U == [S EXCEPT !.mshr[r].c2c_copy = TRUE, !.mshr[r].type = m.cohe_type,
                            !.bus.req_count = @ - 1]
  <2>1. T = CacheGetReply(U, r)
    BY <1>4 DEF MMCSendReply
  <2>2. k \in Int
    BY <1>1 DEF BusRecord
  <2>3. U = [[S EXCEPT !.mshr = [M EXCEPT ![r].c2c_copy = TRUE, ![r].type = m.cohe_type]]
               EXCEPT !.bus = B]
    BY <1>1
  <2>3a. [M EXCEPT ![r].c2c_copy = TRUE, ![r].type = m.cohe_type] = N
    BY <1>1, TypesAre
  <2>4. U = [[S EXCEPT !.mshr = N] EXCEPT !.bus = B]
    BY <2>3, <2>3a
  <2> HIDE DEF k, U, N, T
  <2>5. B \in BusRecord /\ B.winner = S.bus.winner /\ B.cur = S.bus.cur
    BY <1>1, <2>2 DEF BusRecord
  <2> HIDE DEF B
  <2>6. U = [mshr |-> N, sif |-> S.sif, replyq |-> S.replyq, mmcq |-> S.mmcq, bus |-> B]
    BY <1>1, <2>4
  <2>7. /\ N \in [Request -> MSHR] /\ Alike(M[r], N[r]) /\ N[r].type = M[r].cohe_type
        /\ \A q \in Request : q # r => Waiting(M[q], N[q])
    BY <1>2, <1>t DEF N
  <2>8. OthersWait(S, r, T) /\ T.mshr[r].type = m.cohe_type /\ IsReceived(S, r, T)
    BY <1>g, <2>1, <2>5, <2>6, <2>7
  <2> QED BY <1>4, <2>8 DEF T
<1>5. CASE m.type # "UPGRADE" /\ m.c2c_copy
  <2> DEFINE N == Typed(M, r, m.c2c_copy, m.phase)
             U == [S EXCEPT !.mshr[r].type = m.cohe_type]
  <2>1. T = CacheGetReply(U, r)
    BY <1>5 DEF MMCSendReply
  <2>3. U = [S EXCEPT !.mshr = [M EXCEPT ![r].type = m.cohe_type]]
    BY <1>1
  <2>3a. [M EXCEPT ![r].type = m.cohe_type] = N
    BY <1>1, TypesAre
  <2>4. U = [S EXCEPT !.mshr = N]
    BY <2>3, <2>3a
  <2> HIDE DEF U, N, T
  <2>6. U = [mshr |-> N, sif |-> S.sif, replyq |-> S.replyq, mmcq |-> S.mmcq, bus |-> S.bus]
    BY <1>1, <2>4
  <2>7. /\ N \in [Request -> MSHR] /\ Alike(M[r], N[r]) /\ N[r].type = M[r].cohe_type
        /\ \A q \in Request : q # r => Waiting(M[q], N[q])
    BY <1>2, <1>t DEF N
  <2>8. OthersWait(S, r, T) /\ T.mshr[r].type = m.cohe_type /\ IsReceived(S, r, T)
    BY <1>1, <1>g, <2>1, <2>6, <2>7
  <2> QED BY <1>5, <2>8 DEF T
<1>6. CASE m.type # "UPGRADE" /\ ~m.c2c_copy
  <2> DEFINE N == Typed(M, r, FALSE, "mem")
  <2>1. T = [[S EXCEPT !.mshr = [M EXCEPT ![r].type = m.cohe_type, ![r].phase = "mem"]]
               EXCEPT !.mmcq = Append(S.mmcq, r)]
    BY <1>1, <1>6 DEF MMCSendReply
  <2>2. T = [[S EXCEPT !.mshr = N] EXCEPT !.mmcq = Append(S.mmcq, r)]
    BY <1>1, <1>6, <2>1, TypesAre
  <2> HIDE DEF N, T
  <2>3. T.mshr = N /\ T.sif = S.sif /\ T.replyq = S.replyq /\ T.mmcq = Append(S.mmcq, r) /\ T.bus = S.bus
    BY <1>1, <2>2
  <2>4. /\ N \in [Request -> MSHR] /\ Alike(M[r], N[r]) /\ N[r].type = M[r].cohe_type
        /\ N[r].phase = "mem"
        /\ \A q \in Request : q # r => Waiting(M[q], N[q])
    BY <1>2, <1>t DEF N
  <2>5. OthersWait(S, r, T) /\ GoesToBus(S, r, T) /\ T.mshr[r].type = m.cohe_type
    BY <1>1, <1>6, <2>3, <2>4 DEF OthersWait, GoesToBus
  <2> QED BY <2>5 DEF T
<1>7. m.c2c_copy = TRUE \/ m.c2c_copy = FALSE
  BY <1>2
<1> QED BY <1>3, <1>4, <1>5, <1>6, <1>7

-----------------------------------------------------------------------------
(* What completing a request does to the others *)

\* The interfaces before the buffer of a completed request is freed: as they
\* are, but for a copy that has left.
InterfacesLike(F) ==
  /\ F \in [CPUs -> Interface]
  /\ \A m \in CPUs : /\ F[m].slot = sif[m].slot /\ F[m].arbwaiters = sif[m].arbwaiters
                     /\ F[m].pending_request = sif[m].pending_request
FreesFor(r, F) == sif' = [F EXCEPT ![r[1]] = Freed(F[r[1]], r[1], r)]
LeavesPending(m, q)   == Pending(m, q) /\ ~Pending(m, q)'
PendingEnters  ==
  \A m \in CPUs, q \in Request :
    /\ Pending(m, q)' => Pending(m, q)
    /\ \A t \in TokensOf(q) :
         Has(sif'[m], t) <=> Has(sif[m], t) \/ (t = REQ(q) /\ LeavesPending(m, q))

\* The interfaces after a completion: one request may leave its buffer, one may
\* take it.
LEMMA InterfacesSettle ==
  ASSUME CInv, NEW r \in Request, NEW F, InterfacesLike(F), sif' = F \/ FreesFor(r, F)
  PROVE  /\ sif' \in [CPUs -> Interface] /\ InterfacesAreOrderly' /\ PendingEnters
         /\ \A m \in CPUs : sif'[m].cohe_reply = F[m].cohe_reply
<1>1. sif \in [CPUs -> Interface] /\ F \in [CPUs -> Interface] /\ r[1] \in CPUs
  BY Names DEF CInv, Types, InterfacesLike
<1>2. ASSUME NEW m \in CPUs
      PROVE  /\ Once(F[m]) /\ F[m].pending_request = sif[m].pending_request
             /\ \A t : Has(F[m], t) <=> Has(sif[m], t)
  BY DEF CInv, InterfacesAreOrderly, Once, Has, InterfacesLike
<1>3. CASE sif' = F
  <2>1. InterfacesAreOrderly'
    BY <1>2, <1>3 DEF InterfacesAreOrderly
  <2>2. PendingEnters
    BY <1>2, <1>3 DEF PendingEnters, LeavesPending, Pending
  <2> QED BY <1>1, <1>3, <2>1, <2>2
<1>4. CASE FreesFor(r, F)
  <2> DEFINE c == r[1]
             s == F[c]
             a == Freed(s, c, r)
  <2>1. s \in Interface /\ Once(s) /\ s.pending_request = sif[c].pending_request
        /\ s.pending_request \in Request \cup {None}
    BY <1>1, <1>2 DEF Interface
  <2>2. s.pending_request # None => ~Has(s, REQ(s.pending_request))
    <3> SUFFICES ASSUME NEW q \in Request, s.pending_request = q
                 PROVE  ~Has(s, REQ(q))
      BY <2>1
    <3>1. c \in Masters /\ c # MMC /\ Pending(c, q)
      BY <1>1, <2>1, Names DEF Masters, Pending
    <3>2. ~At(c, REQ(q))
      BY <3>1 DEF CInv, RequestIsSound, RequestGoesOnce
    <3>3. ~Has(sif[c], REQ(q))
      BY <3>1, <3>2 DEF At, Waits
    <3> QED BY <1>1, <1>2, <3>3
  <2>3. /\ a \in Interface /\ Once(a) /\ a.cohe_reply = s.cohe_reply /\ a.pending_request = None
        /\ \A x \in Items : Has(a, x)
              <=> Has(s, x) \/ (s.pending_request # None /\ x = REQ(s.pending_request))
    BY <1>1, <2>1, <2>2, FreesBuffer
  <2>4. /\ sif' \in [CPUs -> Interface] /\ sif'[c] = a
        /\ \A m \in CPUs : m # c => sif'[m] = F[m]
    BY <1>1, <1>4, <2>3 DEF FreesFor
  <2> HIDE DEF a
  <2>5. InterfacesAreOrderly'
    BY <1>2, <2>3, <2>4 DEF InterfacesAreOrderly
  <2>6. \A m \in CPUs : sif'[m].cohe_reply = F[m].cohe_reply
    BY <2>3, <2>4
  <2>7. ASSUME NEW m \in CPUs, NEW q \in Request
        PROVE  /\ Pending(m, q)' => Pending(m, q)
               /\ \A t \in TokensOf(q) :
                    Has(sif'[m], t) <=> Has(sif[m], t) \/ (t = REQ(q) /\ LeavesPending(m, q))
    <3>1. CASE m # c
      BY <1>2, <2>4, <3>1 DEF LeavesPending, Pending
    <3>2. CASE m = c
      <4>1. ~Pending(m, q)' /\ (Pending(m, q) <=> s.pending_request = q)
        BY <2>1, <2>3, <2>4, <3>2, Names DEF Pending
      <4>2. ASSUME NEW t \in TokensOf(q)
            PROVE  Has(a, t) <=> Has(s, t) \/ (t = REQ(q) /\ s.pending_request = q)
        <5>1. t \in Items
          BY Transactions DEF TokensOf
        <5>2. s.pending_request # None /\ t = REQ(s.pending_request)
                <=> t = REQ(q) /\ s.pending_request = q
          BY <2>1, Transactions, Names DEF TokensOf
        <5> QED BY <2>3, <5>1, <5>2
      <4> QED BY <1>1, <1>2, <2>4, <3>2, <4>1, <4>2 DEF LeavesPending
    <3> QED BY <3>1, <3>2
  <2>8. PendingEnters
    BY <2>7 DEF PendingEnters
  <2> QED BY <2>4, <2>5, <2>6, <2>8
<1> QED BY <1>3, <1>4

\* The transactions of the other requests stay, or a pending one enters.
TokensFlow(q) ==
  \A m \in Masters :
    /\ Pending(m, q)' => Pending(m, q)
    /\ \A t \in TokensOf(q) :
         /\ Waits(m, t)' <=> Waits(m, t) \/ (t = REQ(q) /\ LeavesPending(m, q))
         /\ Won(m, t)' <=> Won(m, t)
         /\ Runs(m, t)' <=> Runs(m, t)

\* The bus is left as it is, or a transaction of request r has ended.
BusServes(r) ==
  /\ bus' \in BusRecord /\ bus'.winner = bus.winner
  /\ \/ bus'.cur = bus.cur
     \/ /\ bus'.cur = None
        /\ \E m \in Masters, t \in TokensOf(r) : bus.cur = [who |-> m, t |-> t]
MMCTakes(r) == mmcq' = mmcq \/ mmcq' = Append(mmcq, r)

\* The transactions of the other requests stay, or go from pending to waiting.
LEMMA OthersFlow ==
  ASSUME CInv, NEW r \in Request, PendingEnters, BusServes(r), MMCTakes(r)
  PROVE  \A q \in Request : q # r => TokensFlow(q)
<1> SUFFICES ASSUME NEW q \in Request, q # r, NEW m \in Masters
             PROVE  /\ Pending(m, q)' => Pending(m, q)
                    /\ \A t \in TokensOf(q) :
                         /\ Waits(m, t)' <=> Waits(m, t) \/ (t = REQ(q) /\ LeavesPending(m, q))
                         /\ Won(m, t)' <=> Won(m, t)
                         /\ Runs(m, t)' <=> Runs(m, t)
  BY DEF TokensFlow
<1>1. mmcq \in Seq(Request)
  BY DEF CInv, Types
<1>2. Pending(m, q)' => Pending(m, q)
  BY DEF PendingEnters, Pending
<1>3. ASSUME NEW t \in TokensOf(q)
      PROVE  /\ Waits(m, t)' <=> Waits(m, t) \/ (t = REQ(q) /\ LeavesPending(m, q))
             /\ Won(m, t)' <=> Won(m, t)
             /\ Runs(m, t)' <=> Runs(m, t)
  <2>1. t \in Items /\ t.req = q /\ [who |-> m, t |-> t] # None
    <3>1. t \in Items /\ t.req = q
      BY Transactions DEF TokensOf
    <3> QED BY <3>1, Transactions
  <2>4. (Won(m, t)' <=> Won(m, t)) /\ (Runs(m, t)' <=> Runs(m, t))
    <3>1. Won(m, t)' <=> Won(m, t)
      BY DEF Won, BusServes
    <3>2. ASSUME NEW n \in Masters, NEW u \in TokensOf(r), bus.cur = [who |-> n, t |-> u]
          PROVE  ~Runs(m, t)
      <4>1. u.req = r
        BY Transactions DEF TokensOf
      <4> QED BY <2>1, <3>2, <4>1 DEF Runs
    <3> QED BY <2>1, <3>1, <3>2 DEF BusServes, Runs
  <2>2. CASE m = MMC
    <3>1. Among(q, mmcq') <=> Among(q, mmcq)
      <4>1. Among(q, Append(mmcq, r)) <=> Among(q, mmcq) \/ q = r
        BY <1>1, AmongAppend
      <4> QED BY <4>1 DEF MMCTakes
    <3>2. ~LeavesPending(m, q)
      BY <2>2, Names DEF LeavesPending, Pending
    <3>3. (Waits(m, t) <=> t.type = "REPLY" /\ Among(q, mmcq))
          /\ (Waits(m, t)' <=> t.type = "REPLY" /\ Among(q, mmcq'))
      BY <2>1, <2>2 DEF Waits
    <3> QED BY <2>1, <2>4, <3>1, <3>2, <3>3
  <2>3. CASE m # MMC
    <3>1. m \in CPUs
      BY <2>3 DEF Masters
    <3> QED BY <2>3, <2>4, <3>1 DEF Waits, PendingEnters
  <2> QED BY <2>2, <2>3, <2>4
<1> QED BY <1>2, <1>3

\* Such a request stays sound.
LEMMA OtherStaysSound ==
  ASSUME CInv, Types', NEW q \in Request, SameMSHR(q), TokensFlow(q), SameSnoops(q), SameCopies(q),
         SameFill(q), SameWays(q[1])
  PROVE  WayIsKnown(q)' /\ RequestIsSound(q)' /\ RequestOf'[q] = RequestOf[q]
<1>1. Types /\ RequestIsSound(q) /\ WayIsKnown(q)
  BY DEF CInv
<1>2. /\ SentOnce(q) /\ RequestGoesOnce(q) /\ ReplyGoesOnce(q) /\ LineFillsOnce(q) /\ CopyGoesOnce(q)
  BY <1>1 DEF RequestIsSound
<1>3. OnItsWay(q)' <=> OnItsWay(q)
  <2>1. OnItsWay(q) <=> \E m \in Masters : Runs(m, REQ(q))
    BY <1>1, OnTheWay DEF Types, OnItsWay, Runs, REQ
  <2>2. OnItsWay(q)' <=> \E m \in Masters : Runs(m, REQ(q))'
    BY OnTheWay DEF Types, OnItsWay, Runs, REQ
  <2>3. \A m \in Masters : Runs(m, REQ(q))' <=> Runs(m, REQ(q))
    BY Tokens DEF TokensFlow
  <2> QED BY <2>1, <2>2, <2>3
<1>4. ASSUME NEW m \in Masters, NEW t \in TokensOf(q)
      PROVE  /\ At(m, t)' <=> At(m, t) \/ (t = REQ(q) /\ LeavesPending(m, q))
             /\ Runs(m, t)' <=> Runs(m, t)
  BY DEF At, TokensFlow
<1>5. \A m \in Masters : /\ At(m, REP(q))' <=> At(m, REP(q))
                         /\ At(m, COPY(q))' <=> At(m, COPY(q))
                         /\ At(m, REQ(q))' <=> At(m, REQ(q)) \/ LeavesPending(m, q)
                         /\ Runs(m, REQ(q))' <=> Runs(m, REQ(q))
                         /\ Pending(m, q)' => Pending(m, q)
  <2>1. REP(q) # REQ(q) /\ COPY(q) # REQ(q)
    BY Transactions
  <2> QED BY <1>4, <2>1, Tokens DEF TokensFlow
<1>6. SentOnce(q)'
  <2> SUFFICES ASSUME NEW m \in Masters, NEW t \in TokensOf(q)
               PROVE  /\ Waits(m, t)' => ~Won(m, t)' /\ ~Runs(m, t)'
                      /\ Won(m, t)' => ~Runs(m, t)'
    BY DEF SentOnce
  <2>1. t = REQ(q) /\ LeavesPending(m, q) => ~At(m, t)
    BY <1>2 DEF RequestGoesOnce, LeavesPending
  <2> QED BY <1>2, <2>1 DEF SentOnce, TokensFlow, At
<1>7. mshr'[q].valid = mshr[q].valid /\ mshr'[q].phase = mshr[q].phase
      /\ mshr'[q].c2c_copy = mshr[q].c2c_copy
  BY DEF SameMSHR
<1>8. RequestGoesOnce(q)'
  <2> SUFFICES ASSUME NEW m \in Masters
               PROVE  /\ Pending(m, q)' => ~At(m, REQ(q))'
                      /\ Pending(m, q)' \/ At(m, REQ(q))' => m = q[1] /\ mshr'[q].valid
                      /\ Pending(m, q)' \/ At(m, REQ(q))'
                           => mshr'[q].phase = IF Runs(m, REQ(q))' THEN "out" ELSE "arb"
    BY DEF RequestGoesOnce
  <2> QED BY <1>2, <1>5, <1>7 DEF RequestGoesOnce, LeavesPending
<1>9. ReplyGoesOnce(q)'
  BY <1>2, <1>5, <1>7 DEF ReplyGoesOnce
<1>10. LineFillsOnce(q)'
  BY <1>2, <1>7 DEF LineFillsOnce, SameFill
<1>11. CopyGoesOnce(q)'
  <2>1. \A c \in CPUs : Holds(c, q)' => Holds(c, q)
    BY DEF SameCopies, Holds
  <2> QED BY <1>2, <1>3, <1>5, <1>7, <2>1 DEF CopyGoesOnce, SameCopies
<1>12. ToInstall(q)' <=> ToInstall(q)
  BY DEF SameFill
<1>13. RequestIsSound(q)' /\ RequestOf'[q] = RequestOf[q]
  BY <1>1, <1>3, <1>6, <1>8, <1>9, <1>10, <1>11, <1>12, MovedRequestIsSound
<1> QED BY <1>1, <1>13, SameWaysAreKnown

\* The line of a completed request joins the replies of its cache.
RepliesTake(r) == replyq' = [replyq EXCEPT ![r[1]] = Append(replyq[r[1]], NewReply(r))]

\* The reply queues after a completion.
LEMMA RepliesSettle ==
  ASSUME CInv, NEW r \in Request, ~InReplyq(r), RepliesTake(r)
  PROVE  /\ replyq' \in [CPUs -> Seq(ReplyItem)] /\ \A c \in CPUs : OneEach(replyq'[c])
         /\ InReplyq(r)' /\ ToInstall(r)'
         /\ \A q \in Request : q # r => (InReplyq(q)' <=> InReplyq(q)) /\ (ToInstall(q)' <=> ToInstall(q))
<1> DEFINE c == r[1]
           p == replyq[c]
           i == NewReply(r)
<1>1. replyq \in [CPUs -> Seq(ReplyItem)] /\ c \in CPUs /\ p \in Seq(ReplyItem) /\ OneEach(p)
  BY Names DEF CInv, Types, RepliesAreOrderly
<1>2. i \in ReplyItem /\ i.line = r[2] /\ i.todo = "install"
  BY Names DEF ReplyItem, NewReply
<1>3. \A n \in 1 .. Len(p) : p[n].line # r[2]
  BY DEF InReplyq
<1> DEFINE z == Append(p, i)
<1>4. /\ z \in Seq(ReplyItem) /\ Len(z) = Len(p) + 1 /\ Len(p) \in Nat /\ z[Len(p) + 1] = i
      /\ \A n \in 1 .. Len(p) : z[n] = p[n]
      /\ 1 .. Len(z) = (1 .. Len(p)) \cup {Len(p) + 1}
  BY <1>1, <1>2, AppendFacts
<1>5. replyq' \in [CPUs -> Seq(ReplyItem)] /\ replyq'[c] = z /\ \A d \in CPUs : d # c => replyq'[d] = replyq[d]
  BY <1>1, <1>4 DEF RepliesTake
<1> HIDE DEF z, i
<1>6. OneEach(z)
  <2>1. \A n, v \in 1 .. Len(p) : p[n].line = p[v].line => n = v
    BY <1>1 DEF OneEach
  <2>2. z[Len(p) + 1].line = r[2]
    BY <1>2, <1>4
  <2> SUFFICES ASSUME NEW n \in 1 .. Len(z), NEW v \in 1 .. Len(z), z[n].line = z[v].line
               PROVE  n = v
    BY DEF OneEach
  <2>3. CASE n \in 1 .. Len(p) /\ v \in 1 .. Len(p)
    BY <1>4, <2>1, <2>3
  <2>4. CASE n = Len(p) + 1 \/ v = Len(p) + 1
    BY <1>3, <1>4, <2>2, <2>4
  <2> QED BY <1>4, <2>3, <2>4
<1>7. \A d \in CPUs : OneEach(replyq'[d])
  BY <1>5, <1>6 DEF CInv, RepliesAreOrderly
<1>8. Len(p) + 1 \in 1 .. Len(z)
  BY <1>4
<1>9. InReplyq(r)' /\ ToInstall(r)'
  BY <1>2, <1>4, <1>5, <1>8 DEF InReplyq, ToInstall
<1>10. ASSUME NEW q \in Request, q # r
       PROVE  (InReplyq(q)' <=> InReplyq(q)) /\ (ToInstall(q)' <=> ToInstall(q))
  <2>1. CASE q[1] # c
    BY <1>5, <2>1, Names DEF InReplyq, ToInstall
  <2>2. CASE q[1] = c
    <3>1. q[2] # r[2]
      BY <1>10, <2>2, Names
    <3>2. i.line # q[2]
      BY <1>2, <3>1
    <3>3. /\ InReplyq(q) <=> \E n \in 1 .. Len(p) : p[n].line = q[2]
          /\ ToInstall(q) <=> \E n \in 1 .. Len(p) : p[n].line = q[2] /\ p[n].todo = "install"
          /\ InReplyq(q)' <=> \E n \in 1 .. Len(z) : z[n].line = q[2]
          /\ ToInstall(q)' <=> \E n \in 1 .. Len(z) : z[n].line = q[2] /\ z[n].todo = "install"
      BY <1>5, <2>2 DEF InReplyq, ToInstall
    <3>4. \A n \in 1 .. Len(z) : z[n].line = q[2] => n \in 1 .. Len(p) /\ z[n] = p[n]
      BY <1>4, <3>2
    <3>5. \A n \in 1 .. Len(p) : n \in 1 .. Len(z) /\ z[n] = p[n]
      BY <1>4
    <3> HIDE DEF p
    <3> QED BY <3>3, <3>4, <3>5
  <2> QED BY <2>1, <2>2
<1> QED BY <1>5, <1>7, <1>9, <1>10

\* A reply that needs memory's data joins those waiting for the bus.
LEMMA MMCSettles ==
  ASSUME CInv, NEW r \in Request, mmcq' = mmcq \/ (mmcq' = Append(mmcq, r) /\ ~Among(r, mmcq))
  PROVE  /\ mmcq' \in Seq(Request) /\ \A n, k \in 1 .. Len(mmcq') : mmcq'[n] = mmcq'[k] => n = k
         /\ mmcq' # mmcq => Among(r, mmcq')
         /\ mmcq' = Append(mmcq, r) => Among(r, mmcq')
<1>1. mmcq \in Seq(Request) /\ \A n, k \in 1 .. Len(mmcq) : mmcq[n] = mmcq[k] => n = k
  BY DEF CInv, Types, RepliesAreOrderly
<1>2. CASE mmcq' = mmcq
  <2>1. mmcq # Append(mmcq, r)
    <3>1. Len(Append(mmcq, r)) = Len(mmcq) + 1 /\ Len(mmcq) \in Nat
      BY <1>1, AppendFacts
    <3> QED BY <3>1
  <2> QED BY <1>1, <1>2, <2>1
<1>3. CASE mmcq' = Append(mmcq, r) /\ ~Among(r, mmcq)
  <2> DEFINE z == Append(mmcq, r)
  <2>1. /\ z \in Seq(Request) /\ Len(z) = Len(mmcq) + 1 /\ Len(mmcq) \in Nat /\ z[Len(mmcq) + 1] = r
        /\ \A n \in 1 .. Len(mmcq) : z[n] = mmcq[n]
        /\ 1 .. Len(z) = (1 .. Len(mmcq)) \cup {Len(mmcq) + 1}
    BY <1>1, AppendFacts
  <2>2. mmcq' = z /\ \A n \in 1 .. Len(mmcq) : mmcq[n] # r
    BY <1>3 DEF Among
  <2> HIDE DEF z
  <2>3. \A n, k \in 1 .. Len(z) : z[n] = z[k] => n = k
    BY <1>1, <2>1, <2>2
  <2>4. Among(r, z)
    BY <2>1 DEF Among
  <2> QED BY <2>1, <2>2, <2>3, <2>4
<1> QED BY <1>2, <1>3

\* A step that serves request r, for all that is not the request itself.
Serves(r, F) ==
  /\ InterfacesLike(F)
  /\ \A m \in CPUs, q \in Request : q # r => (F[m].cohe_reply = q <=> sif[m].cohe_reply = q)
  /\ \/ sif' = F /\ replyq' = replyq
     \/ FreesFor(r, F) /\ RepliesTake(r) /\ ~InReplyq(r)
  /\ mmcq' = mmcq \/ (mmcq' = Append(mmcq, r) /\ ~Among(r, mmcq))
  /\ BusServes(r)
  /\ mshr' \in [Request -> MSHR] /\ \A q \in Request : q # r => SameMSHR(q)
  /\ UNCHANGED <<wbuf, reqq>>
  /\ tags' \in [CPUs -> [Ways -> TagEntry]] /\ TagsAreExact' /\ \A c \in CPUs : SameWays(c)
  /\ coheq' \in [CPUs -> Seq(Request)] /\ \A q \in Request : q # r => SameSnoops(q)
  /\ dpipe' \in [CPUs -> Seq(PipeItem)] /\ dcp' \in [CPUs -> Request \cup {None}]
  /\ PipesAreOrderly'
  /\ \A q \in Request : Leaving(q)' <=> Leaving(q)
  /\ \A q \in Request, c \in CPUs :
       q # r => (InPipe(c, q)' <=> InPipe(c, q)) /\ (SetAside(c, q)' => SetAside(c, q))

\* The containers and the other requests after a completion.
LEMMA OthersSettle ==
  ASSUME CInv, NEW r \in Request, NEW F, Serves(r, F)
  PROVE  /\ ContainersAreOrderly' /\ PendingEnters
         /\ \A m \in CPUs : sif'[m].cohe_reply = F[m].cohe_reply
         /\ \A q \in Request : q # r
              => WayIsKnown(q)' /\ RequestIsSound(q)' /\ RequestOf'[q] = RequestOf[q]
         /\ sif' # F => InReplyq(r)' /\ ToInstall(r)'
         /\ replyq' = replyq => (InReplyq(r)' <=> InReplyq(r)) /\ (ToInstall(r)' <=> ToInstall(r))
<1>1. Types
  BY DEF CInv
<1>2. /\ sif' \in [CPUs -> Interface] /\ InterfacesAreOrderly' /\ PendingEnters
      /\ \A m \in CPUs : sif'[m].cohe_reply = F[m].cohe_reply
  <2>1. InterfacesLike(F) /\ (sif' = F \/ FreesFor(r, F))
    BY DEF Serves
  <2> QED BY <2>1, InterfacesSettle
<1>3. /\ replyq' \in [CPUs -> Seq(ReplyItem)] /\ \A c \in CPUs : OneEach(replyq'[c])
      /\ \A q \in Request : q # r => (InReplyq(q)' <=> InReplyq(q)) /\ (ToInstall(q)' <=> ToInstall(q))
      /\ sif' # F => InReplyq(r)' /\ ToInstall(r)'
  <2>1. CASE sif' = F /\ replyq' = replyq
    BY <1>1, <2>1 DEF Serves, CInv, RepliesAreOrderly, Types, InReplyq, ToInstall
  <2>2. CASE RepliesTake(r) /\ ~InReplyq(r)
    BY <2>2, RepliesSettle
  <2> QED BY <2>1, <2>2 DEF Serves
<1>4. mmcq' \in Seq(Request) /\ \A n, k \in 1 .. Len(mmcq') : mmcq'[n] = mmcq'[k] => n = k
  BY MMCSettles DEF Serves
<1>5. Types'
  BY <1>1, <1>2, <1>3, <1>4 DEF Types, Serves, BusServes, BusRecord
<1>6. ContainersAreOrderly'
  BY <1>2, <1>3, <1>4, <1>5 DEF ContainersAreOrderly, RepliesAreOrderly, Serves
<1>7. \A q \in Request : q # r => TokensFlow(q)
  BY <1>2, OthersFlow DEF Serves, MMCTakes
<1>8. ASSUME NEW q \in Request, q # r
      PROVE  WayIsKnown(q)' /\ RequestIsSound(q)' /\ RequestOf'[q] = RequestOf[q]
  <2>1. SameMSHR(q) /\ SameSnoops(q) /\ SameWays(q[1]) /\ TokensFlow(q)
    BY <1>7, <1>8, Names DEF Serves
  <2>2. SameFill(q)
    BY <1>3, <1>8 DEF SameFill, Serves
  <2>3. SameCopies(q)
    BY <1>2, <1>8 DEF SameCopies, AtTheBus, Serves
  <2> QED BY <1>5, <2>1, <2>2, <2>3, OtherStaysSound
<1>9. replyq' = replyq => (InReplyq(r)' <=> InReplyq(r)) /\ (ToInstall(r)' <=> ToInstall(r))
  BY DEF InReplyq, ToInstall
<1> QED BY <1>2, <1>3, <1>6, <1>8, <1>9

\* Where the transactions of the served request are afterwards.
LEMMA ServedTokens ==
  ASSUME CInv, NEW r \in Request, PendingEnters, BusServes(r),
         mmcq' = mmcq \/ mmcq' = Append(mmcq, r),
         mshr[r].valid, mshr[r].phase \in {"out", "mem"}, ~OnItsWay(r)
  PROVE  /\ ~OnItsWay(r)'
         /\ \A m \in Masters :
              /\ ~Pending(m, r) /\ ~Pending(m, r)' /\ ~At(m, REQ(r)) /\ ~At(m, REQ(r))'
              /\ At(m, COPY(r))' => At(m, COPY(r))
              /\ \A t \in TokensOf(r) :
                   /\ Waits(m, t)' <=> Waits(m, t) \/ (m = MMC /\ t = REP(r) /\ mmcq' = Append(mmcq, r))
                   /\ Won(m, t)' <=> Won(m, t)
                   /\ Runs(m, t)' <=> Runs(m, t) /\ bus'.cur = bus.cur
<1>1. Types /\ RequestGoesOnce(r) /\ bus \in BusRecord
  BY DEF CInv, RequestIsSound, Types, BusRecord
<1>2. /\ ~OnItsWay(r)' /\ \A m \in Masters : ~Runs(m, REQ(r))
  <2>1. bus'.cur = bus.cur \/ bus'.cur = None
    BY DEF BusServes
  <2>2. \A m \in Masters : ~Runs(m, REQ(r))
    BY <1>1, OnTheWay DEF BusRecord, OnItsWay, Runs, REQ
  <2> QED BY <2>1, <2>2 DEF OnItsWay
<1>3. \A m \in Masters : ~Pending(m, r) /\ ~At(m, REQ(r))
  BY <1>1, <1>2 DEF RequestGoesOnce
<1>4. \A m \in Masters : ~Pending(m, r)' /\ ~LeavesPending(m, r)
  BY <1>3 DEF PendingEnters, Pending, LeavesPending
<1>5. ASSUME NEW m \in Masters, NEW t \in TokensOf(r)
      PROVE  /\ Waits(m, t)' <=> Waits(m, t) \/ (m = MMC /\ t = REP(r) /\ mmcq' = Append(mmcq, r))
             /\ Won(m, t)' <=> Won(m, t)
             /\ Runs(m, t)' <=> Runs(m, t) /\ bus'.cur = bus.cur
  <2>1. t \in Items /\ t.req = r /\ [who |-> m, t |-> t] # None /\ (t.type = "REPLY" <=> t = REP(r))
    <3>1. t \in Items /\ t.req = r /\ (t.type = "REPLY" <=> t = REP(r))
      BY Transactions DEF TokensOf
    <3> QED BY <3>1, Transactions
  <2>2. Won(m, t)' <=> Won(m, t)
    BY DEF Won, BusServes
  <2>3. Runs(m, t)' <=> Runs(m, t) /\ bus'.cur = bus.cur
    BY <2>1 DEF Runs, BusServes
  <2>4. CASE m = MMC
    <3>1. Among(r, Append(mmcq, r)) /\ mmcq # Append(mmcq, r)
      <4>1. mmcq \in Seq(Request)
        BY <1>1 DEF Types
      <4>2. Len(Append(mmcq, r)) = Len(mmcq) + 1 /\ Len(mmcq) \in Nat
        BY <4>1, AppendFacts
      <4> QED BY <4>1, <4>2, AmongAppend
    <3>2. (Waits(m, t) <=> t.type = "REPLY" /\ Among(r, mmcq))
          /\ (Waits(m, t)' <=> t.type = "REPLY" /\ Among(r, mmcq'))
      BY <2>1, <2>4 DEF Waits
    <3> QED BY <2>1, <2>2, <2>3, <2>4, <3>1, <3>2
  <2>5. CASE m # MMC
    <3>1. m \in CPUs
      BY <2>5 DEF Masters
    <3>2. Has(sif'[m], t) <=> Has(sif[m], t)
      BY <1>4, <3>1 DEF PendingEnters, Masters
    <3> QED BY <2>2, <2>3, <2>5, <3>2 DEF Waits
  <2> QED BY <2>4, <2>5
<1>6. \A m \in Masters : ~At(m, REQ(r))' /\ (At(m, COPY(r))' => At(m, COPY(r)))
  <2>1. REP(r) # REQ(r) /\ REP(r) # COPY(r)
    BY Transactions
  <2> QED BY <1>3, <1>5, <2>1, Tokens DEF At
<1> QED BY <1>2, <1>3, <1>4, <1>5, <1>6

\* The transactions of the served request after a completion.
LEMMA ServedGoesOnce ==
  ASSUME CInv, NEW r \in Request, PendingEnters, BusServes(r),
         mmcq' = mmcq \/ (mmcq' = Append(mmcq, r) /\ mshr'[r].phase = "mem"),
         mshr[r].valid, ~OnItsWay(r), mshr'[r].valid,
         \/ mshr[r].phase = "out" /\ mshr'[r].phase \in {"out", "mem", "done"}
         \/ /\ mshr[r].phase = "mem" /\ mshr'[r].phase = "done" /\ mmcq' = mmcq
            /\ Runs(MMC, REP(r)) /\ bus'.cur = None,
         InReplyq(r)' <=> mshr'[r].phase = "done", Leaving(r)' <=> Leaving(r)
  PROVE  SentOnce(r)' /\ RequestGoesOnce(r)' /\ ReplyGoesOnce(r)' /\ LineFillsOnce(r)'
<1>1. SentOnce(r) /\ RequestGoesOnce(r) /\ ReplyGoesOnce(r) /\ LineFillsOnce(r) /\ bus \in BusRecord
  BY DEF CInv, RequestIsSound, Types, BusRecord
<1>2. /\ \A m \in Masters :
              /\ ~Pending(m, r) /\ ~Pending(m, r)' /\ ~At(m, REQ(r)) /\ ~At(m, REQ(r))'
              /\ \A t \in TokensOf(r) :
                   /\ Waits(m, t)' <=> Waits(m, t) \/ (m = MMC /\ t = REP(r) /\ mmcq' = Append(mmcq, r))
                   /\ Won(m, t)' <=> Won(m, t)
                   /\ Runs(m, t)' <=> Runs(m, t) /\ bus'.cur = bus.cur
  BY ServedTokens
<1>3. mmcq # Append(mmcq, r)
  <2>1. mmcq \in Seq(Request)
    BY DEF CInv, Types
  <2>2. Len(Append(mmcq, r)) = Len(mmcq) + 1 /\ Len(mmcq) \in Nat
    BY <2>1, AppendFacts
  <2> QED BY <2>2
<1>4. mmcq' = Append(mmcq, r) => \A m \in Masters : ~At(m, REP(r))
  BY <1>1, <1>3 DEF ReplyGoesOnce
<1>5. SentOnce(r)'
  <2> SUFFICES ASSUME NEW m \in Masters, NEW t \in TokensOf(r)
               PROVE  /\ Waits(m, t)' => ~Won(m, t)' /\ ~Runs(m, t)'
                      /\ Won(m, t)' => ~Runs(m, t)'
    BY DEF SentOnce
  <2> QED BY <1>1, <1>2, <1>4 DEF SentOnce, At
<1>6. RequestGoesOnce(r)'
  BY <1>2 DEF RequestGoesOnce
<1>7. ReplyGoesOnce(r)'
  <2> SUFFICES ASSUME NEW m \in Masters, At(m, REP(r))'
               PROVE  m = MMC /\ mshr'[r].phase = "mem"
    BY DEF ReplyGoesOnce
  <2>1. At(m, REP(r)) \/ (m = MMC /\ mmcq' = Append(mmcq, r))
    BY <1>2, Tokens DEF At
  <2>2. CASE m = MMC /\ mmcq' = Append(mmcq, r)
    BY <1>3, <2>2
  <2>3. CASE At(m, REP(r))
    <3>1. m = MMC /\ mshr[r].phase = "mem"
      BY <1>1, <2>3 DEF ReplyGoesOnce
    <3>2. Runs(MMC, REP(r)) /\ bus'.cur = None /\ mmcq' = mmcq
      BY <3>1
    <3>3. ~Waits(m, REP(r)) /\ ~Won(m, REP(r)) /\ bus.cur # None
      <4>1. [who |-> MMC, t |-> REP(r)] # None
        BY Transactions DEF Masters
      <4> QED BY <1>1, <3>1, <3>2, <4>1, Tokens DEF SentOnce, Runs
    <3>4. ~At(m, REP(r))'
      BY <1>2, <1>3, <3>2, <3>3, Tokens DEF At
    <3> QED BY <3>4
  <2> QED BY <2>1, <2>2, <2>3
<1>8. LineFillsOnce(r)'
  BY <1>1 DEF LineFillsOnce
<1> QED BY <1>5, <1>6, <1>7, <1>8

\* The served request stays exclusive if it writes.
LEMMA ServedWrites ==
  ASSUME CInv, NEW r \in Request, mshr[r].valid, ~OnItsWay(r)', mshr'[r].phase # "arb",
         mshr'[r] \in MSHR,
         mshr'[r].has_writes = mshr[r].has_writes, mshr'[r].misscache = mshr[r].misscache,
         mshr'[r].cohe_type = mshr[r].cohe_type \/ mshr[r].type = "READ_SH",
         mshr'[r].type = mshr'[r].cohe_type \/ (mshr'[r].type = mshr[r].type /\ Unanswered(r)),
         mshr'[r].phase \in {"mem", "done"} => mshr'[r].type = mshr'[r].cohe_type
  PROVE  WritesAreExclusive(r)'
<1>1. WritesAreExclusive(r)
  BY DEF CInv, RequestIsSound
<1>2. mshr'[r].cohe_type \in ReplyType
  BY DEF MSHR
<1>3. mshr'[r].type = mshr'[r].cohe_type => ~Unanswered(r)'
  BY <1>2 DEF Unanswered, ReplyType
<1>4. (mshr[r].has_writes \/ mshr[r].misscache = 0)
        => mshr'[r].type \notin {"READ_SH", "REPLY_SH"} /\ mshr'[r].cohe_type = "REPLY_EXCL"
  BY <1>1 DEF WritesAreExclusive
<1>5. ~Unanswered(r)' => mshr'[r].type = mshr'[r].cohe_type
  BY DEF Unanswered
<1> QED BY <1>3, <1>4, <1>5 DEF WritesAreExclusive

\* The served request keeps the way it will fill.
LEMMA ServedWay ==
  ASSUME CInv, NEW r \in Request, mshr[r].valid, mshr[r].phase # "done",
         mshr'[r].phase # "done" \/ ToInstall(r)',
         mshr'[r].misscache = mshr[r].misscache, mshr'[r].way = mshr[r].way, SameWays(r[1])
  PROVE  WayIsKnown(r)'
<1>1. WayIsKnown(r)
  BY DEF CInv
<1>2. ToFill(r)' /\ ToFill(r)
  BY DEF ToFill
<1>3. \A w \in Ways : tags'[r[1]][w].tag = r[2] => tags[r[1]][w].tag = r[2]
  BY DEF SameWays
<1>4. mshr[r].misscache = 0
           => tags'[r[1]][mshr[r].way].tag = r[2] /\ tags'[r[1]][mshr[r].way].mshr_out
  BY <1>1, <1>2 DEF WayIsKnown, SameWays
<1> QED BY <1>1, <1>2, <1>3, <1>4, WayStaysKnown

\* After the served request, too, is sound.
LEMMA AllSettle ==
  ASSUME CInv, NEW r \in Request, NEW F, Serves(r, F), WayIsKnown(r)', RequestIsSound(r)'
  PROVE  CInv' /\ RequestOf' = [RequestOf EXCEPT ![r] = RequestOf'[r]]
<1>1. /\ ContainersAreOrderly'
      /\ \A q \in Request : q # r
           => WayIsKnown(q)' /\ RequestIsSound(q)' /\ RequestOf'[q] = RequestOf[q]
  BY OthersSettle
<1>2. CInv'
  <2>1. \A q \in Request : WayIsKnown(q)' /\ RequestIsSound(q)'
    BY <1>1
  <2> QED BY <1>1, <2>1 DEF CInv, ContainersAreOrderly
<1>3. RequestOf' = [RequestOf EXCEPT ![r] = RequestOf'[r]]
  <2>1. RequestOf = [q \in Request |-> RequestOf[q]] /\ RequestOf' = [q \in Request |-> RequestOf'[q]]
    BY DEF RequestOf
  <2> QED BY <1>1, <2>1
<1> QED BY <1>2, <1>3

\* A request that looks the same is the same for Snooping.
LEMMA SameAfterAll ==
  ASSUME NEW r \in Request, RequestOf' = [RequestOf EXCEPT ![r] = RequestOf'[r]],
         RequestOf'[r] = RequestOf[r]
  PROVE  RequestOf' = RequestOf
<1>1. RequestOf = [q \in Request |-> RequestOf[q]]
  BY DEF RequestOf
<1> QED BY <1>1

\* An MSHR that waits for less is the same for the invariant.
LEMMA WaitingIsSame ==
  ASSUME NEW q \in Request, Waiting(mshr[q], mshr'[q])
  PROVE  SameMSHR(q)
BY DEF Waiting, Alike, SameMSHR

\* A copy nobody holds stays away.
LEMMA NoCopies ==
  ASSUME NEW r \in Request, \A c \in CPUs : ~Holds(c, r)', \A m \in Masters : ~At(m, COPY(r))'
  PROVE  CopyGoesOnce(r)'
BY DEF CopyGoesOnce, Holds

\* The answer of the memory controller crosses the bus.
LEMMA ReplyOnBus ==
  ASSUME CInv, OnBus("REPLY")
  PROVE  \E r \in Request :
           /\ r = bus.cur.t.req /\ Runs(MMC, REP(r)) /\ ~OnItsWay(r)
           /\ mshr[r].valid /\ mshr[r].phase = "mem" /\ ~Unanswered(r) /\ Stage(r) = "answered"
           /\ mshr[r].memtrans # "reading" /\ ~InReplyq(r) /\ ~Leaving(r)
           /\ \A c \in CPUs : ~Holds(c, r)
           /\ \A m \in Masters : ~At(m, COPY(r))
<1>1. bus.cur \in Grants /\ bus.cur.t.type = "REPLY"
  BY DEF CInv, Types, OnBus
<1>2. PICK m \in Masters, r \in Request : bus.cur = [who |-> m, t |-> REP(r)] /\ r = bus.cur.t.req
  <2>1. bus.cur = [who |-> bus.cur.who, t |-> bus.cur.t] /\ bus.cur.who \in Masters /\ bus.cur.t \in Items
    BY <1>1, Transactions
  <2>2. bus.cur.t = REP(bus.cur.t.req) /\ bus.cur.t.req \in Request
    BY <1>1, <2>1, Transactions
  <2> QED BY <2>1, <2>2
<1>3. Runs(m, REP(r)) /\ At(m, REP(r))
  BY <1>2 DEF Runs, At
<1>4. RequestIsSound(r)
  BY DEF CInv
<1>5. m = MMC /\ mshr[r].valid /\ mshr[r].phase = "mem"
  BY <1>3, <1>4 DEF RequestIsSound, ReplyGoesOnce
<1>6. ~OnItsWay(r)
  BY <1>1, Transactions DEF OnItsWay, Transaction
<1>7. ~Unanswered(r) /\ Stage(r) = "answered" /\ mshr[r].memtrans # "reading"
  BY <1>4, <1>5, <1>6 DEF RequestIsSound, WritesAreExclusive, ReadIsOpen, Stage
<1>8. ~InReplyq(r) /\ ~Leaving(r)
  BY <1>4, <1>5 DEF RequestIsSound, LineFillsOnce
<1>9. \A c \in CPUs : ~Holds(c, r)
  BY <1>4, <1>5 DEF RequestIsSound, CopyGoesOnce
<1>10. \A n \in Masters : ~At(n, COPY(r))
  BY <1>4, <1>9 DEF RequestIsSound, CopyGoesOnce, Holds
<1> QED BY <1>2, <1>3, <1>5, <1>6, <1>7, <1>8, <1>9, <1>10

\* What an abstract request is made of.
LEMMA ViewStays ==
  ASSUME NEW r \in Request, Stage(r)' = Stage(r), mshr'[r].cohe_type = mshr[r].cohe_type,
         Stage(r) = "ordered" =>
           mshr'[r].type = mshr[r].type /\ mshr[r].c2c_copy /\ mshr'[r].c2c_copy
  PROVE  RequestOf'[r] = RequestOf[r]
BY DEF RequestOf

\* Bus_send_reply: a reply of the MMC arrives.
LEMMA QuietReply ==
  ASSUME CInv, PerformReply
  PROVE  CInv' /\ Stutters
<1>1. Types /\ TagsAreExact /\ PipesAreOrderly
  BY DEF CInv
<1>2. PICK r \in Request :
        /\ r = bus.cur.t.req /\ Runs(MMC, REP(r)) /\ ~OnItsWay(r)
        /\ mshr[r].valid /\ mshr[r].phase = "mem" /\ ~Unanswered(r) /\ Stage(r) = "answered"
        /\ mshr[r].memtrans # "reading" /\ ~InReplyq(r) /\ ~Leaving(r)
        /\ \A c \in CPUs : ~Holds(c, r)
        /\ \A m \in Masters : ~At(m, COPY(r))
  BY ReplyOnBus DEF PerformReply
<1> DEFINE N == [mshr EXCEPT ![r] = [mshr[r] EXCEPT !.data_done = TRUE]]
           B == [bus EXCEPT !.cur = None]
           S == [mshr |-> N, sif |-> sif, replyq |-> replyq, mmcq |-> mmcq, bus |-> B]
<1>3. /\ UNCHANGED <<wbuf, reqq, tags, coheq, dpipe, dcp>>
      /\ Becomes(CacheGetReply(S, r))
  <2>1. [Released EXCEPT !.mshr[r].data_done = TRUE] = S
    <3>1. Released = [mshr |-> mshr, sif |-> sif, replyq |-> replyq, mmcq |-> mmcq, bus |-> B]
      BY DEF Released, Shared
    <3>2. [Released EXCEPT !.mshr[r].data_done = TRUE]
            = [Released EXCEPT !.mshr = [Released.mshr EXCEPT ![r].data_done = TRUE]]
      OBVIOUS
    <3>3. [mshr EXCEPT ![r].data_done = TRUE] = N
      OBVIOUS
    <3>4. Released.mshr = mshr
      BY <3>1
    <3> HIDE DEF N, B
    <3>5. [Released EXCEPT !.mshr = N] = S
      BY <3>1
    <3> QED BY <3>2, <3>3, <3>4, <3>5
  <2> QED BY <1>2, <2>1 DEF PerformReply
<1>4. /\ N \in [Request -> MSHR] /\ Waiting(mshr[r], N[r]) /\ \A q \in Request : q # r => N[q] = mshr[q]
  <2>1. mshr \in [Request -> MSHR] /\ mshr[r] \in MSHR
    BY <1>1 DEF Types
  <2> DEFINE k == [mshr[r] EXCEPT !.data_done = TRUE]
  <2>2. k \in MSHR /\ Waiting(mshr[r], k)
    BY <2>1 DEF MSHR, Waiting, Alike
  <2>3. N = [mshr EXCEPT ![r] = k]
    OBVIOUS
  <2> HIDE DEF k, N
  <2> QED BY <2>1, <2>2, <2>3
<1>5. B \in BusRecord /\ B.winner = bus.winner /\ B.cur = None
  BY <1>1 DEF Types, BusRecord
<1> HIDE DEF N, B
<1>6. S \in SharedState /\ S.mshr = N /\ S.sif = sif /\ S.replyq = replyq /\ S.mmcq = mmcq /\ S.bus = B
  BY <1>1, <1>4, <1>5 DEF Types, SharedState
<1> HIDE DEF S
<1>7. mshr' = Received(N, r) /\ FreesFor(r, sif) /\ RepliesTake(r) /\ mmcq' = mmcq /\ bus' = B
  <2> DEFINE T == CacheGetReply(S, r)
  <2>1. /\ T.mshr = Received(S.mshr, r)
        /\ T.sif = [S.sif EXCEPT ![r[1]] = Freed(S.sif[r[1]], r[1], r)]
        /\ T.replyq = [S.replyq EXCEPT ![r[1]] = Append(@, NewReply(r))]
        /\ T.mmcq = S.mmcq /\ T.bus = S.bus
    BY <1>6, GetsReply
  <2>2. mshr' = T.mshr /\ sif' = T.sif /\ replyq' = T.replyq /\ mmcq' = T.mmcq /\ bus' = T.bus
    BY <1>3 DEF Becomes
  <2> HIDE DEF T
  <2> QED BY <1>6, <2>1, <2>2 DEF FreesFor, RepliesTake
<1>8. /\ mshr' \in [Request -> MSHR]
      /\ Alike(mshr[r], mshr'[r]) /\ mshr'[r].phase = "done" /\ mshr'[r].type = mshr[r].type
      /\ \A q \in Request : q # r => Waiting(mshr[q], mshr'[q])
  <2>1. /\ Received(N, r) \in [Request -> MSHR]
        /\ \A q \in Request : q # r => Waiting(N[q], Received(N, r)[q])
        /\ Alike(N[r], Received(N, r)[r]) /\ Received(N, r)[r].phase = "done"
        /\ Received(N, r)[r].type = N[r].type
    BY <1>4, ReceivedMSHRs
  <2>2. Alike(mshr[r], Received(N, r)[r]) /\ Received(N, r)[r].type = mshr[r].type
    <3>1. Alike(mshr[r], N[r]) /\ N[r].type = mshr[r].type
      BY <1>4 DEF Waiting
    <3> QED BY <2>1, <3>1 DEF Alike
  <2>3. \A q \in Request : q # r => Waiting(mshr[q], Received(N, r)[q])
    BY <1>4, <2>1
  <2> QED BY <1>7, <2>1, <2>2, <2>3
<1>9. BusServes(r) /\ bus'.cur = None
  <2>1. bus.cur = [who |-> MMC, t |-> REP(r)] /\ MMC \in Masters /\ REP(r) \in TokensOf(r)
    BY <1>2, Tokens DEF Runs, Masters
  <2> QED BY <1>5, <1>7, <2>1 DEF BusServes
<1>10. Serves(r, sif)
  <2>1. InterfacesLike(sif)
    BY <1>1 DEF InterfacesLike, Types
  <2>2. \A q \in Request : q # r => SameMSHR(q)
    BY <1>8, WaitingIsSame
  <2>3. /\ tags' \in [CPUs -> [Ways -> TagEntry]] /\ TagsAreExact' /\ \A c \in CPUs : SameWays(c)
    BY <1>1, <1>3, SameTags DEF Types
  <2>4. /\ coheq' \in [CPUs -> Seq(Request)] /\ dpipe' \in [CPUs -> Seq(PipeItem)]
        /\ dcp' \in [CPUs -> Request \cup {None}] /\ PipesAreOrderly'
    BY <1>1, <1>3 DEF Types, PipesAreOrderly
  <2>5. \A q \in Request : /\ SameSnoops(q) /\ (Leaving(q)' <=> Leaving(q))
                           /\ \A c \in CPUs : (InPipe(c, q)' <=> InPipe(c, q)) /\ (SetAside(c, q)' <=> SetAside(c, q))
    BY <1>3 DEF SameSnoops, Snoops, Leaving, InPipe, SetAside
  <2> QED BY <1>2, <1>3, <1>7, <1>8, <1>9, <2>1, <2>2, <2>3, <2>4, <2>5 DEF Serves
<1>11. /\ PendingEnters /\ \A m \in CPUs : sif'[m].cohe_reply = sif[m].cohe_reply
  BY <1>10, OthersSettle
<1>12. InReplyq(r)' /\ ToInstall(r)'
  BY <1>2, <1>7, RepliesSettle
<1>13. /\ ~OnItsWay(r)' /\ \A m \in Masters : At(m, COPY(r))' => At(m, COPY(r))
  BY <1>2, <1>7, <1>9, <1>11, ServedTokens
<1>14. mshr'[r].valid /\ mshr'[r].phase = "done" /\ mshr'[r].misscache = mshr[r].misscache
       /\ mshr'[r].way = mshr[r].way /\ mshr'[r].has_writes = mshr[r].has_writes
       /\ mshr'[r].cohe_type = mshr[r].cohe_type /\ mshr'[r].type = mshr[r].type
       /\ mshr'[r].memtrans = mshr[r].memtrans /\ mshr'[r].issued = mshr[r].issued
       /\ mshr'[r] \in MSHR
  BY <1>2, <1>8 DEF Alike
<1>15. mshr[r].type = mshr[r].cohe_type
  BY <1>2 DEF CInv, RequestIsSound, WritesAreExclusive
<1>16. Stage(r)' = "answered" /\ ~Unanswered(r)'
  BY <1>2, <1>12, <1>13, <1>14 DEF Stage, Unanswered
<1>17. SentOnce(r)' /\ RequestGoesOnce(r)' /\ ReplyGoesOnce(r)' /\ LineFillsOnce(r)'
  <2>1. Leaving(r)' <=> Leaving(r)
    BY <1>10 DEF Serves
  <2> QED BY <1>2, <1>7, <1>9, <1>11, <1>12, <1>14, <2>1, ServedGoesOnce
<1>18. WritesAreExclusive(r)'
  BY <1>2, <1>13, <1>14, <1>15, ServedWrites
<1>19. WayIsKnown(r)'
  BY <1>2, <1>10, <1>12, <1>14, Names, ServedWay DEF Serves
<1>20. CopyGoesOnce(r)'
  <2>1. \A c \in CPUs : ~Holds(c, r)'
    BY <1>2, <1>3, <1>11 DEF Holds, InPipe, SetAside, AtTheBus
  <2> QED BY <1>2, <1>13, <2>1, NoCopies
<1>21. CountIsExact(r)' /\ IssuedIsSeen(r)' /\ ReadIsOpen(r)'
  <2>1. IssuedIsSeen(r)
    BY DEF CInv, RequestIsSound
  <2> QED BY <1>2, <1>3, <1>14, <1>16, <2>1 DEF CountIsExact, IssuedIsSeen, ReadIsOpen, Snoops
<1>22. RequestIsSound(r)'
  BY <1>17, <1>18, <1>20, <1>21 DEF RequestIsSound
<1>23. CInv' /\ RequestOf' = [RequestOf EXCEPT ![r] = RequestOf'[r]]
  BY <1>10, <1>19, <1>22, AllSettle
<1>24. RequestOf'[r] = RequestOf[r]
  BY <1>2, <1>14, <1>16 DEF RequestOf
<1>25. RequestOf' = RequestOf
  BY <1>23, <1>24, SameAfterAll
<1> QED BY <1>3, <1>23, <1>25, SameTags DEF Stutters

-----------------------------------------------------------------------------
(* A request whose snoops, data or memory access go on *)

\* A request whose snoops, data or memory access go on has no reply anywhere.
LEMMA OutIsFree ==
  ASSUME CInv, NEW r \in Request, mshr[r].valid, mshr[r].phase = "out"
  PROVE  /\ ~InReplyq(r) /\ ~Leaving(r) /\ ~Among(r, mmcq)
         /\ \A m \in Masters : ~At(m, REP(r))
<1>1. ~InReplyq(r) /\ ~Leaving(r)
  BY DEF CInv, RequestIsSound, LineFillsOnce
<1>2. \A m \in Masters : ~At(m, REP(r))
  BY DEF CInv, RequestIsSound, ReplyGoesOnce
<1>3. ~Among(r, mmcq)
  <2>1. MMC \in Masters /\ REP(r).type = "REPLY" /\ REP(r).req = r
    BY Transactions DEF Masters
  <2>2. ~Waits(MMC, REP(r))
    BY <1>2, <2>1 DEF At
  <2> QED BY <2>1, <2>2 DEF Waits
<1> QED BY <1>1, <1>2, <1>3

\* How far it has come: it waits on, its reply waits for the bus, or its line is there.
Outcome(r, F) ==
  \/ /\ mshr'[r].phase = "out"
     /\ sif' = F /\ replyq' = replyq /\ mmcq' = mmcq
  \/ /\ mshr'[r].phase = "mem"
     /\ sif' = F /\ replyq' = replyq /\ mmcq' = Append(mmcq, r)
  \/ /\ mshr'[r].phase = "done"
     /\ FreesFor(r, F) /\ RepliesTake(r) /\ mmcq' = mmcq
IsOut(r) == mshr[r].valid /\ mshr[r].phase = "out" /\ ~OnItsWay(r)
Advances(r) ==
  /\ mshr'[r].valid /\ mshr'[r].misscache = mshr[r].misscache /\ mshr'[r].way = mshr[r].way
  /\ mshr'[r].has_writes = mshr[r].has_writes
  /\ mshr'[r].cohe_type = mshr[r].cohe_type \/ mshr[r].type = "READ_SH"
  /\ mshr'[r].type = mshr'[r].cohe_type \/ (mshr'[r].type = mshr[r].type /\ Unanswered(r))
  /\ mshr'[r].phase \in {"mem", "done"} => mshr'[r].type = mshr'[r].cohe_type

\* Where the parts of the served request are.
LEMMA ServedFacts ==
  ASSUME CInv, NEW r \in Request, NEW F, Serves(r, F), Outcome(r, F), IsOut(r)
  PROVE  /\ ~OnItsWay(r)' /\ PendingEnters
         /\ \A m \in Masters :
              /\ At(m, COPY(r))' => At(m, COPY(r))
              /\ Runs(m, COPY(r))' => bus'.cur = bus.cur
              /\ Waits(m, COPY(r))' => Waits(m, COPY(r))
              /\ Won(m, COPY(r))' => Won(m, COPY(r))
         /\ \A m \in CPUs : sif'[m].cohe_reply = F[m].cohe_reply
         /\ InReplyq(r)' <=> mshr'[r].phase = "done"
         /\ mshr'[r].phase = "done" => ToInstall(r)'
<1>1. /\ PendingEnters /\ \A m \in CPUs : sif'[m].cohe_reply = F[m].cohe_reply
      /\ replyq' = replyq => (InReplyq(r)' <=> InReplyq(r))
  BY OthersSettle
<1>2. ~InReplyq(r)
  BY OutIsFree DEF IsOut
<1>3. mshr'[r].phase = "done" => InReplyq(r)' /\ ToInstall(r)'
  <2>1. mshr'[r].phase = "done" => RepliesTake(r)
    BY DEF Outcome
  <2> QED BY <1>2, <2>1, RepliesSettle
<1>4. InReplyq(r)' <=> mshr'[r].phase = "done"
  BY <1>1, <1>2, <1>3 DEF Outcome
<1>5. /\ ~OnItsWay(r)'
      /\ \A m \in Masters :
           /\ At(m, COPY(r))' => At(m, COPY(r))
           /\ \A t \in TokensOf(r) :
                /\ Waits(m, t)' <=> Waits(m, t) \/ (m = MMC /\ t = REP(r) /\ mmcq' = Append(mmcq, r))
                /\ Won(m, t)' <=> Won(m, t)
                /\ Runs(m, t)' <=> Runs(m, t) /\ bus'.cur = bus.cur
  <2>1. BusServes(r) /\ (mmcq' = mmcq \/ mmcq' = Append(mmcq, r))
    BY DEF Serves
  <2> QED BY <1>1, <2>1, ServedTokens DEF IsOut
<1>6. COPY(r) # REP(r)
  BY Transactions
<1> QED BY <1>1, <1>3, <1>4, <1>5, <1>6, Tokens

\* The served request stays sound if its copies, its count and its read do.
LEMMA ServedIsSound ==
  ASSUME CInv, NEW r \in Request, NEW F, Serves(r, F), Outcome(r, F), IsOut(r), Advances(r),
         CopyGoesOnce(r)', CountIsExact(r)', IssuedIsSeen(r)', ReadIsOpen(r)'
  PROVE  /\ CInv' /\ RequestOf' = [RequestOf EXCEPT ![r] = RequestOf'[r]]
         /\ Stage(r)' = IF Unanswered(r)' THEN "ordered" ELSE "answered"
<1>1. /\ ~OnItsWay(r)' /\ PendingEnters
      /\ InReplyq(r)' <=> mshr'[r].phase = "done"
      /\ mshr'[r].phase = "done" => ToInstall(r)'
  BY ServedFacts
<1>2. mshr'[r] \in MSHR
  BY DEF Serves
<1>3. SentOnce(r)' /\ RequestGoesOnce(r)' /\ ReplyGoesOnce(r)' /\ LineFillsOnce(r)'
  <2>1. mmcq' = mmcq \/ (mmcq' = Append(mmcq, r) /\ mshr'[r].phase = "mem")
    BY DEF Outcome
  <2>2. BusServes(r) /\ (Leaving(r)' <=> Leaving(r))
    BY DEF Serves
  <2>3. mshr[r].phase = "out" /\ mshr'[r].phase \in {"out", "mem", "done"}
    BY DEF Outcome, IsOut
  <2> QED BY <1>1, <2>1, <2>2, <2>3, ServedGoesOnce DEF IsOut, Advances
<1>4. mshr'[r].phase # "arb"
  BY DEF Outcome
<1>5. WritesAreExclusive(r)'
  BY <1>1, <1>2, <1>4, ServedWrites DEF IsOut, Advances
<1>6. WayIsKnown(r)'
  <2>1. SameWays(r[1])
    BY Names DEF Serves
  <2> QED BY <1>1, <2>1, ServedWay DEF IsOut, Advances
<1>7. RequestIsSound(r)'
  BY <1>3, <1>5 DEF RequestIsSound
<1>8. Stage(r)' = IF Unanswered(r)' THEN "ordered" ELSE "answered"
  BY <1>1, <1>4 DEF Stage, Advances
<1> QED BY <1>6, <1>7, <1>8, AllSettle

\* Copies that only become fewer stay orderly.
LEMMA KeptCopies ==
  ASSUME NEW r \in Request, CopyGoesOnce(r), ~OnItsWay(r)',
         \A c \in CPUs : Holds(c, r)' => Holds(c, r),
         \A c \in CPUs : /\ InPipe(c, r)' => InPipe(c, r)
                         /\ SetAside(c, r)' => SetAside(c, r)
                         /\ AtTheBus(c, r)' <=> AtTheBus(c, r),
         \A m \in Masters : At(m, COPY(r))' => At(m, COPY(r)),
         mshr'[r].valid, mshr'[r].phase = "out", mshr[r].c2c_copy => mshr'[r].c2c_copy
  PROVE  CopyGoesOnce(r)'
BY DEF CopyGoesOnce

\* A complete request is marked only as shared or not.
LEMMA CompletedIs ==
  ASSUME NEW m, m.shared \in BOOLEAN
  PROVE  Abstract!Completed(m)
           = [stage |-> "answered", exclusive |-> FALSE, shared |-> m.shared, copied |-> FALSE]
<1> DEFINE s == m.shared
           x == [Abstract!Idle EXCEPT !.stage = "answered", !.shared = s]
<1>1. Abstract!Completed(m) = x
  BY DEF Abstract!Completed
<1>2. Abstract!Idle \in View
  BY DEF Abstract!Idle, View
<1> HIDE DEF s
<1>3. s \in BOOLEAN
  BY DEF s
<1>4. x \in View /\ x.stage = "answered" /\ x.exclusive = FALSE /\ x.shared = s /\ x.copied = FALSE
  BY <1>2, <1>3 DEF View, Abstract!Idle
<1> HIDE DEF x
<1>5. x = [stage |-> "answered", exclusive |-> FALSE, shared |-> s, copied |-> FALSE]
  BY <1>4 DEF View
<1> QED BY <1>1, <1>5 DEF s

\* The request is complete for the other caches.
LEMMA Completes ==
  ASSUME NEW r \in Request, RequestOf' = [RequestOf EXCEPT ![r] = RequestOf'[r]],
         Stage(r) = "ordered", Stage(r)' = "answered", mshr'[r].cohe_type = mshr[r].cohe_type,
         LineOf' = LineOf, coheq' = coheq, \A c \in CPUs : ~Snoops(c, r)
  PROVE  Abstract!Complete(r)
<1>1. PICK s \in BOOLEAN : s = (mshr[r].cohe_type = "REPLY_SH")
  OBVIOUS
<1>2. RequestOf'[r] = [stage |-> "answered", exclusive |-> FALSE, shared |-> s, copied |-> FALSE]
  BY <1>1 DEF RequestOf
<1>3. RequestOf[r].shared = s /\ RequestOf[r].stage = "ordered"
  BY <1>1 DEF RequestOf
<1>4. Abstract!Completed(RequestOf[r])
        = [stage |-> "answered", exclusive |-> FALSE, shared |-> s, copied |-> FALSE]
  <2> DEFINE m == RequestOf[r]
  <2>1. m.shared = s
    BY <1>3
  <2> HIDE DEF m
  <2>2. Abstract!Completed(m)
          = [stage |-> "answered", exclusive |-> FALSE, shared |-> m.shared, copied |-> FALSE]
    BY <2>1, CompletedIs
  <2> QED BY <2>1, <2>2 DEF m
<1>5. RequestOf' = [RequestOf EXCEPT ![r] = Abstract!Completed(RequestOf[r])]
  BY <1>2, <1>4
<1>6. \A c \in CPUs : ~Abstract!In(r, coheq[c])
  BY DEF Snoops, Among, Abstract!In
<1> QED BY <1>3, <1>5, <1>6 DEF Abstract!Complete

\* The reply is sent: what becomes of the shared state.
LEMMA SendSettles ==
  ASSUME NEW S \in SharedState, NEW r \in Request, NEW T, T = MMCSendReply(S, r),
         S.replyq = replyq, S.mmcq = mmcq, S.mshr[r].phase = "out",
         sif' = T.sif, replyq' = T.replyq, mmcq' = T.mmcq, mshr'[r].phase = T.mshr[r].phase
  PROVE  /\ Outcome(r, S.sif) /\ T.mshr \in [Request -> MSHR] /\ Alike(S.mshr[r], T.mshr[r])
         /\ \A q \in Request : q # r => Waiting(S.mshr[q], T.mshr[q])
         /\ T.mshr[r].type = S.mshr[r].cohe_type
         /\ T.bus \in BusRecord /\ T.bus.winner = S.bus.winner /\ T.bus.cur = S.bus.cur
         /\ T.mshr[r].phase = "mem" => S.mshr[r].type # "UPGRADE" /\ ~S.mshr[r].c2c_copy
         /\ T.mshr[r].phase = "done" => (S.mshr[r].type = "UPGRADE" <=> ~S.mshr[r].c2c_copy)
         /\ T.mshr[r].phase = "out" => /\ S.mshr[r].type = "UPGRADE"
                                       /\ S.mshr[r].c2c_copy /\ T.mshr[r].c2c_copy
<1>1. /\ OthersWait(S, r, T) /\ T.mshr[r].type = S.mshr[r].cohe_type
      /\ \/ Turns(S, r, T) \/ GoesToBus(S, r, T)
         \/ IsReceived(S, r, T) /\ (S.mshr[r].type = "UPGRADE" <=> ~S.mshr[r].c2c_copy)
  <2> DEFINE V == MMCSendReply(S, r)
  <2>1. /\ OthersWait(S, r, V) /\ V.mshr[r].type = S.mshr[r].cohe_type
        /\ \/ Turns(S, r, V) \/ GoesToBus(S, r, V)
           \/ IsReceived(S, r, V) /\ (S.mshr[r].type = "UPGRADE" <=> ~S.mshr[r].c2c_copy)
    BY SendsReply
  <2>2. T = V
    OBVIOUS
  <2> HIDE DEF V
  <2> QED BY <2>1, <2>2
<1>2. /\ T.mshr \in [Request -> MSHR] /\ Alike(S.mshr[r], T.mshr[r])
      /\ \A q \in Request : q # r => Waiting(S.mshr[q], T.mshr[q])
      /\ T.bus \in BusRecord /\ T.bus.winner = S.bus.winner /\ T.bus.cur = S.bus.cur
  BY <1>1 DEF OthersWait
<1>3. CASE Turns(S, r, T)
  <2>1. /\ T.mshr[r].phase = "out" /\ sif' = S.sif /\ replyq' = replyq /\ mmcq' = mmcq
        /\ S.mshr[r].type = "UPGRADE" /\ S.mshr[r].c2c_copy /\ T.mshr[r].c2c_copy
    BY <1>3 DEF Turns
  <2>2. Outcome(r, S.sif)
    BY <2>1 DEF Outcome
  <2> QED BY <1>1, <1>2, <2>1, <2>2
<1>4. CASE GoesToBus(S, r, T)
  <2>1. /\ T.mshr[r].phase = "mem" /\ sif' = S.sif /\ replyq' = replyq /\ mmcq' = Append(mmcq, r)
        /\ S.mshr[r].type # "UPGRADE" /\ ~S.mshr[r].c2c_copy
    BY <1>4 DEF GoesToBus
  <2>2. Outcome(r, S.sif)
    BY <2>1 DEF Outcome
  <2> QED BY <1>1, <1>2, <2>1, <2>2
<1>5. CASE IsReceived(S, r, T) /\ (S.mshr[r].type = "UPGRADE" <=> ~S.mshr[r].c2c_copy)
  <2>1. /\ T.mshr[r].phase = "done" /\ FreesFor(r, S.sif) /\ RepliesTake(r) /\ mmcq' = mmcq
    BY <1>5 DEF IsReceived, FreesFor, RepliesTake
  <2>2. Outcome(r, S.sif)
    BY <2>1 DEF Outcome
  <2> QED BY <1>1, <1>2, <1>5, <2>1, <2>2
<1> QED BY <1>1, <1>3, <1>4, <1>5

\* Memory has been read: the request goes on waiting, or its data cross the bus.
LEMMA DataAreReady ==
  ASSUME CInv, NEW r \in Request, MemDataReady(r)
  PROVE  CInv' /\ (Stutters \/ Abstract!Complete(r))
<1>1. Types /\ TagsAreExact /\ PipesAreOrderly /\ RequestIsSound(r)
  BY DEF CInv
<1>2. /\ Stage(r) = "ordered" /\ mshr[r].type # "UPGRADE" /\ mshr[r].phase = "out"
      /\ mshr[r].valid /\ ~OnItsWay(r) /\ Unanswered(r)
  BY <1>1 DEF MemDataReady, RequestIsSound, ReadIsOpen, Stage
<1> DEFINE k == [[mshr[r] EXCEPT !.memtrans = "read"] EXCEPT !.data_rtn = TRUE]
           N == [mshr EXCEPT ![r] = k]
           S == [mshr |-> N, sif |-> sif, replyq |-> replyq, mmcq |-> mmcq, bus |-> bus]
           T == MMCSendReply(S, r)
           last == mshr[r].cohe_count = 0 /\ ~mshr[r].c2c_copy
<1>3. /\ UNCHANGED <<wbuf, reqq, tags, coheq, dpipe, dcp>>
      /\ last => Becomes(T)
      /\ ~last => Becomes(S)
  <2>1. [Shared EXCEPT !.mshr[r].memtrans = "read", !.mshr[r].data_rtn = TRUE] = S
    <3>1. [Shared EXCEPT !.mshr[r].memtrans = "read", !.mshr[r].data_rtn = TRUE]
            = [Shared EXCEPT !.mshr = [[Shared.mshr EXCEPT ![r].memtrans = "read"]
                                                    EXCEPT ![r].data_rtn = TRUE]]
      BY <1>1, SharedParts DEF SharedState
    <3>2. [[mshr EXCEPT ![r].memtrans = "read"] EXCEPT ![r].data_rtn = TRUE] = N
      BY <1>1 DEF Types
    <3>3. Shared.mshr = mshr
      BY <1>1, SharedParts
    <3>4. Shared = [mshr |-> mshr, sif |-> sif, replyq |-> replyq, mmcq |-> mmcq, bus |-> bus]
      BY DEF Shared
    <3> HIDE DEF N
    <3>5. [Shared EXCEPT !.mshr = N] = S
      BY <3>4
    <3> QED BY <3>1, <3>2, <3>3, <3>5
  <2> QED BY <2>1 DEF MemDataReady
<1>4. /\ k \in MSHR /\ k.memtrans = "read" /\ k.cohe_count = mshr[r].cohe_count
      /\ k.valid = mshr[r].valid /\ k.misscache = mshr[r].misscache /\ k.way = mshr[r].way
      /\ k.has_writes = mshr[r].has_writes /\ k.cohe_type = mshr[r].cohe_type
      /\ k.issued = mshr[r].issued /\ k.type = mshr[r].type /\ k.phase = mshr[r].phase
      /\ k.c2c_copy = mshr[r].c2c_copy
  <2>1. mshr[r] \in MSHR
    BY <1>1 DEF Types
  <2> QED BY <2>1 DEF MSHR
<1> HIDE DEF k
<1>5. N \in [Request -> MSHR] /\ N[r] = k /\ \A q \in Request : q # r => N[q] = mshr[q]
  BY <1>1, <1>4 DEF Types
<1> HIDE DEF N
<1>6. S \in SharedState /\ S.mshr = N /\ S.sif = sif /\ S.replyq = replyq /\ S.mmcq = mmcq /\ S.bus = bus
  BY <1>1, <1>5 DEF Types, SharedState, BusRecord
<1> HIDE DEF S
<1>7. PICK U : /\ mshr' = U.mshr /\ sif' = U.sif /\ replyq' = U.replyq /\ mmcq' = U.mmcq /\ bus' = U.bus
               /\ last => U = T
               /\ ~last => U = S
  BY <1>3 DEF Becomes
<1>8. /\ Outcome(r, sif) /\ mshr' \in [Request -> MSHR] /\ Alike(k, mshr'[r])
      /\ \A q \in Request : q # r => Waiting(mshr[q], mshr'[q])
      /\ bus' \in BusRecord /\ bus'.winner = bus.winner /\ bus'.cur = bus.cur
      /\ ~last => mshr'[r].type = mshr[r].type /\ mshr'[r].phase = "out"
                  /\ mshr'[r].c2c_copy = mshr[r].c2c_copy
      /\ last => mshr'[r].type = mshr'[r].cohe_type /\ mshr'[r].phase = "mem"
  <2>1. CASE last
    <3>1. U = MMCSendReply(S, r)
      BY <1>7, <2>1
    <3>2. S.mshr[r].phase = "out" /\ S.mshr[r].type # "UPGRADE" /\ ~S.mshr[r].c2c_copy
      BY <1>2, <1>4, <1>5, <1>6, <2>1
    <3>3. /\ Outcome(r, S.sif) /\ U.mshr \in [Request -> MSHR] /\ Alike(S.mshr[r], U.mshr[r])
          /\ \A q \in Request : q # r => Waiting(S.mshr[q], U.mshr[q])
          /\ U.mshr[r].type = S.mshr[r].cohe_type
          /\ U.bus \in BusRecord /\ U.bus.winner = S.bus.winner /\ U.bus.cur = S.bus.cur
          /\ U.mshr[r].phase = "done" => (S.mshr[r].type = "UPGRADE" <=> ~S.mshr[r].c2c_copy)
          /\ U.mshr[r].phase = "out" => S.mshr[r].type = "UPGRADE"
      BY <1>6, <1>7, <3>1, <3>2, SendSettles
    <3>4. U.mshr[r].phase = "mem"
      BY <1>7, <3>2, <3>3 DEF Outcome
    <3>5. mshr'[r].type = mshr'[r].cohe_type
      BY <1>6, <1>7, <3>3 DEF Alike
    <3> QED BY <1>5, <1>6, <1>7, <2>1, <3>3, <3>4, <3>5
  <2>2. CASE ~last
    <3>1. mshr' = N /\ sif' = sif /\ replyq' = replyq /\ mmcq' = mmcq /\ bus' = bus
      BY <1>6, <1>7, <2>2
    <3>2. Outcome(r, sif)
      BY <1>2, <1>4, <1>5, <3>1 DEF Outcome
    <3>3. Alike(k, k) /\ \A q \in Request : Waiting(mshr[q], mshr[q])
      BY DEF Alike, Waiting
    <3>4. bus \in BusRecord
      BY <1>1 DEF Types, BusRecord
    <3> QED BY <1>2, <1>4, <1>5, <2>2, <3>1, <3>2, <3>3, <3>4
  <2> QED BY <2>1, <2>2
<1>9. /\ mshr'[r].valid /\ mshr'[r].misscache = mshr[r].misscache /\ mshr'[r].way = mshr[r].way
      /\ mshr'[r].has_writes = mshr[r].has_writes /\ mshr'[r].memtrans = "read"
      /\ mshr'[r].cohe_count = mshr[r].cohe_count /\ mshr'[r].cohe_type = mshr[r].cohe_type
      /\ mshr'[r].issued = mshr[r].issued
  BY <1>2, <1>4, <1>8 DEF Alike
<1> HIDE DEF T
<1>10. Serves(r, sif)
  <2>1. InterfacesLike(sif)
    BY <1>1 DEF InterfacesLike, Types
  <2>2. \A q \in Request : q # r => SameMSHR(q)
    BY <1>8, WaitingIsSame
  <2>3. /\ tags' \in [CPUs -> [Ways -> TagEntry]] /\ TagsAreExact' /\ \A c \in CPUs : SameWays(c)
    BY <1>1, <1>3, SameTags DEF Types
  <2>4. /\ coheq' \in [CPUs -> Seq(Request)] /\ dpipe' \in [CPUs -> Seq(PipeItem)]
        /\ dcp' \in [CPUs -> Request \cup {None}] /\ PipesAreOrderly'
    BY <1>1, <1>3 DEF Types, PipesAreOrderly
  <2>5. \A q \in Request : /\ SameSnoops(q) /\ (Leaving(q)' <=> Leaving(q))
                           /\ \A c \in CPUs : (InPipe(c, q)' <=> InPipe(c, q)) /\ (SetAside(c, q)' <=> SetAside(c, q))
    BY <1>3 DEF SameSnoops, Snoops, Leaving, InPipe, SetAside
  <2>6. BusServes(r)
    BY <1>8 DEF BusServes
  <2>7. ~Among(r, mmcq) /\ ~InReplyq(r)
    BY <1>2, OutIsFree
  <2>8. /\ \/ sif' = sif /\ replyq' = replyq
           \/ FreesFor(r, sif) /\ RepliesTake(r) /\ ~InReplyq(r)
        /\ mmcq' = mmcq \/ (mmcq' = Append(mmcq, r) /\ ~Among(r, mmcq))
    BY <1>8, <2>7 DEF Outcome
  <2> QED BY <1>3, <1>8, <2>1, <2>2, <2>3, <2>4, <2>5, <2>6, <2>8 DEF Serves
<1>11. IsOut(r) /\ Advances(r)
  BY <1>2, <1>8, <1>9 DEF IsOut, Advances
<1>12. /\ ~OnItsWay(r)' /\ \A m \in Masters : At(m, COPY(r))' => At(m, COPY(r))
       /\ \A m \in CPUs : sif'[m].cohe_reply = sif[m].cohe_reply
  BY <1>8, <1>10, <1>11, ServedFacts
<1>13. CopyGoesOnce(r)'
  <2>1. \A c \in CPUs : /\ InPipe(c, r)' <=> InPipe(c, r)
                        /\ SetAside(c, r)' <=> SetAside(c, r)
                        /\ AtTheBus(c, r)' <=> AtTheBus(c, r)
                        /\ Holds(c, r)' <=> Holds(c, r)
    BY <1>3, <1>12 DEF InPipe, SetAside, AtTheBus, Holds
  <2>2. CopyGoesOnce(r)
    BY <1>1 DEF RequestIsSound
  <2>3. CASE last
    <3>1. \A c \in CPUs : ~Holds(c, r)
      BY <2>2, <2>3 DEF CopyGoesOnce
    <3>2. \A m \in Masters : ~At(m, COPY(r))'
      BY <1>12, <2>2, <3>1 DEF CopyGoesOnce, Holds
    <3> QED BY <2>1, <3>1, <3>2, NoCopies
  <2>4. CASE ~last
    BY <1>8, <1>9, <1>12, <2>1, <2>2, <2>4, KeptCopies
  <2> QED BY <2>3, <2>4
<1>14. (Unanswered(r)' <=> ~last) /\ (last => ~Unanswered(r)')
  <2>1. mshr'[r].cohe_type \in ReplyType
    BY <1>8 DEF MSHR
  <2> QED BY <1>2, <1>8, <2>1 DEF Unanswered, ReplyType
<1>15. Stage(r)' = IF Unanswered(r)' THEN "ordered" ELSE "answered"
  <2>1. mshr'[r].phase \in {"out", "mem"}
    BY <1>8
  <2> QED BY <1>9, <1>12, <2>1 DEF Stage
<1>16. CountIsExact(r)' /\ IssuedIsSeen(r)' /\ ReadIsOpen(r)'
  <2>1. \A c \in CPUs : Snoops(c, r)' <=> Snoops(c, r)
    BY <1>3 DEF Snoops
  <2>2. {c \in CPUs : Snoops(c, r)'} = {c \in CPUs : Snoops(c, r)}
    BY <2>1
  <2>3. CountIsExact(r) /\ IssuedIsSeen(r)
    BY <1>1 DEF RequestIsSound
  <2> QED BY <1>2, <1>9, <2>1, <2>2, <2>3, Names DEF CountIsExact, IssuedIsSeen, ReadIsOpen
<1>17. /\ CInv' /\ RequestOf' = [RequestOf EXCEPT ![r] = RequestOf'[r]]
  BY <1>8, <1>10, <1>11, <1>13, <1>16, ServedIsSound
<1>18. LineOf' = LineOf /\ coheq' = coheq
  BY <1>3, SameTags
<1>19. CASE ~last
  <2>1. RequestOf'[r] = RequestOf[r]
    BY <1>2, <1>8, <1>9, <1>14, <1>15, <1>19 DEF RequestOf
  <2> QED BY <1>17, <1>18, <2>1, SameAfterAll DEF Stutters
<1>20. CASE last
  <2>1. \A c \in CPUs : ~Snoops(c, r)
    <3>1. Cardinality({c \in CPUs : Snoops(c, r)}) = 0
      BY <1>1, <1>2, <1>20 DEF RequestIsSound, CountIsExact
    <3>2. IsFiniteSet({c \in CPUs : Snoops(c, r)})
      BY Names, FS_Subset
    <3>3. {c \in CPUs : Snoops(c, r)} = {}
      BY <3>1, <3>2, FS_EmptySet
    <3> QED BY <3>3
  <2> QED BY <1>2, <1>9, <1>14, <1>15, <1>17, <1>18, <1>20, <2>1, Completes
<1> QED BY <1>19, <1>20

\* The copy of a dirty line crosses the bus.
LEMMA CopyOnBus ==
  ASSUME CInv, OnBus("COHE_REPLY")
  PROVE  \E c \in CPUs, r \in Request :
           /\ r = bus.cur.t.req /\ c = bus.cur.who /\ Runs(c, COPY(r)) /\ AtTheBus(c, r)
           /\ mshr[r].valid /\ mshr[r].phase = "out" /\ mshr[r].c2c_copy /\ ~OnItsWay(r)
           /\ \A m \in Masters : ~Waits(m, COPY(r)) /\ ~Won(m, COPY(r))
           /\ \A d \in CPUs : ~InPipe(d, r) /\ ~SetAside(d, r) /\ (AtTheBus(d, r) => d = c)
<1>1. bus.cur \in Grants /\ bus.cur.t.type = "COHE_REPLY"
  BY DEF CInv, Types, OnBus
<1>2. PICK c \in Masters, r \in Request :
        bus.cur = [who |-> c, t |-> COPY(r)] /\ r = bus.cur.t.req /\ c = bus.cur.who
  <2>1. bus.cur = [who |-> bus.cur.who, t |-> bus.cur.t] /\ bus.cur.who \in Masters /\ bus.cur.t \in Items
    BY <1>1, Transactions
  <2>2. bus.cur.t = COPY(bus.cur.t.req) /\ bus.cur.t.req \in Request
    BY <1>1, <2>1, Transactions
  <2> QED BY <2>1, <2>2
<1>3. Runs(c, COPY(r)) /\ At(c, COPY(r))
  BY <1>2 DEF Runs, At
<1>4. CopyGoesOnce(r) /\ SentOnce(r)
  BY DEF CInv, RequestIsSound
<1>5. c \in CPUs /\ AtTheBus(c, r)
  BY <1>3, <1>4 DEF CopyGoesOnce
<1>6. mshr[r].valid /\ mshr[r].phase = "out" /\ mshr[r].c2c_copy /\ ~OnItsWay(r)
  BY <1>4, <1>5 DEF CopyGoesOnce, Holds
<1>7. \A d \in CPUs : Holds(d, r) => d = c
  BY <1>4, <1>5 DEF CopyGoesOnce, Holds
<1>8. \A d \in CPUs : ~InPipe(d, r) /\ ~SetAside(d, r) /\ (AtTheBus(d, r) => d = c)
  BY <1>4, <1>5, <1>7 DEF CopyGoesOnce, Holds
<1>9. ASSUME NEW m \in Masters PROVE ~Waits(m, COPY(r)) /\ ~Won(m, COPY(r))
  <2>1. At(m, COPY(r)) => m = c
    BY <1>4, <1>8 DEF CopyGoesOnce
  <2>2. ~Waits(c, COPY(r)) /\ ~Won(c, COPY(r))
    BY <1>2, <1>3, <1>4, Tokens DEF SentOnce
  <2> QED BY <2>1, <2>2 DEF At
<1> QED BY <1>2, <1>3, <1>5, <1>6, <1>8, <1>9

\* MMCSendReply returns the parts of the state it is given.
LEMMA SentState ==
  ASSUME NEW S \in SharedState, NEW r \in Request
  PROVE  DOMAIN MMCSendReply(S, r) = {"mshr", "sif", "replyq", "mmcq", "bus"}
<1>1. DOMAIN S = {"mshr", "sif", "replyq", "mmcq", "bus"}
  BY DEF SharedState
<1> DEFINE m  == S.mshr[r]
           R1 == [S EXCEPT !.mshr[r].type = m.cohe_type]
           R2 == [S EXCEPT !.mshr[r].c2c_copy = TRUE, !.mshr[r].type = m.cohe_type,
                           !.bus.req_count = @ - 1]
           R3 == [S EXCEPT !.mshr[r].type = m.cohe_type, !.mshr[r].phase = "mem",
                           !.mmcq = Append(@, r)]
<1>2. \A R : DOMAIN CacheGetReply(R, r) = DOMAIN R
  BY DEF CacheGetReply
<1>3. DOMAIN R1 = DOMAIN S /\ DOMAIN R2 = DOMAIN S /\ DOMAIN R3 = DOMAIN S
  OBVIOUS
<1>4. MMCSendReply(S, r) \in {R1, CacheGetReply(R2, r), CacheGetReply(R1, r), R3}
  BY DEF MMCSendReply
<1> HIDE DEF R1, R2, R3
<1>5. /\ DOMAIN CacheGetReply(R2, r) = DOMAIN R2
      /\ DOMAIN CacheGetReply(R1, r) = DOMAIN R1
  BY <1>2
<1> QED BY <1>1, <1>3, <1>4, <1>5

\* Some memory transaction may be marked as superseded by the copy.
Marked(T, q) == IF q = None THEN T ELSE [T EXCEPT !.mshr[q].memtrans = "c2c"]

\* The memory transaction of one request is marked.
LEMMA MarksOne ==
  ASSUME NEW T, NEW q \in Request \cup {None}, T.mshr \in [Request -> MSHR],
         DOMAIN T = {"mshr", "sif", "replyq", "mmcq", "bus"}
  PROVE  LET U == Marked(T, q)
         IN /\ U.sif = T.sif /\ U.replyq = T.replyq /\ U.mmcq = T.mmcq /\ U.bus = T.bus
            /\ U.mshr \in [Request -> MSHR]
            /\ \A r \in Request : r # q => U.mshr[r] = T.mshr[r]
            /\ \A r \in Request : r = q => /\ U.mshr[r].memtrans = "c2c"
                                           /\ U.mshr[r] = [T.mshr[r] EXCEPT !.memtrans = "c2c"]
<1>1. CASE q = None
  BY <1>1, Names DEF Marked
<1>2. CASE q # None
  <2>1. q \in Request /\ T.mshr[q] \in MSHR
    BY <1>2
  <2> DEFINE k == [T.mshr[q] EXCEPT !.memtrans = "c2c"]
             N == [T.mshr EXCEPT ![q] = k]
  <2>2. k \in MSHR /\ k.memtrans = "c2c"
    BY <2>1 DEF MSHR
  <2>3. Marked(T, q) = [T EXCEPT !.mshr = N]
    <3>1. [T EXCEPT !.mshr[q].memtrans = "c2c"] = [T EXCEPT !.mshr = [T.mshr EXCEPT ![q].memtrans = "c2c"]]
      OBVIOUS
    <3>2. [T.mshr EXCEPT ![q].memtrans = "c2c"] = N
      OBVIOUS
    <3> QED BY <1>2, <3>1, <3>2 DEF Marked
  <2>4. N \in [Request -> MSHR] /\ N[q] = k /\ \A r \in Request : r # q => N[r] = T.mshr[r]
    <3> HIDE DEF k
    <3> QED BY <2>1, <2>2
  <2> DEFINE U == [T EXCEPT !.mshr = N]
  <2> HIDE DEF N
  <2>5. U.mshr = N /\ U.sif = T.sif /\ U.replyq = T.replyq /\ U.mmcq = T.mmcq /\ U.bus = T.bus
    OBVIOUS
  <2>6. Marked(T, q) = U
    BY <2>3
  <2> HIDE DEF U, k
  <2>7. /\ U.sif = T.sif /\ U.replyq = T.replyq /\ U.mmcq = T.mmcq /\ U.bus = T.bus
        /\ U.mshr \in [Request -> MSHR]
        /\ \A r \in Request : r # q => U.mshr[r] = T.mshr[r]
        /\ \A r \in Request : r = q => U.mshr[r].memtrans = "c2c" /\ U.mshr[r] = k
    BY <2>2, <2>4, <2>5
  <2> QED BY <2>6, <2>7 DEF k
<1> QED BY <1>1, <1>2

WithCopy(c, r) == [Released EXCEPT !.mshr[r].data_done = TRUE, !.mshr[r].c2c_copy = TRUE,
                                   !.sif[c].cohe_reply = None]

\* The copy has arrived: its request is complete, or waits for its last report.
LEMMA CopyArrives ==
  ASSUME CInv, PerformCoheReply
  PROVE  CInv' /\ (Stutters \/ \E r \in Request : Abstract!Complete(r))
<1>1. Types /\ TagsAreExact /\ PipesAreOrderly
  BY DEF CInv
<1>2. PICK c \in CPUs, r \in Request :
        /\ r = bus.cur.t.req /\ c = bus.cur.who /\ Runs(c, COPY(r)) /\ AtTheBus(c, r)
        /\ mshr[r].valid /\ mshr[r].phase = "out" /\ mshr[r].c2c_copy /\ ~OnItsWay(r)
        /\ \A m \in Masters : ~Waits(m, COPY(r)) /\ ~Won(m, COPY(r))
        /\ \A d \in CPUs : ~InPipe(d, r) /\ ~SetAside(d, r) /\ (AtTheBus(d, r) => d = c)
  BY CopyOnBus DEF PerformCoheReply
<1>2a. RequestIsSound(r) /\ Stage(r) = IF Unanswered(r) THEN "ordered" ELSE "answered"
  BY <1>2 DEF CInv, Stage
<1> DEFINE k == [[mshr[r] EXCEPT !.data_done = TRUE] EXCEPT !.c2c_copy = TRUE]
           N == [mshr EXCEPT ![r] = k]
           i == [sif[c] EXCEPT !.cohe_reply = None]
           F == [sif EXCEPT ![c] = i]
           B == [bus EXCEPT !.cur = None]
           S == [mshr |-> N, sif |-> F, replyq |-> replyq, mmcq |-> mmcq, bus |-> B]
           last == mshr[r].cohe_count = 0
           T == IF last THEN MMCSendReply(S, r) ELSE S
<1>3. /\ UNCHANGED <<wbuf, reqq, tags, coheq, dpipe, dcp>>
      /\ \E q \in MemTransOf(r) : Becomes(Marked(T, q))
  <2>1. WithCopy(c, r) = S
    <3>1. Released = [mshr |-> mshr, sif |-> sif, replyq |-> replyq, mmcq |-> mmcq, bus |-> B]
      BY DEF Released, Shared
    <3>2. [Released EXCEPT !.mshr[r].data_done = TRUE, !.mshr[r].c2c_copy = TRUE,
                           !.sif[c].cohe_reply = None]
            = [[Released EXCEPT !.mshr = [[Released.mshr EXCEPT ![r].data_done = TRUE]
                                                        EXCEPT ![r].c2c_copy = TRUE]]
                        EXCEPT !.sif = [Released.sif EXCEPT ![c].cohe_reply = None]]
      BY <1>1, <3>1 DEF Types
    <3>3. [[mshr EXCEPT ![r].data_done = TRUE] EXCEPT ![r].c2c_copy = TRUE] = N
      BY <1>1 DEF Types
    <3>4. [sif EXCEPT ![c].cohe_reply = None] = F
      BY Zenon
    <3>5. Released.mshr = mshr /\ Released.sif = sif
      BY <3>1
    <3> HIDE DEF N, B, F
    <3>6. [Released EXCEPT !.mshr = N]
            = [mshr |-> N, sif |-> sif, replyq |-> replyq, mmcq |-> mmcq, bus |-> B]
      BY <3>1
    <3>7. [[mshr |-> N, sif |-> sif, replyq |-> replyq, mmcq |-> mmcq, bus |-> B] EXCEPT !.sif = F] = S
      OBVIOUS
    <3>8. WithCopy(c, r)
            = [[Released EXCEPT !.mshr = [[Released.mshr EXCEPT ![r].data_done = TRUE]
                                                        EXCEPT ![r].c2c_copy = TRUE]]
                        EXCEPT !.sif = [Released.sif EXCEPT ![c].cohe_reply = None]]
      BY <3>2, Zenon DEF WithCopy
    <3>9. WithCopy(c, r) = [[Released EXCEPT !.mshr = N] EXCEPT !.sif = F]
      BY <3>3, <3>4, <3>5, <3>8, Zenon
    <3> QED BY <3>6, <3>7, <3>9
  <2> HIDE DEF S
  <2>2. UNCHANGED <<wbuf, reqq, tags, coheq, dpipe, dcp>>
    BY DEF PerformCoheReply
  <2>3. LET d == bus.cur.who
            q == bus.cur.t.req
        IN \E p \in MemTransOf(q) :
             Becomes(Marked(IF mshr[q].cohe_count = 0 THEN MMCSendReply(WithCopy(d, q), q)
                            ELSE WithCopy(d, q), p))
    BY DEF PerformCoheReply, WithCopy, Marked
  <2> QED BY <1>2, <2>1, <2>2, <2>3
<1>4. k \in MSHR /\ Waiting(mshr[r], k)
  <2>1. mshr[r] \in MSHR
    BY <1>1 DEF Types
  <2> QED BY <1>2, <2>1 DEF MSHR, Waiting, Alike
<1> HIDE DEF k
<1>5. N \in [Request -> MSHR] /\ N[r] = k /\ \A q \in Request : q # r => N[q] = mshr[q]
  BY <1>1, <1>4 DEF Types
<1>6. /\ i \in Interface /\ i.slot = sif[c].slot /\ i.arbwaiters = sif[c].arbwaiters
      /\ i.pending_request = sif[c].pending_request /\ i.cohe_reply = None
  <2>1. sif[c] \in Interface
    BY <1>1 DEF Types
  <2> QED BY <2>1 DEF Interface
<1> HIDE DEF i
<1>7. F \in [CPUs -> Interface] /\ F[c] = i /\ \A d \in CPUs : d # c => F[d] = sif[d]
  BY <1>1, <1>6 DEF Types
<1>8. B \in BusRecord /\ B.winner = bus.winner /\ B.cur = None
  BY <1>1 DEF Types, BusRecord
<1> HIDE DEF N, B, F
<1>9. S \in SharedState /\ S.mshr = N /\ S.sif = F /\ S.replyq = replyq /\ S.mmcq = mmcq /\ S.bus = B
  BY <1>1, <1>5, <1>7, <1>8 DEF Types, SharedState
<1> HIDE DEF S
<1>10. /\ T.mshr \in [Request -> MSHR] /\ DOMAIN T = {"mshr", "sif", "replyq", "mmcq", "bus"}
       /\ T.bus \in BusRecord /\ T.bus.winner = bus.winner /\ T.bus.cur = None
       /\ Alike(k, T.mshr[r]) /\ \A q \in Request : q # r => Waiting(mshr[q], T.mshr[q])
       /\ last => T.mshr[r].type = mshr[r].cohe_type
       /\ ~last => T.mshr[r].type = mshr[r].type
       /\ \/ /\ T.mshr[r].phase = "out" /\ T.sif = F /\ T.replyq = replyq /\ T.mmcq = mmcq
             /\ T.mshr[r].c2c_copy
          \/ /\ T.mshr[r].phase = "done" /\ last
             /\ T.sif = [F EXCEPT ![r[1]] = Freed(F[r[1]], r[1], r)]
             /\ T.replyq = [replyq EXCEPT ![r[1]] = Append(@, NewReply(r))] /\ T.mmcq = mmcq
  <2>0. S.mshr[r].c2c_copy /\ S.mshr[r].phase = "out" /\ S.mshr[r].type = mshr[r].type
        /\ S.mshr[r].cohe_type = mshr[r].cohe_type
    BY <1>2, <1>4, <1>5, <1>9 DEF Waiting, Alike
  <2>1. CASE last
    <3> DEFINE V == MMCSendReply(S, r)
    <3>1. /\ OthersWait(S, r, V) /\ V.mshr[r].type = S.mshr[r].cohe_type
          /\ \/ Turns(S, r, V) \/ GoesToBus(S, r, V)
             \/ IsReceived(S, r, V) /\ (S.mshr[r].type = "UPGRADE" <=> ~S.mshr[r].c2c_copy)
      BY <1>9, SendsReply
    <3>2. DOMAIN V = {"mshr", "sif", "replyq", "mmcq", "bus"}
      BY <1>9, SentState
    <3>3. T = V
      BY <2>1
    <3> HIDE DEF V, T
    <3>4. Turns(S, r, V) \/ IsReceived(S, r, V)
      BY <2>0, <3>1 DEF GoesToBus
    <3>5. /\ V.mshr \in [Request -> MSHR] /\ Alike(k, V.mshr[r])
          /\ \A q \in Request : q # r => Waiting(mshr[q], V.mshr[q])
          /\ V.bus \in BusRecord /\ V.bus.winner = bus.winner /\ V.bus.cur = None
      BY <1>5, <1>8, <1>9, <3>1 DEF OthersWait
    <3>6. V.mshr[r].type = mshr[r].cohe_type
      BY <2>0, <3>1
    <3>7. CASE Turns(S, r, V)
      BY <1>9, <2>0, <2>1, <3>2, <3>3, <3>5, <3>6, <3>7 DEF Turns
    <3>8. CASE IsReceived(S, r, V)
      BY <1>9, <2>1, <3>2, <3>3, <3>5, <3>6, <3>8 DEF IsReceived
    <3> QED BY <3>4, <3>7, <3>8
  <2>2. CASE ~last
    <3>1. DOMAIN S = {"mshr", "sif", "replyq", "mmcq", "bus"}
      BY <1>9 DEF SharedState
    <3>2. Alike(k, k) /\ \A q \in Request : q # r => Waiting(mshr[q], N[q])
      BY <1>5 DEF Alike, Waiting
    <3>3. T = S
      BY <2>2
    <3> HIDE DEF T
    <3> QED BY <1>5, <1>8, <1>9, <2>0, <2>2, <3>1, <3>2, <3>3
  <2> QED BY <2>1, <2>2
<1> HIDE DEF T, last
<1>11. PICK q \in Request \cup {None} :
         /\ q \in MemTransOf(r)
         /\ mshr' = Marked(T, q).mshr /\ sif' = Marked(T, q).sif /\ replyq' = Marked(T, q).replyq
         /\ mmcq' = Marked(T, q).mmcq /\ bus' = Marked(T, q).bus
  <2>1. MemTransOf(r) \subseteq Request \cup {None}
    BY DEF MemTransOf
  <2> QED BY <1>3, <2>1 DEF Becomes
<1>12. /\ mshr' \in [Request -> MSHR] /\ sif' = T.sif /\ replyq' = T.replyq /\ mmcq' = T.mmcq
       /\ bus' = T.bus
       /\ \A p \in Request : p # q => mshr'[p] = T.mshr[p]
       /\ \A p \in Request : p = q => mshr'[p] = [T.mshr[p] EXCEPT !.memtrans = "c2c"]
  <2> DEFINE U == Marked(T, q)
  <2>1. /\ U.sif = T.sif /\ U.replyq = T.replyq /\ U.mmcq = T.mmcq /\ U.bus = T.bus
        /\ U.mshr \in [Request -> MSHR]
        /\ \A p \in Request : p # q => U.mshr[p] = T.mshr[p]
        /\ \A p \in Request : p = q => U.mshr[p] = [T.mshr[p] EXCEPT !.memtrans = "c2c"]
    BY <1>10, MarksOne
  <2> HIDE DEF U
  <2>2. mshr' = U.mshr /\ sif' = U.sif /\ replyq' = U.replyq /\ mmcq' = U.mmcq /\ bus' = U.bus
    BY <1>11 DEF U
  <2> QED BY <2>1, <2>2
<1>13. ASSUME NEW p \in Request
       PROVE  LET m == mshr'[p]
                  n == T.mshr[p]
              IN /\ m.valid = n.valid /\ m.misscache = n.misscache /\ m.way = n.way
                 /\ m.has_writes = n.has_writes /\ m.data_rtn = n.data_rtn
                 /\ m.cohe_count = n.cohe_count /\ m.cohe_type = n.cohe_type
                 /\ m.issued = n.issued /\ m.type = n.type /\ m.phase = n.phase
                 /\ m.c2c_copy = n.c2c_copy
                 /\ IF p = q THEN m.memtrans = "c2c" ELSE m.memtrans = n.memtrans
  <2>1. T.mshr[p] \in MSHR
    BY <1>10
  <2>2. CASE p # q
    BY <1>12, <2>2
  <2>3. CASE p = q
    <3> DEFINE n == T.mshr[p]
               m == [n EXCEPT !.memtrans = "c2c"]
    <3>1. mshr'[p] = m
      BY <1>12, <2>3
    <3>2. /\ m.valid = n.valid /\ m.misscache = n.misscache /\ m.way = n.way
          /\ m.has_writes = n.has_writes /\ m.data_rtn = n.data_rtn
          /\ m.cohe_count = n.cohe_count /\ m.cohe_type = n.cohe_type
          /\ m.issued = n.issued /\ m.type = n.type /\ m.phase = n.phase
          /\ m.c2c_copy = n.c2c_copy /\ m.memtrans = "c2c"
      BY <2>1 DEF MSHR
    <3> HIDE DEF m
    <3> QED BY <2>3, <3>1, <3>2
  <2> QED BY <2>2, <2>3
<1>14. ASSUME NEW p \in Request, p # r
       PROVE  SameMSHR(p)
  <2>1. p = q => mshr[p].memtrans = "reading"
    BY <1>11, <1>14, Names DEF MemTransOf
  <2>2. Waiting(mshr[p], T.mshr[p])
    BY <1>10, <1>14
  <2> QED BY <1>13, <2>1, <2>2 DEF Waiting, Alike, SameMSHR
<1>15. /\ mshr'[r].valid /\ mshr'[r].misscache = mshr[r].misscache /\ mshr'[r].way = mshr[r].way
       /\ mshr'[r].has_writes = mshr[r].has_writes /\ mshr'[r].cohe_count = mshr[r].cohe_count
       /\ mshr'[r].cohe_type = mshr[r].cohe_type /\ mshr'[r].issued = mshr[r].issued
       /\ last => mshr'[r].type = mshr[r].cohe_type
       /\ ~last => mshr'[r].type = mshr[r].type
       /\ mshr'[r].phase = "done" => last
       /\ mshr'[r].phase \in {"out", "done"}
       /\ mshr'[r].phase = "out" => mshr'[r].c2c_copy
  <2>1. Alike(mshr[r], T.mshr[r])
    BY <1>4, <1>10 DEF Waiting, Alike
  <2>2. /\ mshr'[r].valid = T.mshr[r].valid /\ mshr'[r].misscache = T.mshr[r].misscache
        /\ mshr'[r].way = T.mshr[r].way /\ mshr'[r].has_writes = T.mshr[r].has_writes
        /\ mshr'[r].cohe_count = T.mshr[r].cohe_count
        /\ mshr'[r].cohe_type = T.mshr[r].cohe_type /\ mshr'[r].issued = T.mshr[r].issued
        /\ mshr'[r].type = T.mshr[r].type /\ mshr'[r].phase = T.mshr[r].phase
        /\ mshr'[r].c2c_copy = T.mshr[r].c2c_copy
    BY <1>13
  <2>3. /\ last => T.mshr[r].type = mshr[r].cohe_type
        /\ ~last => T.mshr[r].type = mshr[r].type
        /\ \/ T.mshr[r].phase = "out" /\ T.mshr[r].c2c_copy
           \/ T.mshr[r].phase = "done" /\ last
    BY <1>10
  <2>4. /\ mshr'[r].misscache = mshr[r].misscache /\ mshr'[r].way = mshr[r].way
        /\ mshr'[r].has_writes = mshr[r].has_writes /\ mshr'[r].cohe_count = mshr[r].cohe_count
        /\ mshr'[r].cohe_type = mshr[r].cohe_type /\ mshr'[r].issued = mshr[r].issued
    BY <2>1, <2>2 DEF Alike
  <2>5. mshr'[r].valid
    BY <1>2, <2>1, <2>2, Zenon DEF Alike
  <2>6. /\ last => mshr'[r].type = mshr[r].cohe_type
        /\ ~last => mshr'[r].type = mshr[r].type
    BY <2>2, <2>3
  <2>7. \/ mshr'[r].phase = "out" /\ mshr'[r].c2c_copy
        \/ mshr'[r].phase = "done" /\ last
    BY <2>2, <2>3, Zenon
  <2> QED BY <2>4, <2>5, <2>6, <2>7
<1>16. mshr'[r].memtrans # "reading"
  <2>1. Alike(mshr[r], T.mshr[r])
    BY <1>4, <1>10 DEF Waiting, Alike
  <2>2. q # r => mshr[r].memtrans # "reading"
    BY <1>2a, <1>11, Names DEF MemTransOf, RequestIsSound, ReadIsOpen
  <2> QED BY <1>13, <2>1, <2>2 DEF Alike
<1>17. Outcome(r, F)
  <2>1. mshr'[r].phase = T.mshr[r].phase
    BY <1>13
  <2> QED BY <1>10, <1>12, <2>1 DEF Outcome, FreesFor, RepliesTake
<1>18. BusServes(r) /\ bus'.cur = None
  <2>1. bus.cur = [who |-> c, t |-> COPY(r)] /\ c \in Masters /\ COPY(r) \in TokensOf(r)
    BY <1>2, Tokens DEF Runs, Masters
  <2> QED BY <1>10, <1>12, <2>1 DEF BusServes
<1>19. Serves(r, F)
  <2>1. InterfacesLike(F)
    BY <1>6, <1>7 DEF InterfacesLike
  <2>2. \A m \in CPUs, p \in Request : p # r => (F[m].cohe_reply = p <=> sif[m].cohe_reply = p)
    BY <1>2, <1>6, <1>7, Names DEF AtTheBus
  <2>3. /\ tags' \in [CPUs -> [Ways -> TagEntry]] /\ TagsAreExact' /\ \A d \in CPUs : SameWays(d)
    BY <1>1, <1>3, SameTags DEF Types
  <2>4. /\ coheq' \in [CPUs -> Seq(Request)] /\ dpipe' \in [CPUs -> Seq(PipeItem)]
        /\ dcp' \in [CPUs -> Request \cup {None}] /\ PipesAreOrderly'
    BY <1>1, <1>3 DEF Types, PipesAreOrderly
  <2>5. \A p \in Request : /\ SameSnoops(p) /\ (Leaving(p)' <=> Leaving(p))
                           /\ \A d \in CPUs : (InPipe(d, p)' <=> InPipe(d, p)) /\ (SetAside(d, p)' <=> SetAside(d, p))
    BY <1>3 DEF SameSnoops, Snoops, Leaving, InPipe, SetAside
  <2>6. ~InReplyq(r)
    BY <1>2, OutIsFree
  <2>7. /\ \/ sif' = F /\ replyq' = replyq
           \/ FreesFor(r, F) /\ RepliesTake(r) /\ ~InReplyq(r)
        /\ mmcq' = mmcq
    BY <1>15, <1>17, <2>6 DEF Outcome
  <2> QED BY <1>3, <1>12, <1>14, <1>18, <2>1, <2>2, <2>3, <2>4, <2>5, <2>7 DEF Serves
<1>20. IsOut(r) /\ Advances(r)
  <2>1. mshr[r].type = mshr[r].cohe_type \/ Unanswered(r)
    BY <1>2, <1>2a DEF RequestIsSound, WritesAreExclusive
  <2> QED BY <1>2, <1>15, <2>1 DEF IsOut, Advances
<1>21. /\ ~OnItsWay(r)' /\ \A m \in CPUs : sif'[m].cohe_reply = F[m].cohe_reply
       /\ \A m \in Masters : /\ Runs(m, COPY(r))' => bus'.cur = bus.cur
                             /\ Waits(m, COPY(r))' => Waits(m, COPY(r))
                             /\ Won(m, COPY(r))' => Won(m, COPY(r))
  BY <1>17, <1>19, <1>20, ServedFacts
<1>22. CopyGoesOnce(r)'
  <2>1. \A d \in CPUs : ~AtTheBus(d, r)'
    BY <1>2, <1>6, <1>7, <1>21, Names DEF AtTheBus
  <2>2. \A d \in CPUs : ~Holds(d, r)'
    BY <1>2, <1>3, <2>1 DEF Holds, InPipe, SetAside
  <2>3. bus.cur # None
    BY <1>2 DEF PerformCoheReply, OnBus
  <2>4. \A m \in Masters : ~At(m, COPY(r))'
    BY <1>2, <1>18, <1>21, <2>3 DEF At
  <2> QED BY <2>2, <2>4, NoCopies
<1>23. Unanswered(r)' <=> Unanswered(r) /\ ~last
  <2>1. mshr'[r].cohe_type \in ReplyType
    BY <1>12 DEF MSHR
  <2> QED BY <1>15, <2>1 DEF Unanswered, ReplyType
<1>24. mshr'[r].phase = "done" => ToInstall(r)'
  BY <1>17, <1>19, <1>20, ServedFacts
<1>25. Stage(r)' = IF Unanswered(r)' THEN "ordered" ELSE "answered"
  BY <1>15, <1>21, <1>24 DEF Stage
<1>26. CountIsExact(r)' /\ IssuedIsSeen(r)' /\ ReadIsOpen(r)'
  <2>1. \A d \in CPUs : Snoops(d, r)' <=> Snoops(d, r)
    BY <1>3 DEF Snoops
  <2>2. {d \in CPUs : Snoops(d, r)'} = {d \in CPUs : Snoops(d, r)}
    BY <2>1
  <2>3. CountIsExact(r) /\ IssuedIsSeen(r)
    BY <1>2a DEF RequestIsSound
  <2>4. CountIsExact(r)'
    BY <1>2a, <1>15, <1>23, <1>25, <2>2, <2>3 DEF CountIsExact
  <2>5. IssuedIsSeen(r)'
    BY <1>2a, <1>15, <2>1, <2>3, Names DEF IssuedIsSeen
  <2> QED BY <1>16, <2>4, <2>5 DEF ReadIsOpen
<1>27. CInv' /\ RequestOf' = [RequestOf EXCEPT ![r] = RequestOf'[r]]
  BY <1>17, <1>19, <1>20, <1>22, <1>26, ServedIsSound
<1>28. LineOf' = LineOf /\ coheq' = coheq
  BY <1>3, SameTags
<1>29. CASE Stage(r)' = Stage(r)
  <2>1. Stage(r) = "ordered" => ~last
    BY <1>2a, <1>23, <1>25, <1>29
  <2>2. Stage(r) = "ordered" => mshr'[r].c2c_copy /\ mshr'[r].type = mshr[r].type
    BY <1>15, <2>1
  <2>3. RequestOf'[r] = RequestOf[r]
    BY <1>2, <1>15, <1>29, <2>2, ViewStays
  <2> QED BY <1>27, <1>28, <2>3, SameAfterAll DEF Stutters
<1>30. CASE Stage(r)' # Stage(r)
  <2>1. Stage(r) = "ordered" /\ Stage(r)' = "answered" /\ mshr[r].cohe_count = 0
    BY <1>2a, <1>23, <1>25, <1>30 DEF last
  <2>2. \A d \in CPUs : ~Snoops(d, r)
    <3>1. Cardinality({d \in CPUs : Snoops(d, r)}) = 0
      BY <1>2a, <2>1 DEF RequestIsSound, CountIsExact
    <3>2. IsFiniteSet({d \in CPUs : Snoops(d, r)})
      BY Names, FS_Subset
    <3>3. {d \in CPUs : Snoops(d, r)} = {}
      BY <3>1, <3>2, FS_EmptySet
    <3> QED BY <3>3
  <2>3. Abstract!Complete(r)
    BY <1>15, <1>27, <1>28, <2>1, <2>2, Completes
  <2> QED BY <1>27, <2>3
<1> QED BY <1>29, <1>30

-----------------------------------------------------------------------------
(* A cache answers a snoop *)

\* The report that completes the request.
Ends(m) == m.cohe_count = 1 /\ ((m.data_rtn /\ ~m.c2c_copy) \/ m.type = "UPGRADE")
\* What the report makes of the request's MSHR.
Reported(m, n, v) ==
  /\ n.valid = m.valid /\ n.misscache = m.misscache /\ n.way = m.way
  /\ n.has_writes = m.has_writes /\ n.memtrans = m.memtrans /\ n.data_rtn = m.data_rtn
  /\ n.issued = m.issued
  /\ n.cohe_count = m.cohe_count - 1 /\ n.cohe_type = Stronger(m.cohe_type, v)
  /\ n.type = IF Ends(m) THEN n.cohe_type ELSE m.type
  /\ n.phase \in {"out", "mem", "done"}
  /\ n.phase = "out" => n.c2c_copy = m.c2c_copy /\ (Ends(m) => m.c2c_copy)
  /\ n.phase # "out" => Ends(m) /\ ~m.c2c_copy

\* MMC_recv_cohe_response: the report counts, and the last one may complete the
\* request.
LEMMA ReportSettles ==
  ASSUME NEW S \in SharedState, NEW r \in Request, NEW v \in ReplyType,
         S.sif = sif, S.replyq = replyq, S.mmcq = mmcq, S.mshr[r].phase = "out",
         Becomes(MMCRecvCoheResponse(S, r, v))
  PROVE  /\ Outcome(r, sif) /\ mshr' \in [Request -> MSHR]
         /\ \A q \in Request : q # r => Waiting(S.mshr[q], mshr'[q])
         /\ bus' \in BusRecord /\ bus'.winner = S.bus.winner /\ bus'.cur = S.bus.cur
         /\ Reported(S.mshr[r], mshr'[r], v)
<1> DEFINE j == S.mshr[r].cohe_count - 1
           m == [[S.mshr[r] EXCEPT !.cohe_count = j]
                               EXCEPT !.cohe_type = Stronger(S.mshr[r].cohe_type, v)]
           N == [S.mshr EXCEPT ![r] = m]
           T == [mshr |-> N, sif |-> sif, replyq |-> replyq, mmcq |-> mmcq, bus |-> S.bus]
           V == MMCSendReply(T, r)
           last == LastReportCompletes(m)
<1>1. /\ S = [mshr |-> S.mshr, sif |-> sif, replyq |-> replyq, mmcq |-> mmcq, bus |-> S.bus]
      /\ S.mshr \in [Request -> MSHR] /\ S.mshr[r] \in MSHR /\ S.bus \in BusRecord
      /\ sif \in [CPUs -> Interface] /\ replyq \in [CPUs -> Seq(ReplyItem)] /\ mmcq \in Seq(Request)
  BY DEF SharedState
<1>2. j \in Int /\ (j = 0 <=> S.mshr[r].cohe_count = 1)
  BY <1>1 DEF MSHR
<1>3. MMCRecvCoheResponse(S, r, v) = IF last THEN V ELSE T
  <2>1. [S.mshr[r] EXCEPT !.cohe_count = @ - 1, !.cohe_type = Stronger(@, v)] = m
    BY <1>1 DEF MSHR
  <2> HIDE DEF m
  <2>2. [S EXCEPT !.mshr[r] = m] = [S EXCEPT !.mshr = N]
    OBVIOUS
  <2> HIDE DEF N
  <2>3. [S EXCEPT !.mshr = N] = T
    BY <1>1, SMTT(30)
  <2> QED BY <2>1, <2>2, <2>3 DEF MMCRecvCoheResponse
<1> HIDE DEF j
<1>4. Stronger(S.mshr[r].cohe_type, v) \in ReplyType
  BY DEF Stronger, ReplyType
<1>5. /\ m \in MSHR /\ m.cohe_count = j /\ m.cohe_type = Stronger(S.mshr[r].cohe_type, v)
      /\ m.valid = S.mshr[r].valid /\ m.misscache = S.mshr[r].misscache /\ m.way = S.mshr[r].way
      /\ m.has_writes = S.mshr[r].has_writes /\ m.memtrans = S.mshr[r].memtrans
      /\ m.data_rtn = S.mshr[r].data_rtn /\ m.issued = S.mshr[r].issued
      /\ m.type = S.mshr[r].type /\ m.phase = S.mshr[r].phase /\ m.c2c_copy = S.mshr[r].c2c_copy
  <2> DEFINE a == S.mshr[r]
             x == Stronger(S.mshr[r].cohe_type, v)
             b == [a EXCEPT !.cohe_count = j]
  <2>1. a \in MSHR /\ x \in ReplyType /\ j \in Int
    BY <1>1, <1>2, <1>4
  <2>2. m = [b EXCEPT !.cohe_type = x]
    OBVIOUS
  <2> HIDE DEF x, m, a
  <2>3. /\ b \in MSHR /\ b.cohe_count = j
        /\ b.valid = a.valid /\ b.misscache = a.misscache /\ b.way = a.way
        /\ b.has_writes = a.has_writes /\ b.memtrans = a.memtrans
        /\ b.data_rtn = a.data_rtn /\ b.issued = a.issued
        /\ b.type = a.type /\ b.phase = a.phase /\ b.c2c_copy = a.c2c_copy
    BY <2>1 DEF MSHR
  <2> HIDE DEF b
  <2>4. /\ m \in MSHR /\ m.cohe_count = b.cohe_count /\ m.cohe_type = x
        /\ m.valid = b.valid /\ m.misscache = b.misscache /\ m.way = b.way
        /\ m.has_writes = b.has_writes /\ m.memtrans = b.memtrans
        /\ m.data_rtn = b.data_rtn /\ m.issued = b.issued
        /\ m.type = b.type /\ m.phase = b.phase /\ m.c2c_copy = b.c2c_copy
    BY <2>1, <2>2, <2>3 DEF MSHR
  <2> QED BY <2>3, <2>4 DEF a, x
<1>6. last <=> Ends(S.mshr[r])
  BY <1>2, <1>5 DEF LastReportCompletes, Ends
<1> HIDE DEF m, last
<1>7. N \in [Request -> MSHR] /\ N[r] = m /\ \A q \in Request : q # r => N[q] = S.mshr[q]
  BY <1>1, <1>5
<1> HIDE DEF N
<1>8. T \in SharedState /\ T.mshr = N /\ T.sif = sif /\ T.replyq = replyq /\ T.mmcq = mmcq /\ T.bus = S.bus
  BY <1>1, <1>7 DEF SharedState
<1> HIDE DEF T
<1>9. CASE last
  <2>1. mshr' = V.mshr /\ sif' = V.sif /\ replyq' = V.replyq /\ mmcq' = V.mmcq /\ bus' = V.bus
    BY <1>3, <1>9 DEF Becomes
  <2>2. /\ Outcome(r, T.sif) /\ V.mshr \in [Request -> MSHR] /\ Alike(T.mshr[r], V.mshr[r])
        /\ \A q \in Request : q # r => Waiting(T.mshr[q], V.mshr[q])
        /\ V.mshr[r].type = T.mshr[r].cohe_type
        /\ V.bus \in BusRecord /\ V.bus.winner = T.bus.winner /\ V.bus.cur = T.bus.cur
        /\ V.mshr[r].phase = "mem" => T.mshr[r].type # "UPGRADE" /\ ~T.mshr[r].c2c_copy
        /\ V.mshr[r].phase = "done" => (T.mshr[r].type = "UPGRADE" <=> ~T.mshr[r].c2c_copy)
        /\ V.mshr[r].phase = "out" => /\ T.mshr[r].type = "UPGRADE"
                                      /\ T.mshr[r].c2c_copy /\ V.mshr[r].c2c_copy
    BY <1>5, <1>7, <1>8, <2>1, SendSettles
  <2> HIDE DEF V
  <2>3. V.mshr[r].phase \in {"out", "mem", "done"}
    BY <2>1, <2>2 DEF Outcome
  <2>4. Ends(S.mshr[r])
    BY <1>6, <1>9
  <2>5. V.mshr[r].phase = "done" => ~S.mshr[r].c2c_copy
    BY <1>5, <1>7, <1>8, <2>2, <2>4 DEF Ends
  <2>6. Reported(S.mshr[r], V.mshr[r], v)
    <3>1. V.mshr[r].cohe_count = S.mshr[r].cohe_count - 1
      BY <1>5, <1>7, <1>8, <2>2 DEF Alike, j
    <3>2. /\ V.mshr[r].valid = m.valid /\ V.mshr[r].misscache = m.misscache
          /\ V.mshr[r].way = m.way /\ V.mshr[r].has_writes = m.has_writes
          /\ V.mshr[r].memtrans = m.memtrans /\ V.mshr[r].data_rtn = m.data_rtn
          /\ V.mshr[r].cohe_type = m.cohe_type /\ V.mshr[r].issued = m.issued
          /\ V.mshr[r].type = m.cohe_type
      BY <1>7, <1>8, <2>2 DEF Alike
    <3>3. /\ V.mshr[r].phase = "out" => V.mshr[r].c2c_copy /\ m.c2c_copy
          /\ V.mshr[r].phase = "mem" => ~m.c2c_copy
      BY <1>7, <1>8, <2>2
    <3>4. /\ V.mshr[r].phase = "out" => V.mshr[r].c2c_copy = S.mshr[r].c2c_copy /\ S.mshr[r].c2c_copy
          /\ V.mshr[r].phase # "out" => ~S.mshr[r].c2c_copy
      <4>1. m.c2c_copy \in BOOLEAN /\ V.mshr[r].c2c_copy \in BOOLEAN
        BY <1>5, <2>2 DEF MSHR
      <4> QED BY <1>5, <2>3, <2>5, <3>3, <4>1
    <3> QED BY <1>5, <2>3, <2>4, <3>1, <3>2, <3>4 DEF Reported
  <2> QED BY <1>7, <1>8, <2>1, <2>2, <2>6
<1>10. CASE ~last
  <2>1. mshr' = N /\ sif' = sif /\ replyq' = replyq /\ mmcq' = mmcq /\ bus' = S.bus
    BY <1>3, <1>8, <1>10 DEF Becomes
  <2>2. ~Ends(S.mshr[r])
    BY <1>6, <1>10
  <2>3. Outcome(r, sif)
    BY <1>5, <1>7, <2>1 DEF Outcome
  <2>4. \A q \in Request : q # r => Waiting(S.mshr[q], N[q])
    BY <1>7 DEF Waiting, Alike
  <2>5. Reported(S.mshr[r], m, v)
    <3>1. m.cohe_count = S.mshr[r].cohe_count - 1
      BY <1>5 DEF j
    <3> QED BY <1>5, <2>2, <3>1 DEF Reported
  <2> QED BY <1>1, <1>7, <2>1, <2>3, <2>4, <2>5
<1> QED BY <1>9, <1>10

\* The request at the head of a snoop queue waits for this cache's report.
Popped(c, r) == /\ coheq[c] # <<>> /\ r = Head(coheq[c])
                /\ coheq' = [coheq EXCEPT ![c] = Tail(@)]

\* The head of a snoop queue is a request that waits for answers.
LEMMA SnoopedIsOut ==
  ASSUME CInv, Abstract!IInv, NEW c \in CPUs, coheq[c] # <<>>
  PROVE  LET r == Head(coheq[c])
         IN /\ r \in Request /\ Snoops(c, r) /\ Stage(r) = "ordered" /\ IsOut(r) /\ Unanswered(r)
            /\ Abstract!Distinct(coheq[c])
<1> DEFINE r == Head(coheq[c])
<1>1. coheq[c] \in Seq(Request)
  BY DEF CInv, Types
<1>2. r \in Request /\ Among(r, coheq[c])
  BY <1>1, TailFacts DEF Among
<1>3. Abstract!Distinct(coheq[c]) /\ (Abstract!In(r, coheq[c]) => RequestOf[r].stage = "ordered")
  BY <1>2 DEF Abstract!IInv, Abstract!Queued, Abstract!Request, Request
<1> HIDE DEF r
<1>4. Abstract!In(r, coheq[c])
  BY <1>2 DEF Among, Abstract!In
<1>5. Stage(r) = "ordered"
  BY <1>2, <1>3, <1>4 DEF RequestOf
<1>6. mshr[r].valid /\ mshr[r].phase # "arb" /\ ~OnItsWay(r) /\ Unanswered(r)
  BY <1>5 DEF Stage
<1>7. mshr[r].phase = "out"
  <2>1. WritesAreExclusive(r) /\ mshr[r].phase \in Phase
    BY <1>2 DEF CInv, RequestIsSound, Types, MSHR
  <2> QED BY <1>6, <2>1 DEF WritesAreExclusive, Phase
<1> QED BY <1>2, <1>3, <1>5, <1>6, <1>7 DEF r, Snoops, IsOut

\* A snoop queue loses its head.
LEMMA QueuePops ==
  ASSUME CInv, Abstract!IInv, NEW c \in CPUs, NEW r \in Request, Popped(c, r)
  PROVE  /\ coheq' \in [CPUs -> Seq(Request)]
         /\ \A d \in CPUs, q \in Request : Snoops(d, q)' <=> Snoops(d, q) /\ (d = c => q # r)
         /\ Cardinality({d \in CPUs : Snoops(d, r)'}) = Cardinality({d \in CPUs : Snoops(d, r)}) - 1
         /\ mshr[r].cohe_count = 1 => \A d \in CPUs : ~Snoops(d, r)'
<1>1. /\ coheq[c] \in Seq(Request) /\ coheq[c] # <<>> /\ r = Head(coheq[c]) /\ Abstract!Distinct(coheq[c])
      /\ Snoops(c, r) /\ Stage(r) = "ordered" /\ coheq \in [CPUs -> Seq(Request)]
  BY SnoopedIsOut DEF Popped, CInv, Types
<1>2. coheq'[c] = Tail(coheq[c]) /\ \A d \in CPUs : d # c => coheq'[d] = coheq[d]
  BY <1>1 DEF Popped
<1>3. coheq' \in [CPUs -> Seq(Request)]
  BY <1>1, TailFacts DEF Popped
<1>4. ASSUME NEW q \in Request
      PROVE  Among(q, Tail(coheq[c])) <=> Among(q, coheq[c]) /\ q # r
  <2> DEFINE p == coheq[c]
  <2>1. p \in Seq(Request) /\ p # <<>> /\ r = Head(p) /\ \A j, k \in 1 .. Len(p) : p[j] = p[k] => j = k
    BY <1>1 DEF Abstract!Distinct
  <2> HIDE DEF p
  <2>2. Head(p) = p[1] /\ 1 \in 1 .. Len(p)
    BY <2>1, TailFacts
  <2>3. \A n \in 1 .. Len(p) : p[n] = Head(p) => n = 1
    BY <2>1, <2>2
  <2>4. /\ Among(q, Tail(p)) => Among(q, p)
        /\ Among(q, p) /\ q # Head(p) => Among(q, Tail(p))
        /\ ~Among(Head(p), Tail(p))
    BY <2>1, <2>3, AmongTail
  <2> QED BY <2>1, <2>4 DEF p
<1>5. \A d \in CPUs, q \in Request : Snoops(d, q)' <=> Snoops(d, q) /\ (d = c => q # r)
  BY <1>2, <1>4 DEF Snoops
<1> DEFINE D == {d \in CPUs : Snoops(d, r)}
           E == {d \in CPUs : Snoops(d, r)'}
<1>6. E = D \ {c} /\ c \in D /\ IsFiniteSet(D)
  <2>1. IsFiniteSet(D)
    BY Names, FS_Subset
  <2> QED BY <1>1, <1>5, <2>1
<1> HIDE DEF D, E
<1>7. Cardinality(E) = Cardinality(D) - 1 /\ IsFiniteSet(E) /\ Cardinality(D) \in Nat
  BY <1>6, FS_RemoveElement, FS_CardinalityType
<1>8. mshr[r].cohe_count = Cardinality(D)
  BY <1>1 DEF CInv, RequestIsSound, CountIsExact, D
<1>9. mshr[r].cohe_count = 1 => E = {}
  <2>1. mshr[r].cohe_count = 1 => Cardinality(E) = 0
    BY <1>7, <1>8
  <2> QED BY <1>7, <2>1, FS_EmptySet
<1> QED BY <1>3, <1>5, <1>7, <1>9 DEF D, E

\* Cache c takes request r from its queue and reports v to the MMC, which finds
\* the MSHR of the request as m.
Answers(c, r, m, v) ==
  /\ Popped(c, r)
  /\ m \in MSHR /\ v \in ReplyType /\ (v = "REPLY_SH" => mshr[r].type = "READ_SH")
  /\ m.valid = mshr[r].valid /\ m.misscache = mshr[r].misscache /\ m.way = mshr[r].way
  /\ m.has_writes = mshr[r].has_writes /\ m.memtrans = mshr[r].memtrans
  /\ m.data_rtn = mshr[r].data_rtn /\ m.cohe_count = mshr[r].cohe_count
  /\ m.cohe_type = mshr[r].cohe_type /\ m.type = mshr[r].type
  /\ m.issued \/ (c # r[1] /\ m.issued = mshr[r].issued)
  /\ Outcome(r, sif) /\ mshr' \in [Request -> MSHR] /\ Reported(m, mshr'[r], v)
  /\ \A q \in Request : q # r => SameMSHR(q)
  /\ bus' \in BusRecord /\ bus'.winner = bus.winner /\ bus'.cur = bus.cur
  /\ UNCHANGED <<wbuf, reqq>>
  /\ tags' \in [CPUs -> [Ways -> TagEntry]] /\ TagsAreExact' /\ \A d \in CPUs : SameWays(d)
  /\ dpipe' \in [CPUs -> Seq(PipeItem)] /\ dcp' \in [CPUs -> Request \cup {None}]
  /\ PipesAreOrderly'
  /\ \A q \in Request : Leaving(q)' <=> Leaving(q)
  /\ \A q \in Request, d \in CPUs :
       q # r => (InPipe(d, q)' <=> InPipe(d, q)) /\ (SetAside(d, q)' => SetAside(d, q))
\* The data are nowhere on their way to r because of this answer...
NoCopyStarts(r, m) ==
  /\ m.c2c_copy = mshr[r].c2c_copy
  /\ \A d \in CPUs : (InPipe(d, r)' => InPipe(d, r)) /\ (SetAside(d, r)' => SetAside(d, r))
\* ... or they leave in one way, for the first time.
CopyLeaves(c, r, m) ==
  /\ m.c2c_copy /\ ~mshr[r].c2c_copy
  /\ \A d \in CPUs : InPipe(d, r)' \/ SetAside(d, r)' => d = c
  /\ ~(InPipe(c, r)' /\ SetAside(c, r)')

Ordered(e, s, d) == [stage |-> "ordered", exclusive |-> e, shared |-> s, copied |-> d]

\* The parts of the view, and an answer as the snooping cache gives it.
Reads(t, p, x, e, s, d) == e = (t # "READ_SH") /\ s = (p = "REPLY_SH") /\ d = x
AnswersAs(r, m, e, s, d) ==
  /\ Reads(mshr[r].type, mshr'[r].cohe_type, m.c2c_copy, e, s, d)
  /\ \E k \in Abstract!AfterAnswer(Ordered(e, s, d), r) : RequestOf' = [RequestOf EXCEPT ![r] = k]

\* An answer is a completion, or on the way to one.
LEMMA AnswerIsServed ==
  ASSUME CInv, Abstract!IInv, NEW c \in CPUs, NEW r \in Request, NEW m, NEW v, Answers(c, r, m, v)
  PROVE  Serves(r, sif) /\ Outcome(r, sif) /\ IsOut(r) /\ Advances(r) /\ Stage(r) = "ordered"
<1>1. IsOut(r) /\ Unanswered(r) /\ Stage(r) = "ordered"
  BY SnoopedIsOut DEF Answers, Popped
<1>2. InterfacesLike(sif)
  BY DEF InterfacesLike, CInv, Types
<1>3. ~InReplyq(r) /\ ~Among(r, mmcq)
  BY <1>1, OutIsFree DEF IsOut
<1>4. /\ \/ sif' = sif /\ replyq' = replyq
         \/ FreesFor(r, sif) /\ RepliesTake(r) /\ ~InReplyq(r)
      /\ mmcq' = mmcq \/ (mmcq' = Append(mmcq, r) /\ ~Among(r, mmcq))
  BY <1>3 DEF Outcome, Answers
<1>5. /\ coheq' \in [CPUs -> Seq(Request)] /\ \A q \in Request : q # r => SameSnoops(q)
  <2>1. /\ coheq' \in [CPUs -> Seq(Request)]
        /\ \A d \in CPUs, q \in Request : Snoops(d, q)' <=> Snoops(d, q) /\ (d = c => q # r)
    BY QueuePops DEF Answers
  <2> QED BY <2>1 DEF SameSnoops
<1>6. Serves(r, sif)
  BY <1>2, <1>4, <1>5 DEF Serves, Answers, BusServes
<1>7. Advances(r)
  <2>1. /\ mshr'[r].cohe_type = mshr[r].cohe_type \/ mshr[r].type = "READ_SH"
    <3>1. v = "REPLY_EXCL" => Stronger(m.cohe_type, v) = m.cohe_type
      BY DEF Stronger, Answers, MSHR, ReplyType
    <3> QED BY <3>1 DEF Answers, Reported, ReplyType
  <2> QED BY <1>1, <2>1 DEF Advances, IsOut, Answers, Reported
<1> QED BY <1>1, <1>6, <1>7 DEF Answers

\* After an answer the invariant holds, and the request is answered or one answer
\* nearer to it.
LEMMA AnswerSettles ==
  ASSUME CInv, Abstract!IInv, NEW c \in CPUs, NEW r \in Request, NEW m, NEW v,
         Answers(c, r, m, v), NoCopyStarts(r, m) \/ CopyLeaves(c, r, m)
  PROVE  /\ CInv'
         /\ \E e, s, d \in BOOLEAN : AnswersAs(r, m, e, s, d)
<1> DEFINE n == mshr'[r]
<1>1. Serves(r, sif) /\ Outcome(r, sif) /\ IsOut(r) /\ Advances(r) /\ Stage(r) = "ordered" /\ Unanswered(r)
  BY AnswerIsServed, SnoopedIsOut DEF Answers, Popped
<1>2. /\ Reported(m, n, v) /\ m \in MSHR /\ n \in MSHR /\ m.type = mshr[r].type
      /\ m.cohe_count = mshr[r].cohe_count /\ m.memtrans = mshr[r].memtrans
      /\ m.data_rtn = mshr[r].data_rtn
      /\ m.issued \/ (c # r[1] /\ m.issued = mshr[r].issued)
  BY DEF Answers
<1>3. /\ ~OnItsWay(r)' /\ \A x \in CPUs : sif'[x].cohe_reply = sif[x].cohe_reply
      /\ \A x \in Masters : At(x, COPY(r))' => At(x, COPY(r))
  BY <1>1, ServedFacts
<1>4. /\ \A d \in CPUs, q \in Request : Snoops(d, q)' <=> Snoops(d, q) /\ (d = c => q # r)
      /\ Cardinality({d \in CPUs : Snoops(d, r)'}) = Cardinality({d \in CPUs : Snoops(d, r)}) - 1
      /\ mshr[r].cohe_count = 1 => \A d \in CPUs : ~Snoops(d, r)'
  BY QueuePops DEF Answers
<1>5. RequestIsSound(r)
  BY DEF CInv
<1>6. (Unanswered(r)' <=> ~Ends(m)) /\ Stage(r)' = IF Ends(m) THEN "answered" ELSE "ordered"
  <2>1. Unanswered(r)' <=> ~Ends(m)
    BY <1>1, <1>2 DEF Unanswered, Reported, MSHR, ReplyType
  <2>2. mshr'[r].phase = "done" => ToInstall(r)'
    BY <1>1, ServedFacts
  <2> QED BY <1>1, <1>2, <1>3, <2>1, <2>2 DEF Stage, Advances, Reported
<1>7. CopyGoesOnce(r)'
  <2>1. \A x \in CPUs : AtTheBus(x, r)' <=> AtTheBus(x, r)
    BY <1>3 DEF AtTheBus
  <2>2. CopyGoesOnce(r)
    BY <1>5 DEF RequestIsSound
  <2>3. mshr'[r].valid /\ mshr'[r].phase = "out" => mshr'[r].c2c_copy = m.c2c_copy
    BY <1>2 DEF Reported
  <2>4. CASE NoCopyStarts(r, m) /\ n.phase = "out"
    <3>1. /\ \A x \in CPUs : /\ InPipe(x, r)' => InPipe(x, r)
                             /\ SetAside(x, r)' => SetAside(x, r)
          /\ \A x \in CPUs : Holds(x, r)' => Holds(x, r)
      BY <2>1, <2>4 DEF NoCopyStarts, Holds
    <3>2. mshr'[r].valid /\ (mshr[r].c2c_copy => mshr'[r].c2c_copy)
      BY <1>1, <2>3, <2>4 DEF NoCopyStarts, Advances
    <3> QED BY <1>3, <2>1, <2>2, <2>4, <3>1, <3>2, KeptCopies
  <2>5. CASE NoCopyStarts(r, m) /\ n.phase # "out"
    <3>1. ~mshr[r].c2c_copy
      BY <1>2, <2>5 DEF NoCopyStarts, Reported
    <3>2. \A x \in CPUs : ~Holds(x, r)
      BY <2>2, <3>1 DEF CopyGoesOnce
    <3>3. \A x \in CPUs : ~Holds(x, r)'
      BY <2>1, <2>5, <3>2 DEF Holds, NoCopyStarts
    <3>4. \A x \in Masters : ~At(x, COPY(r))'
      BY <1>3, <2>2, <3>2 DEF CopyGoesOnce, Holds
    <3> QED BY <3>3, <3>4, NoCopies
  <2>6. CASE CopyLeaves(c, r, m)
    <3>1. \A x \in CPUs : ~Holds(x, r)
      BY <2>2, <2>6 DEF CopyGoesOnce, CopyLeaves
    <3>2. /\ \A x \in CPUs : ~AtTheBus(x, r)' /\ (Holds(x, r)' => x = c)
          /\ ~(InPipe(c, r)' /\ SetAside(c, r)')
      BY <2>1, <2>6, <3>1 DEF Holds, CopyLeaves
    <3>3. \A x \in Masters : ~At(x, COPY(r))'
      BY <1>3, <2>2, <3>1 DEF CopyGoesOnce, Holds
    <3>4. mshr'[r].valid /\ mshr'[r].phase = "out" /\ mshr'[r].c2c_copy
      BY <1>1, <1>2, <2>3, <2>6 DEF CopyLeaves, Advances, Reported
    <3> QED BY <1>3, <3>2, <3>3, <3>4 DEF CopyGoesOnce, Holds
  <2> QED BY <2>4, <2>5, <2>6
<1>8. CountIsExact(r)' /\ IssuedIsSeen(r)' /\ ReadIsOpen(r)'
  <2>1. mshr[r].cohe_count = Cardinality({d \in CPUs : Snoops(d, r)})
    BY <1>1, <1>5 DEF RequestIsSound, CountIsExact
  <2>2. mshr'[r].cohe_count = Cardinality({d \in CPUs : Snoops(d, r)'})
    BY <1>2, <1>4, <2>1 DEF Reported
  <2>3. IssuedIsSeen(r)'
    <3>1. mshr'[r].issued = m.issued
      BY <1>2 DEF Reported
    <3>2. ~m.issued => c # r[1] /\ Snoops(r[1], r)
      BY <1>1, <1>2, <1>5 DEF RequestIsSound, IssuedIsSeen
    <3> QED BY <1>4, <3>1, <3>2, Names DEF IssuedIsSeen
  <2>4. ReadIsOpen(r)'
    <3>1. mshr'[r].memtrans = mshr[r].memtrans /\ mshr'[r].data_rtn = mshr[r].data_rtn
      BY <1>2 DEF Reported
    <3>2. mshr[r].memtrans = "reading" => mshr[r].type # "UPGRADE" /\ ~mshr[r].data_rtn
      BY <1>5 DEF RequestIsSound, ReadIsOpen
    <3>3. mshr[r].memtrans = "reading" => ~Ends(m)
      BY <1>2, <3>2 DEF Ends
    <3> QED BY <1>2, <1>6, <3>1, <3>2, <3>3 DEF ReadIsOpen, Reported
  <2> QED BY <2>2, <2>3, <2>4 DEF CountIsExact
<1>9. CInv' /\ RequestOf' = [RequestOf EXCEPT ![r] = RequestOf'[r]]
  BY <1>1, <1>7, <1>8, ServedIsSound
<1>10. PICK e, s, d \in BOOLEAN : Reads(mshr[r].type, mshr'[r].cohe_type, m.c2c_copy, e, s, d)
  BY <1>2 DEF MSHR, Reads
<1>11. CASE ~Ends(m)
  <2>1. mshr'[r].type = mshr[r].type /\ mshr'[r].c2c_copy = m.c2c_copy
    BY <1>2, <1>11 DEF Reported
  <2>2. RequestOf'[r] = Ordered(e, s, d)
    BY <1>6, <1>10, <1>11, <2>1 DEF RequestOf, Ordered, Reads
  <2>3. Ordered(e, s, d) \in Abstract!AfterAnswer(Ordered(e, s, d), r)
    BY DEF Abstract!AfterAnswer
  <2>4. AnswersAs(r, m, e, s, d)
    BY <1>9, <1>10, <2>2, <2>3 DEF AnswersAs
  <2> QED BY <1>9, <2>4
<1>12. CASE Ends(m)
  <2> DEFINE W == Ordered(e, s, d)
  <2>1. RequestOf'[r] = [stage |-> "answered", exclusive |-> FALSE, shared |-> s, copied |-> FALSE]
    BY <1>6, <1>10, <1>12 DEF RequestOf, Reads
  <2>2. W.shared = s /\ s \in BOOLEAN
    BY DEF Ordered
  <2> HIDE DEF W
  <2>3. Abstract!Completed(W)
          = [stage |-> "answered", exclusive |-> FALSE, shared |-> W.shared, copied |-> FALSE]
    BY <2>2, CompletedIs
  <2>4. \A x \in CPUs : ~Abstract!In(r, coheq'[x])
    <3>1. \A x \in CPUs : ~Snoops(x, r)'
      BY <1>2, <1>4, <1>12 DEF Ends
    <3> QED BY <3>1 DEF Snoops, Among, Abstract!In
  <2>5. Abstract!Completed(W) \in Abstract!AfterAnswer(W, r)
    BY <2>4 DEF Abstract!AfterAnswer
  <2>6. RequestOf'[r] = Abstract!Completed(W)
    BY <2>1, <2>2, <2>3
  <2>7. AnswersAs(r, m, e, s, d)
    BY <1>9, <1>10, <2>5, <2>6 DEF AnswersAs, W
  <2> QED BY <1>9, <2>7
<1> QED BY <1>11, <1>12

\* The view of a request that is being answered.
LEMMA ViewIs ==
  ASSUME NEW r \in Request, Stage(r) = "ordered",
         NEW e \in BOOLEAN, NEW s \in BOOLEAN, NEW d \in BOOLEAN,
         Reads(mshr[r].type, mshr[r].cohe_type, mshr[r].c2c_copy, e, s, d)
  PROVE  RequestOf[r] = Ordered(e, s, d)
BY DEF RequestOf, Ordered, Reads

\* Its own request is issued while an earlier foreign one is still pending.
LEMMA QuietOwn ==
  ASSUME CInv, NEW c \in CPUs, SnoopOwn(c), mshr[Head(coheq[c])].pending_cohe # None
  PROVE  CInv' /\ Stutters
<1> DEFINE r == Head(coheq[c])
           m == [mshr[r] EXCEPT !.issued = TRUE]
<1>1. UNCHANGED <<wbuf, reqq, tags, coheq, replyq, dpipe, dcp, sif, mmcq, bus>>
  BY DEF SnoopOwn
<1>2. r \in Request
  <2>1. coheq[c] \in Seq(Request) /\ coheq[c] # <<>>
    BY DEF CInv, Types, SnoopOwn, SnoopAtTag
  <2> QED BY <2>1, QueueTypes
<1>3. mshr' = [mshr EXCEPT ![r] = m]
  BY DEF SnoopOwn
<1> HIDE DEF r
<1>4. mshr[r] \in MSHR
  BY <1>2 DEF CInv, Types
<1>5. /\ m \in MSHR /\ m.valid = mshr[r].valid /\ m.phase = mshr[r].phase
      /\ m.type = mshr[r].type /\ m.cohe_type = mshr[r].cohe_type
      /\ m.misscache = mshr[r].misscache /\ m.way = mshr[r].way
      /\ m.cohe_count = mshr[r].cohe_count /\ m.c2c_copy = mshr[r].c2c_copy
      /\ m.data_rtn = mshr[r].data_rtn /\ m.memtrans = mshr[r].memtrans
      /\ m.has_writes = mshr[r].has_writes /\ m.issued
  BY <1>4 DEF MSHR
<1> HIDE DEF m
<1>6. mshr' \in [Request -> MSHR] /\ \A q \in Request : SameMSHR(q)
  BY <1>2, <1>3, <1>5, QuietMSHR
<1>7. Types'
  BY <1>1, <1>6 DEF CInv, Types
<1> QED BY <1>1, <1>6, <1>7, QuietStep, SameTags, SamePipes, SameInterfaces, SameTransfers DEF CInv

\* Its own request has had its turn: from here on the cache holds others back.
LEMMA OwnPasses ==
  ASSUME CInv, Abstract!IInv, NEW c \in CPUs, SnoopOwn(c), mshr[Head(coheq[c])].pending_cohe = None
  PROVE  CInv' /\ Abstract!PassOwn(c)
<1>r. PICK r \in Request : /\ r = Head(coheq[c]) /\ Stage(r) = "ordered" /\ IsOut(r)
                            /\ coheq[c] # <<>>
  BY SnoopedIsOut DEF SnoopOwn, SnoopAtTag
<1>m. PICK m \in MSHR :
        /\ m = [[mshr[r] EXCEPT !.issued = TRUE] EXCEPT !.pending_cohe = r] /\ m.issued
        /\ m.valid = mshr[r].valid /\ m.misscache = mshr[r].misscache /\ m.way = mshr[r].way
        /\ m.has_writes = mshr[r].has_writes /\ m.memtrans = mshr[r].memtrans
        /\ m.data_rtn = mshr[r].data_rtn /\ m.cohe_count = mshr[r].cohe_count
        /\ m.cohe_type = mshr[r].cohe_type /\ m.type = mshr[r].type /\ m.phase = mshr[r].phase
        /\ m.c2c_copy = mshr[r].c2c_copy
  <2> DEFINE k == [[mshr[r] EXCEPT !.issued = TRUE] EXCEPT !.pending_cohe = r]
  <2>1. mshr[r] \in MSHR
    BY DEF CInv, Types
  <2>2. /\ k \in MSHR /\ k.issued
        /\ k.valid = mshr[r].valid /\ k.misscache = mshr[r].misscache /\ k.way = mshr[r].way
        /\ k.has_writes = mshr[r].has_writes /\ k.memtrans = mshr[r].memtrans
        /\ k.data_rtn = mshr[r].data_rtn /\ k.cohe_count = mshr[r].cohe_count
        /\ k.cohe_type = mshr[r].cohe_type /\ k.type = mshr[r].type /\ k.phase = mshr[r].phase
        /\ k.c2c_copy = mshr[r].c2c_copy
    BY <2>1 DEF MSHR
  <2> QED BY <2>2
<1> DEFINE N == [mshr EXCEPT ![r] = m]
           S == [mshr |-> N, sif |-> sif, replyq |-> replyq, mmcq |-> mmcq, bus |-> bus]
<1>1. /\ UNCHANGED <<wbuf, reqq, tags, dpipe, dcp>> /\ coheq[c] # <<>> /\ r[1] = c
      /\ coheq' = [coheq EXCEPT ![c] = Tail(@)]
      /\ Becomes(MMCRecvCoheResponse(S, r, "REPLY_EXCL"))
  <2>1. [Shared EXCEPT !.mshr[r].issued = TRUE, !.mshr[r].pending_cohe = r] = S
    <3>1. [Shared EXCEPT !.mshr[r].issued = TRUE, !.mshr[r].pending_cohe = r]
            = [Shared EXCEPT !.mshr = [[Shared.mshr EXCEPT ![r].issued = TRUE]
                                                    EXCEPT ![r].pending_cohe = r]]
      BY SharedParts DEF SharedState, CInv
    <3>2. [[mshr EXCEPT ![r].issued = TRUE] EXCEPT ![r].pending_cohe = r] = N
      BY <1>m DEF CInv, Types
    <3>3. Shared.mshr = mshr
      BY SharedParts DEF CInv
    <3>4. Shared = [mshr |-> mshr, sif |-> sif, replyq |-> replyq, mmcq |-> mmcq, bus |-> bus]
      BY DEF Shared
    <3> HIDE DEF N
    <3>5. [Shared EXCEPT !.mshr = N] = S
      BY <3>4
    <3> QED BY <3>1, <3>2, <3>3, <3>5
  <2> HIDE DEF S
  <2> QED BY <1>r, <2>1 DEF SnoopOwn, SnoopAtTag, PopSnoop
<1>2. r \in Request /\ Stage(r) = "ordered" /\ IsOut(r)
  BY <1>r
<1>3. Popped(c, r) /\ Head(coheq[c]) = r
  BY <1>1, <1>r DEF Popped
<1>4. /\ Types /\ TagsAreExact /\ PipesAreOrderly /\ mshr[r] \in MSHR
  BY <1>2 DEF CInv, Types
<1>5. /\ m \in MSHR /\ m.issued
      /\ m.valid = mshr[r].valid /\ m.misscache = mshr[r].misscache /\ m.way = mshr[r].way
      /\ m.has_writes = mshr[r].has_writes /\ m.memtrans = mshr[r].memtrans
      /\ m.data_rtn = mshr[r].data_rtn /\ m.cohe_count = mshr[r].cohe_count
      /\ m.cohe_type = mshr[r].cohe_type /\ m.type = mshr[r].type /\ m.phase = mshr[r].phase
      /\ m.c2c_copy = mshr[r].c2c_copy
  BY <1>m
<1>6. N \in [Request -> MSHR] /\ N[r] = m /\ \A q \in Request : q # r => N[q] = mshr[q]
  BY <1>2, <1>4, <1>5 DEF Types
<1> HIDE DEF N
<1>7. S \in SharedState /\ S.mshr = N /\ S.sif = sif /\ S.replyq = replyq /\ S.mmcq = mmcq /\ S.bus = bus
  BY <1>4, <1>6 DEF Types, SharedState, BusRecord
<1> HIDE DEF S
<1>8. "REPLY_EXCL" \in ReplyType /\ S.mshr[r].phase = "out"
  BY <1>2, <1>5, <1>6, <1>7 DEF ReplyType, IsOut
<1>9. /\ Outcome(r, sif) /\ mshr' \in [Request -> MSHR]
      /\ \A q \in Request : q # r => Waiting(S.mshr[q], mshr'[q])
      /\ bus' \in BusRecord /\ bus'.winner = S.bus.winner /\ bus'.cur = S.bus.cur
      /\ Reported(S.mshr[r], mshr'[r], "REPLY_EXCL")
  BY <1>1, <1>2, <1>7, <1>8, ReportSettles
<1>10. Answers(c, r, m, "REPLY_EXCL") /\ NoCopyStarts(r, m)
  <2>1. \A q \in Request : q # r => SameMSHR(q)
    <3>1. \A q \in Request : q # r => Waiting(mshr[q], mshr'[q])
      BY <1>6, <1>7, <1>9
    <3> QED BY <3>1, WaitingIsSame
  <2>2. /\ tags' \in [CPUs -> [Ways -> TagEntry]] /\ TagsAreExact' /\ \A d \in CPUs : SameWays(d)
    BY <1>1, <1>4, SameTags DEF Types
  <2>3. /\ dpipe' \in [CPUs -> Seq(PipeItem)] /\ dcp' \in [CPUs -> Request \cup {None}] /\ PipesAreOrderly'
    BY <1>1, <1>4 DEF Types, PipesAreOrderly
  <2>4. \A q \in Request : /\ Leaving(q)' <=> Leaving(q)
                           /\ \A d \in CPUs : (InPipe(d, q)' <=> InPipe(d, q)) /\ (SetAside(d, q)' <=> SetAside(d, q))
    BY <1>1 DEF Leaving, InPipe, SetAside
  <2>5. Reported(m, mshr'[r], "REPLY_EXCL") /\ bus'.winner = bus.winner /\ bus'.cur = bus.cur
    BY <1>6, <1>7, <1>9
  <2>6. NoCopyStarts(r, m)
    BY <1>2, <1>5, <2>4 DEF NoCopyStarts
  <2>7. UNCHANGED <<wbuf, reqq>> /\ bus' \in BusRecord /\ Outcome(r, sif) /\ mshr' \in [Request -> MSHR]
    BY <1>1, <1>9
  <2>8. /\ \A q \in Request : Leaving(q)' <=> Leaving(q)
        /\ \A q \in Request, d \in CPUs :
             q # r => (InPipe(d, q)' <=> InPipe(d, q)) /\ (SetAside(d, q)' => SetAside(d, q))
    BY <2>4
  <2>9. "REPLY_EXCL" = "REPLY_SH" => mshr[r].type = "READ_SH"
    OBVIOUS
  <2> QED BY <1>3, <1>5, <1>8, <2>1, <2>2, <2>3, <2>5, <2>6, <2>7, <2>8, <2>9 DEF Answers
<1>11. PICK e \in BOOLEAN, s \in BOOLEAN, d \in BOOLEAN :
         CInv' /\ AnswersAs(r, m, e, s, d)
  BY <1>2, <1>10, AnswerSettles
<1>12. RequestOf[r] = Ordered(e, s, d)
  <2>1. mshr'[r].cohe_type = mshr[r].cohe_type
    <3>1. mshr'[r].cohe_type = Stronger(m.cohe_type, "REPLY_EXCL") /\ m.cohe_type \in ReplyType
      BY <1>5, <1>10 DEF Answers, Reported, MSHR
    <3> QED BY <1>5, <3>1 DEF Stronger, ReplyType
  <2>2. Reads(mshr[r].type, mshr[r].cohe_type, mshr[r].c2c_copy, e, s, d)
    BY <1>2, <1>5, <1>11, <2>1 DEF AnswersAs
  <2> QED BY <1>2, <1>5, <2>2, ViewIs
<1>13. LineOf' = LineOf
  BY <1>1, SameTags
<1> QED BY <1>1, <1>3, <1>11, <1>12, <1>13 DEF AnswersAs, Abstract!PassOwn

EntryTurns(c, l, s) == tags' = [tags EXCEPT ![c][WayOf(c, l)].state = s]

\* What is left of a line in a cache after a snoop.
LEMMA LineTurns ==
  ASSUME Types, TagsAreExact, NEW c \in CPUs, NEW l \in Lines, NEW s \in LineState,
         CacheSearch(c, l) = 0, EntryTurns(c, l, s)
  PROVE  /\ tags' \in [CPUs -> [Ways -> TagEntry]] /\ TagsAreExact' /\ \A d \in CPUs : SameWays(d)
         /\ LineOf' = [LineOf EXCEPT ![<<c, l>>] = s]
<1>1. PICK w \in Ways : w = WayOf(c, l) /\ tags[c][w].tag = l
  BY Found
<1>2. tags[c][w] \in TagEntry
  BY DEF Types
<1>3. PICK e \in TagEntry : /\ e = [tags[c][w] EXCEPT !.state = s]
                            /\ e.tag = l /\ e.state = s /\ e.mshr_out = tags[c][w].mshr_out
  <2>1. [tags[c][w] EXCEPT !.state = s] \in TagEntry
    BY <1>2 DEF TagEntry
  <2> QED BY <1>1, <1>2, <2>1 DEF TagEntry
<1>4. tags' = [tags EXCEPT ![c] = [tags[c] EXCEPT ![w] = e]]
  BY <1>1, <1>3 DEF Types, EntryTurns
<1>5. \A v \in Ways : v # w => tags[c][v].tag # l
  BY <1>1, Names DEF TagsAreExact
<1>6. /\ tags' \in [CPUs -> [Ways -> TagEntry]] /\ TagsAreExact' /\ LineOf' = Entered(c, w, e)
      /\ tags'[c][w] = e /\ \A v \in Ways : v # w => tags'[c][v] = tags[c][v]
      /\ \A d \in CPUs : d # c => tags'[d] = tags[d]
  <2>1. MayEnter(tags[c], w, e)
    BY <1>3, <1>5, Names DEF MayEnter
  <2>2. Enters(c, w, e)
    BY <1>4, <2>1 DEF Enters, TagsTake
  <2> QED BY <2>2, TagsAfter
<1>7. \A d \in CPUs : SameWays(d)
  BY <1>1, <1>3, <1>6 DEF SameWays
<1>8. LineOf' = [LineOf EXCEPT ![<<c, l>>] = s]
  <2>1. <<c, l>> \in Request /\ <<c, l>>[1] = c /\ <<c, l>>[2] = l
    BY Names
  <2>2. \A r \in Request : r[1] = c /\ r[2] = l => r = <<c, l>>
    BY Names
  <2>3. \A r \in Request : LineOf'[r] = IF r = <<c, l>> THEN s ELSE LineOf[r]
    BY <1>1, <1>3, <1>6, <2>1, <2>2 DEF Entered
  <2> QED BY <2>3 DEF LineOf
<1> QED BY <1>6, <1>7, <1>8

Joined(W, a, b) == [W EXCEPT !.shared = @ \/ a, !.copied = @ \/ b]

\* The view of a request after an answer.
LEMMA OrderedTurns ==
  \A e, s, d, a, b, t, u \in BOOLEAN :
    t = (s \/ a) /\ u = (d \/ b)
      => Joined(Ordered(e, s, d), a, b) = Ordered(e, t, u)
<1> SUFFICES ASSUME NEW e \in BOOLEAN, NEW s \in BOOLEAN, NEW d \in BOOLEAN,
                    NEW a \in BOOLEAN, NEW b \in BOOLEAN, NEW t \in BOOLEAN, NEW u \in BOOLEAN,
                    t = (s \/ a), u = (d \/ b)
             PROVE  Joined(Ordered(e, s, d), a, b) = Ordered(e, t, u)
  OBVIOUS
<1> DEFINE W == Ordered(e, s, d)
           X == [[W EXCEPT !.shared = t] EXCEPT !.copied = u]
<1>1. W \in View /\ W.shared = s /\ W.copied = d /\ W.stage = "ordered" /\ W.exclusive = e
  BY DEF Ordered, View
<1> HIDE DEF W
<1>2. [W EXCEPT !.shared = @ \/ a, !.copied = @ \/ b] = X
  BY <1>1 DEF View
<1>j. Joined(W, a, b) = [W EXCEPT !.shared = @ \/ a, !.copied = @ \/ b]
  BY DEF Joined
<1>3. X \in View /\ X.shared = t /\ X.copied = u /\ X.stage = "ordered" /\ X.exclusive = e
  BY <1>1 DEF View
<1> HIDE DEF X
<1>4. X = Ordered(e, t, u)
  BY <1>3 DEF View, Ordered
<1> QED BY <1>2, <1>j, <1>4 DEF W

\* An answer is one of Snooping's: its own request does not hold it back.
LEMMA AnswerIs ==
  ASSUME CInv, NEW c \in CPUs, NEW r \in Request, NEW o \in Request, o = <<c, r[2]>>,
         Popped(c, r), r[1] # c, ~StalledByMSHR(c, r[2]),
         NEW e \in BOOLEAN, NEW s \in BOOLEAN, NEW d \in BOOLEAN, NEW t \in BOOLEAN, NEW u \in BOOLEAN,
         RequestOf[r] = Ordered(e, s, d),
         t = (s \/ (LineOf[o] # "INVALID" /\ ~e)), u = (d \/ LineOf[o] = "PR_DY"),
         LineOf' = [LineOf EXCEPT ![o] = IF LineOf[o] # "INVALID" /\ ~e THEN "SH_CL" ELSE "INVALID"],
         \E k \in Abstract!AfterAnswer(Ordered(e, t, u), r) : RequestOf' = [RequestOf EXCEPT ![r] = k]
  PROVE  Abstract!Answer(c)
<1>1. coheq[c] # <<>> /\ Head(coheq[c]) = r /\ coheq' = [coheq EXCEPT ![c] = Tail(@)]
  BY DEF Popped
<1>2. ~Abstract!HoldsBack(c, r[2])
  <2>1. SUFFICES ASSUME Abstract!HoldsBack(c, r[2]) PROVE FALSE
    OBVIOUS
  <2>2. Stage(o) # "idle" /\ ~Snoops(c, o)
    BY <2>1 DEF Abstract!HoldsBack, Abstract!Active, Abstract!In, Snoops, Among, RequestOf
  <2>3. mshr[o].valid /\ ~mshr[o].issued
    BY <2>2 DEF Stage, StalledByMSHR
  <2>4. IssuedIsSeen(o) /\ o[1] = c
    BY Names DEF CInv, RequestIsSound
  <2> QED BY <2>2, <2>3, <2>4 DEF IssuedIsSeen
<1>3. PICK a \in BOOLEAN, b \in BOOLEAN : a = (LineOf[o] # "INVALID" /\ ~e) /\ b = (LineOf[o] = "PR_DY")
  OBVIOUS
<1>4. RequestOf[r].exclusive = e
  BY DEF Ordered
<1>5. [RequestOf[r] EXCEPT !.shared = @ \/ (LineOf[o] # "INVALID" /\ ~RequestOf[r].exclusive),
                           !.copied = @ \/ LineOf[o] = "PR_DY"]
        = Ordered(e, t, u)
  <2>1. Joined(Ordered(e, s, d), a, b) = Ordered(e, t, u)
    <3>1. t = (s \/ a) /\ u = (d \/ b)
      BY <1>3
    <3> QED BY <3>1, OrderedTurns
  <2> DEFINE W == RequestOf[r]
  <2>2. W = Ordered(e, s, d) /\ W.exclusive = e
    BY <1>4
  <2> HIDE DEF W
  <2>3. (LineOf[o] # "INVALID" /\ ~W.exclusive) = a /\ (LineOf[o] = "PR_DY") = b
    BY <1>3, <2>2
  <2>4. [W EXCEPT !.shared = @ \/ (LineOf[o] # "INVALID" /\ ~W.exclusive), !.copied = @ \/ LineOf[o] = "PR_DY"]
          = Joined(W, a, b)
    BY <2>3 DEF Joined
  <2> QED BY <2>1, <2>2, <2>4 DEF W
<1> DEFINE V == [RequestOf[r] EXCEPT !.shared = @ \/ (LineOf[o] # "INVALID" /\ ~RequestOf[r].exclusive),
                                     !.copied = @ \/ LineOf[o] = "PR_DY"]
<1>6. V = Ordered(e, t, u)
  BY <1>5
<1> HIDE DEF V
<1>7. PICK k \in Abstract!AfterAnswer(V, r) : RequestOf' = [RequestOf EXCEPT ![r] = k]
  BY <1>6
<1>8. LineOf' = [LineOf EXCEPT ![o] = IF LineOf[o] # "INVALID" /\ ~RequestOf[r].exclusive THEN "SH_CL" ELSE "INVALID"]
  BY <1>4
<1> QED BY <1>1, <1>2, <1>7, <1>8 DEF Abstract!Answer, V

\* Where the data of a dirty line go: into the data pipe, or aside.
GoesToPipe(c, r) == /\ DataPipeHasRoom(c)
                    /\ dpipe' = [dpipe EXCEPT ![c] = Append(@, Copy(r))] /\ dcp' = dcp
GoesAside(c, r)  == /\ ~DataPipeHasRoom(c)
                    /\ dcp' = [dcp EXCEPT ![c] = r] /\ dpipe' = dpipe
GoesNowhere      == dpipe' = dpipe /\ dcp' = dcp

\* The containers after an answer, for the other requests.
LEMMA CopyMoves ==
  ASSUME Types, PipesAreOrderly, NEW c \in CPUs, NEW r \in Request,
         \/ GoesNowhere
         \/ /\ \A d \in CPUs : ~Holds(d, r)
            /\ GoesToPipe(c, r) \/ GoesAside(c, r)
  PROVE  /\ dpipe' \in [CPUs -> Seq(PipeItem)] /\ dcp' \in [CPUs -> Request \cup {None}]
         /\ PipesAreOrderly'
         /\ \A q \in Request : Leaving(q)' <=> Leaving(q)
         /\ \A q \in Request, d \in CPUs :
              q # r => (InPipe(d, q)' <=> InPipe(d, q)) /\ (SetAside(d, q)' => SetAside(d, q))
         /\ GoesNowhere => \A d \in CPUs : (InPipe(d, r)' => InPipe(d, r)) /\ (SetAside(d, r)' => SetAside(d, r))
         /\ (\A d \in CPUs : ~Holds(d, r))
              => /\ \A d \in CPUs : InPipe(d, r)' \/ SetAside(d, r)' => d = c
                 /\ ~(InPipe(c, r)' /\ SetAside(c, r)')
<1>1. /\ dpipe \in [CPUs -> Seq(PipeItem)] /\ dcp \in [CPUs -> Request \cup {None}]
  BY DEF Types
<1>2. CASE GoesNowhere
  BY <1>1, <1>2 DEF GoesNowhere, PipesAreOrderly, Leaving, InPipe, SetAside, Holds
<1>3. CASE (\A d \in CPUs : ~Holds(d, r)) /\ GoesToPipe(c, r)
  <2>1. ~InPipe(c, r) /\ dcp' = dcp /\ dpipe' = [dpipe EXCEPT ![c] = Append(@, Copy(r))]
    BY <1>3 DEF Holds, GoesToPipe
  <2>2. /\ dpipe' \in [CPUs -> Seq(PipeItem)] /\ PipesAreOrderly'
        /\ InPipe(c, r)'
        /\ \A x \in Request, d \in CPUs : x # r \/ d # c => (InPipe(d, x)' <=> InPipe(d, x))
        /\ \A x \in Request : Leaving(x)' <=> Leaving(x)
    BY <2>1, CopyEntersPipe
  <2>3. \A d \in CPUs, q \in Request : SetAside(d, q)' <=> SetAside(d, q)
    BY <2>1 DEF SetAside
  <2>4. /\ \A d \in CPUs : InPipe(d, r)' \/ SetAside(d, r)' => d = c
        /\ ~SetAside(c, r)'
    BY <1>3, <2>2, <2>3 DEF Holds
  <2>5. ~GoesNowhere
    BY <1>3, <2>2 DEF GoesNowhere, InPipe, Holds
  <2> QED BY <1>1, <2>1, <2>2, <2>3, <2>4, <2>5
<1>4. CASE (\A d \in CPUs : ~Holds(d, r)) /\ GoesAside(c, r)
  <2>1. dpipe' = dpipe /\ dcp' = [dcp EXCEPT ![c] = r] /\ \A d \in CPUs : ~InPipe(d, r) /\ ~SetAside(d, r)
    BY <1>4 DEF Holds, GoesAside
  <2>2. dcp'[c] = r /\ \A d \in CPUs : d # c => dcp'[d] = dcp[d]
    BY <1>1, <2>1
  <2>3. dcp' \in [CPUs -> Request \cup {None}]
    BY <1>1, <2>1
  <2>4. /\ \A d \in CPUs, q \in Request : InPipe(d, q)' <=> InPipe(d, q)
        /\ \A q \in Request : Leaving(q)' <=> Leaving(q)
        /\ PipesAreOrderly'
    BY <2>1 DEF InPipe, Leaving, PipesAreOrderly
  <2>5. \A d \in CPUs, q \in Request : q # r => (SetAside(d, q)' => SetAside(d, q))
    BY <2>2 DEF SetAside
  <2>6. \A d \in CPUs : d # c => ~SetAside(d, r)'
    BY <2>1, <2>2 DEF SetAside
  <2>7. ~GoesNowhere
    BY <2>1, <2>2 DEF GoesNowhere, SetAside
  <2> QED BY <1>1, <2>1, <2>3, <2>4, <2>5, <2>6, <2>7
<1> QED BY <1>2, <1>3, <1>4

\* The MSHRs after a foreign request has been looked at: the cache's own MSHR may
\* have taken note, and the request may have found its line dirty.
Looked(c, r, dirty) ==
  LET noted == [Shared EXCEPT !.mshr = MSHRTakesNote(c, r)]
  IN IF dirty THEN [noted EXCEPT !.mshr[r].c2c_copy = TRUE] ELSE noted

\* The MSHRs after the look differ in what they wait for, and in the copy.
LEMMA LookIsShared ==
  ASSUME CInv, NEW c \in CPUs, NEW r \in Request, r[1] # c, NEW dirty \in BOOLEAN
  PROVE  LET S == Looked(c, r, dirty)
             m == S.mshr[r]
         IN /\ S \in SharedState
            /\ S.sif = sif /\ S.replyq = replyq /\ S.mmcq = mmcq /\ S.bus = bus
            /\ \A q \in Request : q # r => Waiting(mshr[q], S.mshr[q])
            /\ Alike(mshr[r], m) /\ m.type = mshr[r].type /\ m.phase = mshr[r].phase
            /\ m.c2c_copy = (dirty \/ mshr[r].c2c_copy)
<1>1. Types
  BY DEF CInv
<1>2. PICK o \in Request : o = <<c, r[2]>> /\ o # r
  <2>1. r[2] \in Lines
    BY Names
  <2>2. <<c, r[2]>> \in Request /\ <<c, r[2]>>[1] = c
    BY <2>1, Names
  <2>3. <<c, r[2]>> # r
    BY <2>2
  <2> QED BY <2>2, <2>3
<1>3. PICK k \in MSHR :
        /\ MSHRTakesNote(c, r) = [mshr EXCEPT ![o] = k]
        /\ Waiting(mshr[o], k)
  <2>1. PICK k \in MSHR :
          /\ MSHRTakesNote(c, r) = [mshr EXCEPT ![<<c, r[2]>>] = k]
          /\ k.valid = mshr[<<c, r[2]>>].valid /\ k.phase = mshr[<<c, r[2]>>].phase
          /\ k.type = mshr[<<c, r[2]>>].type /\ k.cohe_type = mshr[<<c, r[2]>>].cohe_type
          /\ k.misscache = mshr[<<c, r[2]>>].misscache /\ k.way = mshr[<<c, r[2]>>].way
          /\ k.cohe_count = mshr[<<c, r[2]>>].cohe_count /\ k.c2c_copy = mshr[<<c, r[2]>>].c2c_copy
          /\ k.data_rtn = mshr[<<c, r[2]>>].data_rtn /\ k.memtrans = mshr[<<c, r[2]>>].memtrans
          /\ k.has_writes = mshr[<<c, r[2]>>].has_writes /\ k.issued = mshr[<<c, r[2]>>].issued
    BY NoteTaken
  <2> QED BY <1>2, <2>1 DEF Waiting, Alike
<1> DEFINE M == [mshr EXCEPT ![o] = k]
           m == [mshr[r] EXCEPT !.c2c_copy = TRUE]
           N == [M EXCEPT ![r] = m]
           R == [mshr |-> M, sif |-> sif, replyq |-> replyq, mmcq |-> mmcq, bus |-> bus]
           S == [mshr |-> N, sif |-> sif, replyq |-> replyq, mmcq |-> mmcq, bus |-> bus]
<1>4. mshr \in [Request -> MSHR] /\ mshr[r] \in MSHR
  BY <1>1 DEF Types
<1>5. m \in MSHR /\ Alike(mshr[r], m) /\ m.type = mshr[r].type /\ m.phase = mshr[r].phase /\ m.c2c_copy = TRUE
  BY <1>4, CopyIsFlagged
<1> HIDE DEF m
<1>6. M \in [Request -> MSHR] /\ M[o] = k /\ \A q \in Request : q # o => M[q] = mshr[q]
  BY <1>4
<1>7. M[r] = mshr[r]
  BY <1>2, <1>6
<1> HIDE DEF M
<1>8. N \in [Request -> MSHR] /\ N[r] = m /\ \A q \in Request : q # r => N[q] = M[q]
  BY <1>5, <1>6
<1> HIDE DEF N
<1>9. \A q \in Request : Waiting(mshr[q], M[q])
  BY <1>3, <1>6 DEF Waiting, Alike
<1>10. R \in SharedState /\ S \in SharedState
  BY <1>1, <1>6, <1>8 DEF Types, SharedState, BusRecord
<1>11. [Shared EXCEPT !.mshr = MSHRTakesNote(c, r)] = R
  BY <1>3 DEF Shared, M
<1>12. [R EXCEPT !.mshr[r].c2c_copy = TRUE] = S
  <2>1. [M EXCEPT ![r].c2c_copy = TRUE] = N
    BY <1>6, <1>7 DEF N, m
  <2>2. [R EXCEPT !.mshr[r].c2c_copy = TRUE] = [R EXCEPT !.mshr = [M EXCEPT ![r].c2c_copy = TRUE]]
    BY DEF R
  <2>3. [R EXCEPT !.mshr = N] = S
    OBVIOUS
  <2> QED BY <2>1, <2>2, <2>3
<1>13. Looked(c, r, dirty) = IF dirty THEN S ELSE R
  BY <1>11, <1>12 DEF Looked
<1>14. /\ R.mshr = M /\ R.sif = sif /\ R.replyq = replyq /\ R.mmcq = mmcq /\ R.bus = bus
       /\ S.mshr = N /\ S.sif = sif /\ S.replyq = replyq /\ S.mmcq = mmcq /\ S.bus = bus
  OBVIOUS
<1> HIDE DEF R, S
<1>15. CASE dirty
  <2>1. Looked(c, r, dirty) = S
    BY <1>13, <1>15
  <2> QED BY <1>5, <1>8, <1>9, <1>10, <1>14, <1>15, <2>1
<1>16. CASE ~dirty
  <2>1. Looked(c, r, dirty) = R
    BY <1>13, <1>16
  <2>2. Alike(mshr[r], mshr[r]) /\ mshr[r].c2c_copy \in BOOLEAN
    BY <1>4 DEF Alike, MSHR
  <2>3. mshr[r].c2c_copy = (dirty \/ mshr[r].c2c_copy)
    BY <1>16, <2>2
  <2> QED BY <1>7, <1>9, <1>10, <1>14, <2>1, <2>2, <2>3
<1> QED BY <1>15, <1>16

\* What a cache does for the foreign request r at the head of its queue: it
\* looks at its own copy o of the line, answers with what it finds, keeps a
\* shared copy for a reader, and sends the data of a dirty line.
Keeps(r, o)   == LineOf[o] # "INVALID" /\ mshr[r].type = "READ_SH"
AnswerOf(r, o) == IF Keeps(r, o) THEN "REPLY_SH" ELSE "REPLY_EXCL"
LeftOver(r, o) == IF Keeps(r, o) THEN "SH_CL" ELSE "INVALID"
Sends(c, r, dirty) ==
  /\ dirty => GoesToPipe(c, r) \/ GoesAside(c, r)
  /\ ~dirty => GoesNowhere

\* What L2ProcessTagCohe does with a foreign request.
LEMMA SnoopLooks ==
  ASSUME CInv, Abstract!IInv, NEW c \in CPUs, SnoopAnswer(c)
  PROVE  \E r, o \in Request : \E dirty \in BOOLEAN :
           /\ r[1] # c /\ o = <<c, r[2]>> /\ o # r /\ Popped(c, r) /\ ~StalledByMSHR(c, r[2])
           /\ Stage(r) = "ordered" /\ IsOut(r) /\ Unanswered(r)
           /\ dirty = (LineOf[o] = "PR_DY") /\ Sends(c, r, dirty)
           /\ Becomes(MMCRecvCoheResponse(Looked(c, r, dirty), r, AnswerOf(r, o)))
           /\ LineOf' = [LineOf EXCEPT ![o] = LeftOver(r, o)]
           /\ tags' \in [CPUs -> [Ways -> TagEntry]] /\ TagsAreExact'
           /\ \A d \in CPUs : SameWays(d)
           /\ UNCHANGED <<wbuf, reqq>>
<1>1. /\ coheq[c] # <<>> /\ Head(coheq[c])[1] # c /\ Types /\ TagsAreExact
  BY DEF SnoopAnswer, ReachesMSHR, SnoopAtTag, CInv
<1>2. PICK r \in Request : /\ r = Head(coheq[c]) /\ Stage(r) = "ordered" /\ IsOut(r) /\ Unanswered(r)
  BY <1>1, SnoopedIsOut
<1>3. r[1] # c /\ Popped(c, r)
  BY <1>1, <1>2 DEF SnoopAnswer, PopSnoop, Popped
<1>4. PICK o \in Request : o = <<c, r[2]>> /\ o # r /\ LineOf[o] = StateOf(c, r[2])
  <2>1. r[2] \in Lines
    BY Names
  <2>2. <<c, r[2]>> \in Request /\ <<c, r[2]>>[1] = c /\ <<c, r[2]>>[2] = r[2]
    BY <2>1, Names
  <2>3. <<c, r[2]>> # r
    BY <2>2, <1>3
  <2> QED BY <2>2, <2>3 DEF LineOf
<1>5. PICK dirty \in BOOLEAN : dirty = (LineOf[o] = "PR_DY")
  OBVIOUS
<1>6. r[2] \in Lines /\ mshr[r].type \in RequestType
  BY <1>2, Names DEF Unanswered, RequestType
<1> DEFINE noted == [Shared EXCEPT !.mshr = MSHRTakesNote(c, r)]
<1>7. Looked(c, r, dirty) = IF dirty THEN [noted EXCEPT !.mshr[r].c2c_copy = TRUE] ELSE noted
  BY DEF Looked
<1>8. ~StalledByMSHR(c, r[2]) /\ UNCHANGED <<wbuf, reqq>>
  BY <1>2 DEF SnoopAnswer
<1>9. CASE CacheSearch(c, r[2]) # 0
  <2>1. /\ Becomes(MMCRecvCoheResponse(noted, r, "REPLY_EXCL"))
        /\ UNCHANGED <<tags, dpipe, dcp>>
    BY <1>2, <1>9 DEF SnoopAnswer
  <2>2. LineOf[o] = "INVALID" /\ ~dirty
    BY <1>4, <1>5, <1>9 DEF StateOf
  <2>3. AnswerOf(r, o) = "REPLY_EXCL" /\ LeftOver(r, o) = LineOf[o]
    BY <2>2 DEF AnswerOf, LeftOver, Keeps
  <2>4. Looked(c, r, dirty) = noted
    BY <1>7, <2>2
  <2> HIDE DEF noted
  <2>5. Becomes(MMCRecvCoheResponse(Looked(c, r, dirty), r, AnswerOf(r, o)))
    BY <2>1, <2>3, <2>4
  <2>6. LineOf' = LineOf /\ tags' \in [CPUs -> [Ways -> TagEntry]] /\ TagsAreExact'
        /\ \A d \in CPUs : SameWays(d)
    BY <1>1, <2>1, SameTags DEF Types
  <2>7. LineOf' = [LineOf EXCEPT ![o] = LeftOver(r, o)]
    BY <2>3, <2>6 DEF LineOf
  <2>8. Sends(c, r, dirty)
    BY <2>1, <2>2 DEF Sends, GoesNowhere
  <2> QED BY <1>2, <1>3, <1>4, <1>5, <1>8, <2>5, <2>6, <2>7, <2>8
<1>10. CASE CacheSearch(c, r[2]) = 0
  <2> DEFINE after == StateAfterSnoop(mshr[r].type)
  <2>1. LineOf[o] # "INVALID" /\ LineOf[o] = tags[c][WayOf(c, r[2])].state
    BY <1>4, <1>10 DEF StateOf, CacheSearch
  <2>2. AnswerOf(r, o) = Report(after) /\ LeftOver(r, o) = after /\ after \in LineState
    BY <1>6, <2>1 DEF AnswerOf, LeftOver, Keeps, Report, StateAfterSnoop, RequestType, LineState
  <2>3. /\ tags' = [tags EXCEPT ![c][WayOf(c, r[2])].state = after]
        /\ Becomes(MMCRecvCoheResponse(
             IF StateOf(c, r[2]) = "PR_DY" THEN [noted EXCEPT !.mshr[r].c2c_copy = TRUE] ELSE noted,
             r, Report(after)))
    BY <1>2, <1>10 DEF SnoopAnswer
  <2>4. Looked(c, r, dirty)
          = IF StateOf(c, r[2]) = "PR_DY" THEN [noted EXCEPT !.mshr[r].c2c_copy = TRUE] ELSE noted
    BY <1>4, <1>5, <1>7
  <2> HIDE DEF noted
  <2>5. Becomes(MMCRecvCoheResponse(Looked(c, r, dirty), r, AnswerOf(r, o)))
    BY <2>2, <2>3, <2>4
  <2>5a. EntryTurns(c, r[2], after)
    BY <2>3 DEF EntryTurns
  <2> HIDE DEF after
  <2>6. /\ tags' \in [CPUs -> [Ways -> TagEntry]] /\ TagsAreExact' /\ \A d \in CPUs : SameWays(d)
        /\ LineOf' = [LineOf EXCEPT ![<<c, r[2]>>] = after]
    BY <1>1, <1>6, <1>10, <2>2, <2>5a, LineTurns
  <2>7. Sends(c, r, dirty)
    <3>1. DataItem("C2C", r[2], r[1]) = Copy(r)
      BY DEF Copy
    <3>2. IF StateOf(c, r[2]) = "PR_DY" /\ DataPipeHasRoom(c)
          THEN /\ dpipe' = [dpipe EXCEPT ![c] = Append(@, DataItem("C2C", r[2], r[1]))]
               /\ UNCHANGED <<dcp, error>>
          ELSE IF StateOf(c, r[2]) = "PR_DY"
          THEN /\ dcp' = [dcp EXCEPT ![c] = r]
               /\ UNCHANGED dpipe
          ELSE UNCHANGED <<dpipe, dcp, error>>
      BY <1>2, <1>10 DEF SnoopAnswer
    <3> QED BY <1>4, <1>5, <3>1, <3>2 DEF Sends, GoesNowhere, GoesToPipe, GoesAside
  <2> QED BY <1>2, <1>3, <1>4, <1>5, <1>8, <2>2, <2>5, <2>6, <2>7
<1> QED BY <1>9, <1>10

\* A dirty line is not sent to a request that has a copy on its way.
LEMMA DirtyIsFirst ==
  ASSUME CInv, Abstract!IInv, NEW r \in Request, NEW o \in Request, r[1] # o[1], r[2] = o[2],
         Stage(r) = "ordered", LineOf[o] = "PR_DY"
  PROVE  ~mshr[r].c2c_copy /\ \A d \in CPUs : ~Holds(d, r)
<1>1. r \in Abstract!Request /\ o \in Abstract!Request /\ Abstract!Rivals(r, o)
  BY DEF Abstract!Request, Request, Abstract!Rivals
<1>2. ~RequestOf[r].copied
  <2>1. LineOf[o] \in Abstract!Private
    BY DEF Abstract!Private
  <2> QED BY <1>1, <2>1 DEF Abstract!IInv, Abstract!CopyIsAlone
<1>3. RequestOf[r].copied = (Stage(r) = "ordered" /\ mshr[r].c2c_copy)
  BY DEF RequestOf
<1>4. mshr[r].c2c_copy \in BOOLEAN
  BY DEF CInv, Types, MSHR
<1>5. ~mshr[r].c2c_copy
  BY <1>2, <1>3, <1>4
<1>6. CopyGoesOnce(r)
  BY DEF CInv, RequestIsSound
<1> QED BY <1>5, <1>6 DEF CopyGoesOnce

\* A foreign request is answered.
LEMMA SnoopAnswers ==
  ASSUME CInv, Abstract!IInv, NEW c \in CPUs, SnoopAnswer(c)
  PROVE  CInv' /\ Abstract!Answer(c)
<1>1. PICK r \in Request, o \in Request, dirty \in BOOLEAN :
        /\ r[1] # c /\ o = <<c, r[2]>> /\ o # r /\ Popped(c, r) /\ ~StalledByMSHR(c, r[2])
        /\ Stage(r) = "ordered" /\ IsOut(r) /\ Unanswered(r)
        /\ dirty = (LineOf[o] = "PR_DY") /\ Sends(c, r, dirty)
        /\ Becomes(MMCRecvCoheResponse(Looked(c, r, dirty), r, AnswerOf(r, o)))
        /\ LineOf' = [LineOf EXCEPT ![o] = LeftOver(r, o)]
        /\ tags' \in [CPUs -> [Ways -> TagEntry]] /\ TagsAreExact'
        /\ \A d \in CPUs : SameWays(d)
        /\ UNCHANGED <<wbuf, reqq>>
  BY SnoopLooks
<1>2. PICK v \in ReplyType : v = AnswerOf(r, o)
  BY DEF AnswerOf, ReplyType
<1> DEFINE S == Looked(c, r, dirty)
<1>3. /\ S \in SharedState
      /\ S.sif = sif /\ S.replyq = replyq /\ S.mmcq = mmcq /\ S.bus = bus
      /\ \A q \in Request : q # r => Waiting(mshr[q], S.mshr[q])
      /\ Alike(mshr[r], S.mshr[r]) /\ S.mshr[r].type = mshr[r].type
      /\ S.mshr[r].phase = mshr[r].phase
      /\ S.mshr[r].c2c_copy = (dirty \/ mshr[r].c2c_copy)
  BY <1>1, LookIsShared
<1> HIDE DEF S
<1>4. PICK M \in [Request -> MSHR] : M = S.mshr
  BY <1>3 DEF SharedState
<1>5. PICK m \in MSHR : m = S.mshr[r]
  BY <1>4
<1>6. S.mshr[r].phase = "out"
  BY <1>1, <1>3 DEF IsOut
<1>7. /\ Outcome(r, sif) /\ mshr' \in [Request -> MSHR]
      /\ \A q \in Request : q # r => Waiting(S.mshr[q], mshr'[q])
      /\ bus' \in BusRecord /\ bus'.winner = S.bus.winner /\ bus'.cur = S.bus.cur
      /\ Reported(S.mshr[r], mshr'[r], v)
  <2>1. Becomes(MMCRecvCoheResponse(S, r, v))
    BY <1>1, <1>2 DEF S
  <2> QED BY <1>3, <1>6, <2>1, ReportSettles
<1>8. dirty => ~mshr[r].c2c_copy /\ \A d \in CPUs : ~Holds(d, r)
  <2>1. o[1] = c /\ o[2] = r[2]
    BY <1>1
  <2> QED BY <1>1, <2>1, DirtyIsFirst
<1>9. /\ dpipe' \in [CPUs -> Seq(PipeItem)] /\ dcp' \in [CPUs -> Request \cup {None}]
      /\ PipesAreOrderly'
      /\ \A q \in Request : Leaving(q)' <=> Leaving(q)
      /\ \A q \in Request, d \in CPUs :
           q # r => (InPipe(d, q)' <=> InPipe(d, q)) /\ (SetAside(d, q)' => SetAside(d, q))
      /\ ~dirty => \A d \in CPUs : (InPipe(d, r)' => InPipe(d, r)) /\ (SetAside(d, r)' => SetAside(d, r))
      /\ dirty => /\ \A d \in CPUs : InPipe(d, r)' \/ SetAside(d, r)' => d = c
                  /\ ~(InPipe(c, r)' /\ SetAside(c, r)')
  <2>1. \/ GoesNowhere
        \/ /\ \A d \in CPUs : ~Holds(d, r)
           /\ GoesToPipe(c, r) \/ GoesAside(c, r)
    BY <1>1, <1>8 DEF Sends
  <2>2. Types /\ PipesAreOrderly
    BY DEF CInv
  <2>3. ~dirty => GoesNowhere
    BY <1>1 DEF Sends
  <2> QED BY <1>8, <2>1, <2>2, <2>3, CopyMoves
<1>10. \A q \in Request : q # r => SameMSHR(q)
  <2>1. \A q \in Request : q # r => Waiting(mshr[q], mshr'[q])
    BY <1>3, <1>7 DEF Waiting, Alike
  <2> QED BY <2>1, WaitingIsSame
<1>11. Alike(mshr[r], m) /\ m.type = mshr[r].type /\ m.c2c_copy = (dirty \/ mshr[r].c2c_copy)
  BY <1>3, <1>5
<1>12. v = "REPLY_SH" => mshr[r].type = "READ_SH"
  BY <1>2 DEF AnswerOf, Keeps
<1>13. Answers(c, r, m, v)
  <2>1. Reported(m, mshr'[r], v) /\ bus'.winner = bus.winner /\ bus'.cur = bus.cur
    BY <1>3, <1>5, <1>7
  <2>2. m.issued \/ (c # r[1] /\ m.issued = mshr[r].issued)
    BY <1>1, <1>11 DEF Alike
  <2>3. /\ m.valid = mshr[r].valid /\ m.misscache = mshr[r].misscache /\ m.way = mshr[r].way
        /\ m.has_writes = mshr[r].has_writes /\ m.memtrans = mshr[r].memtrans
        /\ m.data_rtn = mshr[r].data_rtn /\ m.cohe_count = mshr[r].cohe_count
        /\ m.cohe_type = mshr[r].cohe_type /\ m.type = mshr[r].type
    BY <1>11 DEF Alike
  <2> QED BY <1>1, <1>7, <1>9, <1>10, <1>12, <2>1, <2>2, <2>3 DEF Answers
<1>14. NoCopyStarts(r, m) \/ CopyLeaves(c, r, m)
  <2>1. CASE dirty
    BY <1>8, <1>9, <1>11, <2>1 DEF CopyLeaves
  <2>2. CASE ~dirty
    <3>1. mshr[r].c2c_copy \in BOOLEAN
      BY DEF CInv, Types, MSHR
    <3>2. m.c2c_copy = mshr[r].c2c_copy
      BY <1>11, <2>2, <3>1
    <3> QED BY <1>9, <2>2, <3>2 DEF NoCopyStarts
  <2> QED BY <2>1, <2>2
<1>15. PICK e \in BOOLEAN, t \in BOOLEAN, u \in BOOLEAN :
         CInv' /\ AnswersAs(r, m, e, t, u)
  BY <1>13, <1>14, AnswerSettles
<1>15a. /\ e = (mshr[r].type # "READ_SH") /\ t = (mshr'[r].cohe_type = "REPLY_SH") /\ u = m.c2c_copy
        /\ \E k \in Abstract!AfterAnswer(Ordered(e, t, u), r) : RequestOf' = [RequestOf EXCEPT ![r] = k]
  BY <1>15 DEF AnswersAs, Reads
<1>16. PICK s \in BOOLEAN, d \in BOOLEAN : s = (mshr[r].cohe_type = "REPLY_SH") /\ d = mshr[r].c2c_copy
  BY DEF CInv, Types, MSHR
<1>17. RequestOf[r] = Ordered(e, s, d)
  <2>1. Reads(mshr[r].type, mshr[r].cohe_type, mshr[r].c2c_copy, e, s, d)
    BY <1>15a, <1>16 DEF Reads
  <2> QED BY <1>1, <2>1, ViewIs
<1>18. t = (s \/ (LineOf[o] # "INVALID" /\ ~e))
  <2>1. mshr'[r].cohe_type = Stronger(mshr[r].cohe_type, v)
    BY <1>13 DEF Answers, Reported
  <2>2. t = (mshr[r].cohe_type = "REPLY_SH" \/ v = "REPLY_SH")
    BY <1>15a, <2>1 DEF Stronger
  <2>3. (v = "REPLY_SH") <=> Keeps(r, o)
    BY <1>2 DEF AnswerOf
  <2>4. Keeps(r, o) <=> (LineOf[o] # "INVALID" /\ ~e)
    BY <1>15a DEF Keeps
  <2> QED BY <1>16, <2>2, <2>3, <2>4
<1>19. u = (d \/ LineOf[o] = "PR_DY")
  BY <1>1, <1>11, <1>15a, <1>16
<1>20. LineOf' = [LineOf EXCEPT ![o] = IF LineOf[o] # "INVALID" /\ ~e THEN "SH_CL" ELSE "INVALID"]
  <2>1. LeftOver(r, o) = IF LineOf[o] # "INVALID" /\ ~e THEN "SH_CL" ELSE "INVALID"
    BY <1>15a DEF LeftOver, Keeps
  <2> QED BY <1>1, <2>1
<1>21. o = <<c, r[2]>> /\ Popped(c, r) /\ r[1] # c /\ ~StalledByMSHR(c, r[2])
  BY <1>1
<1>22. CInv' /\ \E k \in Abstract!AfterAnswer(Ordered(e, t, u), r) : RequestOf' = [RequestOf EXCEPT ![r] = k]
  BY <1>15, <1>15a
<1>23. Abstract!Answer(c)
  BY <1>17, <1>18, <1>19, <1>20, <1>21, <1>22, AnswerIs
<1> QED BY <1>22, <1>23

-----------------------------------------------------------------------------
(* One MSHR: only a miss takes an MSHR, and it finds one free *)

InUse(M) == {r \in Request : M[r].valid}

\* Requests whose MSHRs change their fields are as many as before.
LEMMA FieldsChange ==
  ASSUME NEW M \in [Request -> MSHR], NEW r \in Request, NEW k \in MSHR, k.valid => M[r].valid
  PROVE  /\ [M EXCEPT ![r] = k] \in [Request -> MSHR]
         /\ InUse([M EXCEPT ![r] = k]) \subseteq InUse(M)
BY DEF InUse

\* The same for the MSHRs in the state that the completing handlers share.
LEMMA SharedFieldsChange ==
  ASSUME NEW S \in SharedState, NEW N \in [Request -> MSHR]
  PROVE  [S EXCEPT !.mshr = N] \in SharedState /\ [S EXCEPT !.mshr = N].mshr = N
BY DEF SharedState

\* MMC_send_reply and Cache_get_reply take no MSHR.
LEMMA ReplyTakesNone ==
  ASSUME NEW S \in SharedState, NEW r \in Request
  PROVE  /\ InUse(CacheGetReply(S, r).mshr) \subseteq InUse(S.mshr)
         /\ InUse(MMCSendReply(S, r).mshr) \subseteq InUse(S.mshr)
<1>1. S.mshr \in [Request -> MSHR]
  BY DEF SharedState
<1>2. \A q \in Request : Received(S.mshr, r)[q].valid = S.mshr[q].valid
  BY <1>1, ReceivedMSHRs DEF Waiting, Alike
<1>3. CacheGetReply(S, r).mshr = Received(S.mshr, r)
  BY GetsReply
<1>4. \A q \in Request : MMCSendReply(S, r).mshr[q].valid = S.mshr[q].valid
  <2>1. OthersWait(S, r, MMCSendReply(S, r))
    BY SendsReply
  <2> QED BY <2>1 DEF OthersWait, Waiting, Alike
<1> QED BY <1>2, <1>3, <1>4 DEF InUse

\* Neither does MMC_recv_cohe_response.
LEMMA ReportTakesNone ==
  ASSUME NEW S \in SharedState, NEW r \in Request, NEW v \in ReplyType
  PROVE  InUse(MMCRecvCoheResponse(S, r, v).mshr) \subseteq InUse(S.mshr)
<1> DEFINE m == [S.mshr[r] EXCEPT !.cohe_count = @ - 1, !.cohe_type = Stronger(@, v)]
           N == [S.mshr EXCEPT ![r] = m]
           T == [S EXCEPT !.mshr = N]
<1>1. S.mshr \in [Request -> MSHR] /\ S.mshr[r] \in MSHR
  BY DEF SharedState
<1>2. Stronger(S.mshr[r].cohe_type, v) \in ReplyType
  BY DEF Stronger, ReplyType
<1>3. m \in MSHR /\ m.valid = S.mshr[r].valid
  <2>1. PICK j \in Int, x \in ReplyType :
          j = S.mshr[r].cohe_count - 1 /\ x = Stronger(S.mshr[r].cohe_type, v)
    BY <1>1, <1>2 DEF MSHR
  <2>2. m = [[S.mshr[r] EXCEPT !.cohe_count = j] EXCEPT !.cohe_type = x]
    BY <1>1, <2>1 DEF MSHR
  <2> QED BY <1>1, <2>2 DEF MSHR
<1>4. MMCRecvCoheResponse(S, r, v) = IF LastReportCompletes(m) THEN MMCSendReply(T, r) ELSE T
  <2> HIDE DEF m
  <2>1. [S EXCEPT !.mshr[r] = m] = T
    OBVIOUS
  <2> QED BY <2>1 DEF MMCRecvCoheResponse, m
<1> HIDE DEF m
<1>5. N \in [Request -> MSHR] /\ InUse(N) \subseteq InUse(S.mshr)
  BY <1>1, <1>3, FieldsChange
<1> HIDE DEF N
<1>6. T \in SharedState /\ T.mshr = N
  BY <1>5, SharedFieldsChange
<1> HIDE DEF T
<1>7. InUse(MMCSendReply(T, r).mshr) \subseteq InUse(T.mshr)
  BY <1>6, ReplyTakesNone
<1> QED BY <1>4, <1>5, <1>6, <1>7

\* A free MSHR, an empty line and an idle interface are what they should be.
LEMMA FreeIsMSHR ==
  /\ FreeMSHR \in MSHR /\ ~FreeMSHR.valid /\ FreeMSHR.memtrans = "none"
  /\ EmptyLine \in TagEntry /\ EmptyLine.tag = None /\ EmptyLine.state = "INVALID"
  /\ IdleInterface \in Interface /\ IdleInterface.slot = None /\ IdleInterface.arbwaiters = <<>>
  /\ IdleInterface.pending_request = None /\ IdleInterface.cohe_reply = None
  /\ IdleBus \in BusRecord /\ IdleBus.winner = None /\ IdleBus.cur = None
<1>1. FreeMSHR \in MSHR /\ ~FreeMSHR.valid /\ FreeMSHR.memtrans = "none"
  BY DEF FreeMSHR, MSHR, RequestType, ReplyType, Op, Phase
<1>2. EmptyLine \in TagEntry /\ EmptyLine.tag = None /\ EmptyLine.state = "INVALID"
  BY DEF EmptyLine, TagEntry, LineState
<1>3. /\ IdleInterface \in Interface /\ IdleInterface.slot = None /\ IdleInterface.arbwaiters = <<>>
      /\ IdleInterface.pending_request = None /\ IdleInterface.cohe_reply = None
  BY DEF IdleInterface, Interface
<1>4. IdleBus \in BusRecord /\ IdleBus.winner = None /\ IdleBus.cur = None
  BY DEF IdleBus, BusRecord
<1> QED BY <1>1, <1>2, <1>3, <1>4

\* The handlers of one cache that change a field of an MSHR.
LEMMA CacheTakesNone ==
  ASSUME CInv, NEW c \in CPUs,
         \/ L2TagStep(c) /\ ~TagRequestMiss(c)
         \/ L2ReplyStep(c) \/ L2DataStep(c) \/ SnoopStallOnWriteBuffer(c) \/ SnoopStallOnMSHR(c)
         \/ RetryDataCohePending(c) \/ Arbitrate(c)
  PROVE  InUse(mshr') \subseteq InUse(mshr)
<1>1. mshr \in [Request -> MSHR]
  BY DEF CInv, Types
<1>2. \A r \in Request : mshr[r] \in MSHR
  BY <1>1
<1>3. CASE TagRequestStallWAR(c)
  BY <1>1, <1>2, <1>3 DEF TagRequestStallWAR, InUse, MSHR
<1>4. CASE TagRequestCoalesce(c)
  BY <1>1, <1>2, <1>4 DEF TagRequestCoalesce, InUse, MSHR
<1>5. CASE FlushPurge(c)
  BY <1>1, <1>2, <1>5 DEF FlushPurge, InUse, MSHR
<1>6. CASE TagReplyInstall(c)
  <2>1. mshr' = mshr \/ \E l \in {Head(replyq[c]).line}, w \in FillWays(c, mshr[<<c, Head(replyq[c]).line>>]) :
                           mshr' = [mshr EXCEPT ![<<c, l>>].way = w]
    BY <1>6 DEF TagReplyInstall
  <2>2. ASSUME NEW l, NEW w, mshr' = [mshr EXCEPT ![<<c, l>>].way = w]
        PROVE  \A r \in Request : mshr'[r].valid = mshr[r].valid
    BY <1>1, <1>2, <2>2 DEF MSHR
  <2> QED BY <2>1, <2>2 DEF InUse
<1>7. CASE TagReplyRelease(c)
  BY <1>1, <1>2, <1>7 DEF TagReplyRelease, InUse, MSHR
<1>8. CASE DataReply(c)
  BY <1>1, <1>2, <1>8, FreeIsMSHR DEF DataReply, InUse
<1>9. CASE SnoopStallOnMSHR(c)
  BY <1>1, <1>2, <1>9 DEF SnoopStallOnMSHR, MSHRTakesNote, InUse, MSHR
<1>10. CASE mshr' = mshr
  BY <1>10
<1>11. \/ mshr' = mshr \/ TagRequestStallWAR(c) \/ TagRequestCoalesce(c) \/ FlushPurge(c)
       \/ TagReplyInstall(c) \/ TagReplyRelease(c) \/ DataReply(c) \/ SnoopStallOnMSHR(c)
  BY DEF L2TagStep, L2ReplyStep, L2DataStep, TagRequestRetry, TagRequestHit, TagReplyWriteback,
         DataHit, DataCacheToCache, DataWriteback, SnoopStallOnWriteBuffer,
         RetryDataCohePending, Arbitrate
<1> QED BY <1>3, <1>4, <1>5, <1>6, <1>7, <1>8, <1>9, <1>10, <1>11

\* A state of the completing handlers that has no more MSHRs in use than now.
AddsNone(S) == S \in SharedState /\ InUse(S.mshr) \subseteq InUse(mshr)

\* One field of one MSHR changes before the handlers take over.
LEMMA AddsNoneAfter ==
  ASSUME NEW S, AddsNone(S), NEW r \in Request, NEW k \in MSHR, k.valid = S.mshr[r].valid
  PROVE  AddsNone([S EXCEPT !.mshr[r] = k])
<1> DEFINE N == [S.mshr EXCEPT ![r] = k]
<1>1. S.mshr \in [Request -> MSHR]
  BY DEF AddsNone, SharedState
<1>2. [S EXCEPT !.mshr[r] = k] = [S EXCEPT !.mshr = N]
  OBVIOUS
<1>3. N \in [Request -> MSHR] /\ InUse(N) \subseteq InUse(S.mshr)
  BY <1>1, FieldsChange
<1> HIDE DEF N
<1>4. [S EXCEPT !.mshr = N] \in SharedState /\ [S EXCEPT !.mshr = N].mshr = N
  BY <1>3, SharedFieldsChange DEF AddsNone
<1> QED BY <1>2, <1>3, <1>4 DEF AddsNone

\* The present state, with the bus free or not, is one to start from.
LEMMA SharedAddsNone ==
  ASSUME CInv
  PROVE  AddsNone(Shared) /\ AddsNone(Released) /\ Shared.mshr = mshr /\ Released.mshr = mshr
BY DEF CInv, Types, AddsNone, Shared, Released, SharedState, BusRecord, InUse

\* The handlers take no MSHR from there.
LEMMA HandlersTakeNone ==
  ASSUME NEW S, AddsNone(S), NEW r \in Request, NEW v \in ReplyType
  PROVE  /\ Becomes(S) \/ Becomes(CacheGetReply(S, r)) \/ Becomes(MMCSendReply(S, r))
              \/ Becomes(MMCRecvCoheResponse(S, r, v)) => InUse(mshr') \subseteq InUse(mshr)
BY ReplyTakesNone, ReportTakesNone DEF AddsNone, Becomes

\* A snoop that is answered.
LEMMA SnoopTakesNone ==
  ASSUME CInv, Abstract!IInv, NEW c \in CPUs, SnoopOwn(c) \/ SnoopAnswer(c)
  PROVE  InUse(mshr') \subseteq InUse(mshr)
<1>1. mshr \in [Request -> MSHR] /\ \A q \in Request : mshr[q] \in MSHR
  BY DEF CInv, Types
<1>2. CASE SnoopOwn(c)
  <2>1. PICK r : r = Head(coheq[c])
    OBVIOUS
  <2>2. r \in Request
    BY <1>2, <2>1, QueueTypes DEF CInv, Types, SnoopOwn, SnoopAtTag
  <2>3. CASE mshr' = [mshr EXCEPT ![r].issued = TRUE]
    BY <1>1, <2>2, <2>3 DEF InUse, MSHR
  <2>4. CASE mshr[r].pending_cohe = None
    <3> DEFINE k == [[mshr[r] EXCEPT !.issued = TRUE] EXCEPT !.pending_cohe = r]
               S == [Shared EXCEPT !.mshr[r] = k]
    <3>1. Becomes(MMCRecvCoheResponse(
                [Shared EXCEPT !.mshr[r].issued = TRUE, !.mshr[r].pending_cohe = r], r, "REPLY_EXCL"))
      BY <1>2, <2>1, <2>4 DEF SnoopOwn
    <3>2. [Shared EXCEPT !.mshr[r].issued = TRUE, !.mshr[r].pending_cohe = r] = S
      <4>1. [Shared EXCEPT !.mshr[r].issued = TRUE, !.mshr[r].pending_cohe = r]
              = [Shared EXCEPT !.mshr = [[Shared.mshr EXCEPT ![r].issued = TRUE]
                                                      EXCEPT ![r].pending_cohe = r]]
        BY SharedParts DEF SharedState, CInv
      <4> DEFINE N == [mshr EXCEPT ![r] = k]
      <4>2. [[mshr EXCEPT ![r].issued = TRUE] EXCEPT ![r].pending_cohe = r] = N
        BY <1>1, <2>2
      <4>3. Shared.mshr = mshr
        BY SharedAddsNone
      <4> HIDE DEF k
      <4>4. S = [Shared EXCEPT !.mshr = [Shared.mshr EXCEPT ![r] = k]]
        OBVIOUS
      <4> HIDE DEF S
      <4>5. S = [Shared EXCEPT !.mshr = N]
        BY <4>3, <4>4
      <4> HIDE DEF N
      <4> QED BY <4>1, <4>2, <4>3, <4>5
    <3>3. k \in MSHR /\ k.valid = mshr[r].valid
      <4>1. mshr[r] \in MSHR
        BY <1>1, <2>2
      <4> QED BY <2>2, <4>1 DEF MSHR
    <3>4. Becomes(MMCRecvCoheResponse(S, r, "REPLY_EXCL"))
      BY <3>1, <3>2
    <3> HIDE DEF k
    <3>5. AddsNone(S)
      BY <2>2, <3>3, SharedAddsNone, AddsNoneAfter
    <3> HIDE DEF S
    <3> QED BY <2>2, <3>4, <3>5, HandlersTakeNone DEF ReplyType
  <2> QED BY <1>2, <2>1, <2>3, <2>4 DEF SnoopOwn
<1>3. CASE SnoopAnswer(c)
  <2>1. PICK r \in Request, o \in Request, dirty \in BOOLEAN :
          /\ r[1] # c /\ o # r
          /\ Becomes(MMCRecvCoheResponse(Looked(c, r, dirty), r, AnswerOf(r, o)))
    BY <1>3, SnoopLooks
  <2>2. Looked(c, r, dirty) \in SharedState
        /\ \A q \in Request : Looked(c, r, dirty).mshr[q].valid = mshr[q].valid
    BY <2>1, LookIsShared DEF Waiting, Alike
  <2>3. AddsNone(Looked(c, r, dirty))
    BY <2>2 DEF AddsNone, InUse
  <2> QED BY <2>1, <2>3, HandlersTakeNone DEF AnswerOf, ReplyType
<1> QED BY <1>2, <1>3

\* The steps of the bus and of the memory controller.
LEMMA BusTakesNone ==
  ASSUME CInv, BusStep \/ \E r \in Request : MemDataReady(r)
  PROVE  InUse(mshr') \subseteq InUse(mshr)
<1>1. mshr \in [Request -> MSHR]
  BY DEF CInv, Types
<1>2. \A q \in Request : mshr[q] \in MSHR
  BY <1>1
<1>3. CASE Wakeup
  <2>1. mshr' = mshr \/ \E r : mshr' = [mshr EXCEPT ![r].phase = "out"]
    BY <1>3 DEF Wakeup
  <2> QED BY <1>1, <1>2, <2>1 DEF InUse, MSHR
<1>4. CASE PerformRequest
  <2>1. \E r, b, n, t : mshr' = [mshr EXCEPT ![r].c2c_copy = FALSE, ![r].data_rtn = b,
                                  ![r].cohe_count = n, ![r].cohe_type = "REPLY_EXCL",
                                  ![r].memtrans = t]
    BY <1>4 DEF PerformRequest
  <2> QED BY <1>1, <1>2, <2>1 DEF InUse, MSHR
<1>5. CASE PerformReply
  <2>1. PICK r \in Request : r = bus.cur.t.req
    BY <1>5, ReplyOnBus DEF PerformReply
  <2>2. PICK k \in MSHR : k = [mshr[r] EXCEPT !.data_done = TRUE] /\ k.valid = mshr[r].valid
    <3>1. mshr[r] \in MSHR
      BY <1>2
    <3> DEFINE k == [mshr[r] EXCEPT !.data_done = TRUE]
    <3>2. k \in MSHR /\ k.valid = mshr[r].valid
      BY <3>1 DEF MSHR
    <3> QED BY <3>2
  <2> DEFINE S == [Released EXCEPT !.mshr[r] = k]
  <2>3. AddsNone(S)
    BY <2>2, SharedAddsNone, AddsNoneAfter
  <2>4. Becomes(CacheGetReply(S, r))
    <3>1. [Released EXCEPT !.mshr[r].data_done = TRUE]
            = [Released EXCEPT !.mshr[r] = [Released.mshr[r] EXCEPT !.data_done = TRUE]]
      OBVIOUS
    <3>2. [Released EXCEPT !.mshr[r].data_done = TRUE] = S
      BY <2>2, <3>1, SharedAddsNone
    <3> QED BY <1>5, <2>1, <3>2 DEF PerformReply
  <2> HIDE DEF S
  <2> QED BY <2>3, <2>4, HandlersTakeNone DEF ReplyType
<1>6. CASE PerformCoheReply
  <2>1. PICK c \in CPUs, r \in Request : r = bus.cur.t.req /\ c = bus.cur.who
    BY <1>6, CopyOnBus DEF PerformCoheReply
  <2> DEFINE S == WithCopy(c, r)
             T == IF mshr[r].cohe_count = 0 THEN MMCSendReply(S, r) ELSE S
  <2>2. PICK q \in MemTransOf(r) : Becomes(Marked(T, q))
    <3>1. LET d == bus.cur.who
              o == bus.cur.t.req
          IN \E p \in MemTransOf(o) :
               Becomes(Marked(IF mshr[o].cohe_count = 0 THEN MMCSendReply(WithCopy(d, o), o)
                              ELSE WithCopy(d, o), p))
      BY <1>6 DEF PerformCoheReply, WithCopy, Marked
    <3> QED BY <2>1, <3>1
  <2>3. AddsNone(S)
    <3> DEFINE k == [[mshr[r] EXCEPT !.data_done = TRUE] EXCEPT !.c2c_copy = TRUE]
               U == [Released EXCEPT !.mshr[r] = k]
    <3>1. k \in MSHR /\ k.valid = mshr[r].valid
      <4>1. mshr[r] \in MSHR
        BY <1>2
      <4> QED BY <4>1 DEF MSHR
    <3> HIDE DEF k
    <3>2. AddsNone(U)
      BY <3>1, SharedAddsNone, AddsNoneAfter
    <3> DEFINE F == [U.sif EXCEPT ![c].cohe_reply = None]
    <3>3. WithCopy(c, r) = [U EXCEPT !.sif = F]
      <4>1. WithCopy(c, r) = [[[Released EXCEPT !.mshr[r].data_done = TRUE]
                                         EXCEPT !.mshr[r].c2c_copy = TRUE]
                                         EXCEPT !.sif[c].cohe_reply = None]
        BY DEF WithCopy
      <4>2. [[Released EXCEPT !.mshr[r].data_done = TRUE] EXCEPT !.mshr[r].c2c_copy = TRUE]
              = [Released EXCEPT !.mshr = [[Released.mshr EXCEPT ![r].data_done = TRUE]
                                                          EXCEPT ![r].c2c_copy = TRUE]]
        BY SharedAddsNone DEF AddsNone, SharedState
      <4> DEFINE N == [Released.mshr EXCEPT ![r] = k]
      <4>3. [[Released.mshr EXCEPT ![r].data_done = TRUE] EXCEPT ![r].c2c_copy = TRUE] = N
        BY <1>1, SharedAddsNone DEF k
      <4> HIDE DEF N
      <4>4. U = [Released EXCEPT !.mshr = N]
        BY DEF N
      <4> HIDE DEF U
      <4>5. [[Released EXCEPT !.mshr[r].data_done = TRUE] EXCEPT !.mshr[r].c2c_copy = TRUE] = U
        BY <4>2, <4>3, <4>4
      <4>6. WithCopy(c, r) = [U EXCEPT !.sif[c].cohe_reply = None]
        BY <4>1, <4>5
      <4> QED BY <4>6
    <3> HIDE DEF U
    <3>4. F \in [CPUs -> Interface]
      <4>1. U.sif \in [CPUs -> Interface] /\ U.sif[c] \in Interface
        BY <3>2 DEF AddsNone, SharedState
      <4>2. [U.sif[c] EXCEPT !.cohe_reply = None] \in Interface
        BY <4>1 DEF Interface
      <4> QED BY <4>1, <4>2
    <3> HIDE DEF F
    <3> QED BY <3>2, <3>3, <3>4 DEF AddsNone, SharedState
  <2> HIDE DEF S
  <2>4. /\ T.mshr \in [Request -> MSHR] /\ DOMAIN T = {"mshr", "sif", "replyq", "mmcq", "bus"}
        /\ InUse(T.mshr) \subseteq InUse(mshr)
    <3>1. S \in SharedState /\ InUse(S.mshr) \subseteq InUse(mshr)
      BY <2>3 DEF AddsNone
    <3>2. CASE mshr[r].cohe_count = 0
      <4>1. OthersWait(S, r, MMCSendReply(S, r))
        BY <3>1, SendsReply
      <4> QED BY <3>1, <3>2, <4>1, SentState, ReplyTakesNone DEF OthersWait
    <3>3. CASE mshr[r].cohe_count # 0
      BY <3>1, <3>3 DEF SharedState
    <3> QED BY <3>2, <3>3
  <2> HIDE DEF T
  <2>5. q \in Request \cup {None}
    BY <2>2 DEF MemTransOf
  <2>6. InUse(Marked(T, q).mshr) \subseteq InUse(T.mshr)
    <3>1. \A p \in Request : Marked(T, q).mshr[p].valid = T.mshr[p].valid
      <4>1. \A p \in Request : /\ p # q => Marked(T, q).mshr[p] = T.mshr[p]
                               /\ p = q => Marked(T, q).mshr[p] = [T.mshr[p] EXCEPT !.memtrans = "c2c"]
        BY <2>4, <2>5, MarksOne
      <4>2. \A p \in Request : T.mshr[p] \in MSHR
        BY <2>4
      <4> QED BY <4>1, <4>2 DEF MSHR
    <3> QED BY <3>1 DEF InUse
  <2> QED BY <2>2, <2>4, <2>6 DEF Becomes
<1>7. ASSUME NEW r \in Request, MemDataReady(r) PROVE InUse(mshr') \subseteq InUse(mshr)
  <2> DEFINE k == [[mshr[r] EXCEPT !.memtrans = "read"] EXCEPT !.data_rtn = TRUE]
             S == [Shared EXCEPT !.mshr[r] = k]
  <2>1. k \in MSHR /\ k.valid = mshr[r].valid
    <3>1. mshr[r] \in MSHR
      BY <1>2
    <3> QED BY <3>1 DEF MSHR
  <2>2. [Shared EXCEPT !.mshr[r].memtrans = "read", !.mshr[r].data_rtn = TRUE] = S
    <3>1. [Shared EXCEPT !.mshr[r].memtrans = "read", !.mshr[r].data_rtn = TRUE]
            = [Shared EXCEPT !.mshr = [[Shared.mshr EXCEPT ![r].memtrans = "read"]
                                                    EXCEPT ![r].data_rtn = TRUE]]
      BY SharedParts DEF SharedState, CInv
    <3> DEFINE N == [mshr EXCEPT ![r] = k]
    <3>2. [[mshr EXCEPT ![r].memtrans = "read"] EXCEPT ![r].data_rtn = TRUE] = N
      BY <1>1
    <3>3. Shared.mshr = mshr
      BY SharedAddsNone
    <3> HIDE DEF k
    <3>4. S = [Shared EXCEPT !.mshr = [Shared.mshr EXCEPT ![r] = k]]
      OBVIOUS
    <3> HIDE DEF S
    <3>5. S = [Shared EXCEPT !.mshr = N]
      BY <3>3, <3>4
    <3> HIDE DEF N
    <3> QED BY <3>1, <3>2, <3>3, <3>5
  <2>3. Becomes(S) \/ Becomes(MMCSendReply(S, r))
    BY <1>7, <2>2 DEF MemDataReady
  <2> HIDE DEF k
  <2>4. AddsNone(S)
    BY <2>1, SharedAddsNone, AddsNoneAfter
  <2> HIDE DEF S
  <2> QED BY <2>3, <2>4, HandlersTakeNone DEF ReplyType
<1>8. CASE mshr' = mshr
  BY <1>8
<1> QED BY <1>3, <1>4, <1>5, <1>6, <1>7, <1>8
        DEF BusStep, ArbitrateMMC, MMCStart, PerformWriteback

\* With one MSHR to a cache no cache ever has two in use.
LEMMA OneMSHRIsKept ==
  ASSUME MSHRS = 1, CInv, Abstract!IInv, OneMSHR, Next
  PROVE  OneMSHR'
<1>1. CASE InUse(mshr') \subseteq InUse(mshr)
  BY <1>1 DEF InUse, OneMSHR
<1>2. ASSUME NEW c \in CPUs, TagRequestMiss(c) PROVE OneMSHR'
  <2>1. PICK l \in Lines : l = Head(reqq[c]).line
    <3>1. Head(reqq[c]) \in InputItem
      BY <1>2, QueueTypes DEF TagRequestMiss, RequestAtTag, CInv, Types
    <3> QED BY <3>1 DEF InputItem
  <2> DEFINE Busy == {k \in Lines : mshr[<<c, k>>].valid}
  <2>2. Cardinality(Busy) < 1 /\ \E m : mshr' = [mshr EXCEPT ![<<c, l>>] = m]
    BY <1>2, <2>1 DEF TagRequestMiss
  <2>3. IsFiniteSet(Busy)
    BY Names, ConstantsAssumption, FS_Subset
  <2>4. Cardinality(Busy) \in Nat
    BY <2>3, FS_CardinalityType
  <2>5. Busy = {}
    <3> HIDE DEF Busy
    <3> QED BY <2>2, <2>3, <2>4, FS_EmptySet
  <2>6. \A q \in Request : q[1] = c => ~mshr[q].valid
    BY <2>5, Names
  <2>7. \A q \in Request : q # <<c, l>> => mshr'[q] = mshr[q]
    BY <2>2 DEF CInv, Types
  <2>8. SUFFICES ASSUME NEW q \in Request, NEW r \in Request, mshr'[q].valid, mshr'[r].valid,
                        q[1] = r[1]
                 PROVE  q = r
    BY DEF OneMSHR
  <2>9. CASE q[1] = c
    BY <2>6, <2>7, <2>8, <2>9
  <2>10. CASE q[1] # c
    <3>1. q # <<c, l>> /\ r # <<c, l>>
      BY <2>8, <2>10
    <3> QED BY <2>7, <2>8, <3>1 DEF OneMSHR
  <2> QED BY <2>9, <2>10
<1>3. CASE \E c \in CPUs, op \in Op \cup {None}, l \in Lines : L1DCacheWBufferSim(c, op, l)
  <2>1. mshr' = mshr
    BY <1>3 DEF L1DCacheWBufferSim
  <2> QED BY <1>1, <2>1
<1>4. ASSUME NEW c \in CPUs, ~TagRequestMiss(c),
             \/ L2TagStep(c) \/ L2ReplyStep(c) \/ L2DataStep(c) \/ L2SnoopStep(c)
             \/ RetryDataCohePending(c) \/ Arbitrate(c)
      PROVE  OneMSHR'
  <2>1. CASE SnoopOwn(c) \/ SnoopAnswer(c)
    BY <1>1, <2>1, SnoopTakesNone
  <2>2. CASE ~(SnoopOwn(c) \/ SnoopAnswer(c))
    <3>1. \/ L2TagStep(c) /\ ~TagRequestMiss(c)
          \/ L2ReplyStep(c) \/ L2DataStep(c) \/ SnoopStallOnWriteBuffer(c) \/ SnoopStallOnMSHR(c)
          \/ RetryDataCohePending(c) \/ Arbitrate(c)
      BY <1>4, <2>2 DEF L2SnoopStep
    <3> QED BY <1>1, <3>1, CacheTakesNone
  <2> QED BY <2>1, <2>2
<1>5. CASE BusStep \/ \E r \in Request : MemDataReady(r)
  BY <1>1, <1>5, BusTakesNone
<1> QED BY <1>2, <1>3, <1>4, <1>5 DEF Next

-----------------------------------------------------------------------------
(* Every step, and the theorems *)

\* A stutter.
LEMMA NothingHappens ==
  ASSUME CInv, UNCHANGED vars
  PROVE  CInv' /\ Stutters
<1>1. /\ UNCHANGED <<wbuf, reqq, tags, mshr, coheq, replyq, dpipe, dcp>>
      /\ UNCHANGED <<sif, mmcq, bus>>
  BY DEF vars
<1>2. Types /\ TagsAreExact /\ PipesAreOrderly /\ RepliesAreOrderly /\ InterfacesAreOrderly
  BY DEF CInv
<1>3. Types'
  BY <1>1, <1>2 DEF Types
<1>4. \A r \in Request : SameMSHR(r)
  BY <1>1 DEF SameMSHR
<1> QED BY <1>1, <1>2, <1>3, <1>4, QuietStep, SameTags, SamePipes, SameInterfaces, SameTransfers DEF CInv

\* The steps of one cache.
LEMMA CacheSteps ==
  ASSUME CInv, Abstract!IInv, NEW c \in CPUs,
         TagReplyInstall(c) \/ DataReply(c) => LockedWaysStay \/ OneMSHR,
         \/ L2TagStep(c) \/ L2ReplyStep(c) \/ L2DataStep(c) \/ L2SnoopStep(c)
         \/ RetryDataCohePending(c) \/ Arbitrate(c)
  PROVE  CInv' /\ (Stutters \/ Abstract!Next)
<1>1. CASE L2TagStep(c)
  <2>1. CASE TagRequestHit(c)
    BY <2>1, HitWrites DEF Abstract!Next, Abstract!Request, Request
  <2>2. CASE FlushPurge(c)
    BY <2>2, QuietFlush, FlushGivesUp DEF Abstract!Next
  <2> QED BY <1>1, <2>1, <2>2, QuietRetry, QuietMiss, QuietStallWAR, QuietCoalesce DEF L2TagStep
<1>2. CASE L2ReplyStep(c)
  <2>1. CASE TagReplyInstall(c)
    BY <2>1, LineIsInstalled DEF Abstract!Next, Abstract!Request, Request
  <2> QED BY <1>2, <2>1, QuietReplyWriteback, QuietRelease DEF L2ReplyStep
<1>3. CASE L2DataStep(c)
  <2>1. CASE DataReply(c)
    BY <2>1, LineIsReleased DEF Abstract!Next, Abstract!Request, Request
  <2> QED BY <1>3, <2>1, QuietHit, QuietCopy, QuietWriteback DEF L2DataStep
<1>4. CASE L2SnoopStep(c)
  <2>1. CASE SnoopOwn(c)
    <3>1. CASE mshr[Head(coheq[c])].pending_cohe # None
      BY <2>1, <3>1, QuietOwn
    <3>2. CASE mshr[Head(coheq[c])].pending_cohe = None
      BY <2>1, <3>2, OwnPasses DEF Abstract!Next
    <3> QED BY <3>1, <3>2
  <2>2. CASE SnoopAnswer(c)
    BY <2>2, SnoopAnswers DEF Abstract!Next
  <2> QED BY <1>4, <2>1, <2>2, QuietWriteBufferStall, QuietSnoopStall DEF L2SnoopStep
<1> QED BY <1>1, <1>2, <1>3, <1>4, QuietRetryCopy, QuietArbitrate

\* The steps of the bus.
LEMMA BusSteps ==
  ASSUME CInv, BusStep
  PROVE  CInv' /\ (Stutters \/ Abstract!Next)
<1>1. CASE PerformRequest
  BY <1>1, RequestIsPlaced DEF Abstract!Next, Abstract!Request, Request
<1>2. CASE PerformCoheReply
  BY <1>2, CopyArrives DEF Abstract!Next, Abstract!Request, Request
<1> QED BY <1>1, <1>2, QuietArbitrateMMC, QuietMMCStart, QuietWakeup, QuietReply, QuietPerformWriteback
        DEF BusStep

\* The caches agree, as the invariants of the two levels say.
Coherent == CInv /\ Abstract!IInv

\* The two steps that may take a way from a line that an UPGRADE has locked: the
\* reply of a present miss refills the way the miss left, and a flush or purge
\* that merged with a request empties the way the request filled.
RefillsLockedWay(c) ==
  /\ TagReplyInstall(c) /\ ~LockedWaysStay
  /\ mshr[<<c, Head(replyq[c]).line>>].misscache = 1
EmptiesLockedWay(c) ==
  /\ DataReply(c) /\ ~LockedWaysStay
  /\ mshr[<<c, Head(dpipe[c]).line>>].pend_opers # None

\* The other replies leave the locked lines alone.
LEMMA LocksAreKept ==
  ASSUME CInv, NEW c \in CPUs, ~RefillsLockedWay(c), ~EmptiesLockedWay(c),
         TagReplyInstall(c) \/ DataReply(c)
  PROVE  LockedWaysStay
<1>1. tags \in [CPUs -> [Ways -> TagEntry]]
  BY DEF CInv, Types
<1>2. CASE TagReplyInstall(c)
  <2>1. PICK l : l = Head(replyq[c]).line
    OBVIOUS
  <2>2. CASE mshr[<<c, l>>].misscache = 1
    BY <1>2, <2>1, <2>2 DEF RefillsLockedWay
  <2>3. CASE mshr[<<c, l>>].misscache = 0
    <3>1. PICK w : tags' = [tags EXCEPT ![c][w].state = "PR_DY", ![c][w].mshr_out = FALSE]
      BY <1>2, <2>1, <2>3 DEF TagReplyInstall
    <3> QED BY <1>1, <3>1 DEF LockedWaysStay, TagEntry
  <2>4. CASE mshr[<<c, l>>].misscache \notin {0, 1}
    <3> DEFINE s == InstalledState(mshr[<<c, l>>])
    <3>1. PICK w \in Victims(c) : tags' = [tags EXCEPT ![c][w].tag = l, ![c][w].state = s]
      BY <1>2, <2>1, <2>4 DEF TagReplyInstall, FillWays
    <3>2. w \in Ways /\ ~tags[c][w].mshr_out
      BY <3>1 DEF Victims, Unlocked
    <3> HIDE DEF s
    <3> QED BY <1>1, <3>1, <3>2 DEF LockedWaysStay, TagEntry
  <2> QED BY <2>2, <2>3, <2>4
<1>3. CASE DataReply(c)
  <2>1. PICK l : l = Head(dpipe[c]).line
    OBVIOUS
  <2>2. CASE mshr[<<c, l>>].pend_opers # None
    BY <1>3, <2>1, <2>2 DEF EmptiesLockedWay
  <2>3. CASE mshr[<<c, l>>].pend_opers = None
    BY <1>3, <2>1, <2>3 DEF DataReply, LockedWaysStay
  <2> QED BY <2>2, <2>3
<1> QED BY <1>2, <1>3

\* A step keeps the invariants and is one of Snooping's, or changes nothing
\* there; the replies that take a locked way do it only with one MSHR.
LEMMA EveryStep ==
  ASSUME Coherent, [Next]_vars,
         OneMSHR \/ \A c \in CPUs : ~RefillsLockedWay(c) /\ ~EmptiesLockedWay(c)
  PROVE  Coherent' /\ [Abstract!Next]_(Abstract!vars)
<1>1. SUFFICES CInv' /\ (Stutters \/ Abstract!Next)
  <2>1. ASSUME CInv', Stutters \/ Abstract!Next PROVE [Abstract!Next]_(Abstract!vars)
    BY <2>1 DEF Stutters, Abstract!vars
  <2> QED BY <2>1, Abstract!NextKeeps DEF Coherent
<1>2. CASE UNCHANGED vars
  BY <1>2, NothingHappens DEF Coherent
<1>3. CASE Next
  <2>1. CASE \E c \in CPUs, op \in Op \cup {None}, l \in Lines : L1DCacheWBufferSim(c, op, l)
    BY <2>1, QuietWriteBuffer DEF Coherent
  <2>2. CASE \E c \in CPUs : \/ L2TagStep(c) \/ L2ReplyStep(c) \/ L2DataStep(c) \/ L2SnoopStep(c)
                             \/ RetryDataCohePending(c) \/ Arbitrate(c)
    BY <2>2, LocksAreKept, CacheSteps DEF Coherent
  <2>3. CASE BusStep
    BY <2>3, BusSteps DEF Coherent
  <2>4. CASE \E r \in Request : MemDataReady(r)
    BY <2>4, DataAreReady DEF Coherent, Abstract!Next, Abstract!Request, Request
  <2> QED BY <1>3, <2>1, <2>2, <2>3, <2>4 DEF Next
<1> QED BY <1>2, <1>3

\* At the start nothing is anywhere.
LEMMA InitIsSound ==
  ASSUME Init
  PROVE  CInv /\ Abstract!Init
<1>1. /\ tags = [c \in CPUs |-> [w \in Ways |-> EmptyLine]] /\ mshr = [r \in Request |-> FreeMSHR]
      /\ wbuf = [c \in CPUs |-> <<>>] /\ reqq = [c \in CPUs |-> <<>>] /\ coheq = [c \in CPUs |-> <<>>]
      /\ replyq = [c \in CPUs |-> <<>>] /\ dpipe = [c \in CPUs |-> <<>>] /\ dcp = [c \in CPUs |-> None]
      /\ sif = [c \in CPUs |-> IdleInterface] /\ mmcq = <<>> /\ bus = IdleBus
  BY DEF Init
<1>2. Types
  BY <1>1, FreeIsMSHR DEF Types, BusRecord
<1>3. \A c \in CPUs, w \in Ways : tags[c][w].tag = None /\ tags[c][w].state = "INVALID"
  BY <1>1, FreeIsMSHR
<1>4. TagsAreExact
  BY <1>3 DEF TagsAreExact
<1>5. InterfacesAreOrderly
  <2>1. Once(IdleInterface)
    <3>1. \A t \in Items : t # None
      BY Transactions
    <3> QED BY <3>1, FreeIsMSHR DEF Once, Among
  <2> QED BY <1>1, <2>1 DEF InterfacesAreOrderly
<1>6. PipesAreOrderly /\ RepliesAreOrderly
  BY <1>1 DEF PipesAreOrderly, SingleItems, FillItems, CopyItems, RepliesAreOrderly, OneEach
<1>7. \A r \in Request : ~mshr[r].valid /\ mshr[r].memtrans = "none" /\ Stage(r) = "idle"
  BY <1>1, FreeIsMSHR DEF Stage
<1>8. \A m \in Masters, t \in Items : ~At(m, t)
  <2>1. SUFFICES ASSUME NEW m \in Masters, NEW t \in Items, At(m, t) PROVE FALSE
    OBVIOUS
  <2>2. [who |-> m, t |-> t] # None /\ t # None
    BY Transactions
  <2>3. ~Won(m, t) /\ ~Runs(m, t)
    BY <1>1, <2>2, FreeIsMSHR DEF Won, Runs
  <2>4. Waits(m, t)
    BY <2>1, <2>3 DEF At
  <2>5. CASE m = MMC
    BY <1>1, <2>4, <2>5 DEF Waits, Among
  <2>6. CASE m \in CPUs
    <3>1. m # MMC
      BY <2>6, Names
    <3>2. sif[m].slot = None /\ sif[m].arbwaiters = <<>>
      BY <1>1, <2>6, FreeIsMSHR
    <3> QED BY <2>2, <2>4, <3>1, <3>2 DEF Waits, Has, Among
  <2> QED BY <2>5, <2>6 DEF Masters
<1>9. ASSUME NEW r \in Request PROVE WayIsKnown(r) /\ RequestIsSound(r)
  <2>1. ~mshr[r].valid /\ mshr[r].memtrans = "none" /\ Stage(r) = "idle"
    BY <1>7
  <2>2. \A m \in Masters, t \in TokensOf(r) : ~At(m, t)
    BY <1>8, Transactions DEF TokensOf
  <2>3. WayIsKnown(r) /\ WritesAreExclusive(r) /\ CountIsExact(r) /\ IssuedIsSeen(r) /\ ReadIsOpen(r)
    BY <2>1 DEF WayIsKnown, WritesAreExclusive, CountIsExact, IssuedIsSeen, ReadIsOpen
  <2>4. SentOnce(r) /\ ReplyGoesOnce(r)
    BY <2>2 DEF SentOnce, ReplyGoesOnce, At, TokensOf
  <2>5. RequestGoesOnce(r)
    <3>1. \A m \in Masters : ~Pending(m, r)
      <4>1. \A m \in CPUs : sif[m].pending_request = None
        BY <1>1, FreeIsMSHR
      <4> QED BY <4>1, Names DEF Pending
    <3> QED BY <2>2, <3>1 DEF RequestGoesOnce, TokensOf
  <2>6. LineFillsOnce(r)
    <3>1. r[1] \in CPUs
      BY Names
    <3> QED BY <1>1, <3>1 DEF LineFillsOnce, InReplyq, Leaving, Among
  <2>7. CopyGoesOnce(r)
    <3>1. \A c \in CPUs : ~Holds(c, r)
      <4>1. \A c \in CPUs : sif[c].cohe_reply = None /\ dcp[c] = None /\ dpipe[c] = <<>>
        BY <1>1, FreeIsMSHR
      <4> QED BY <4>1, Names DEF Holds, InPipe, SetAside, AtTheBus, Among
    <3> QED BY <2>2, <3>1 DEF CopyGoesOnce, Holds, TokensOf
  <2> QED BY <2>3, <2>4, <2>5, <2>6, <2>7 DEF RequestIsSound
<1>10. LineOf = [r \in Request |-> "INVALID"]
  <2>1. \A r \in Request : StateOf(r[1], r[2]) = "INVALID"
    <3>1. SUFFICES ASSUME NEW c \in CPUs, NEW l \in Lines PROVE StateOf(c, l) = "INVALID"
      BY Names
    <3>2. WaysOf(c, l) = {}
      BY <1>3, Names DEF WaysOf
    <3> QED BY <3>2 DEF StateOf, CacheSearch
  <2> QED BY <2>1 DEF LineOf
<1>11. RequestOf = [r \in Request |-> Abstract!Idle]
  <2>1. \A r \in Request : mshr[r].cohe_type \in ReplyType /\ Stage(r) = "idle"
    BY <1>2, <1>7 DEF Types, MSHR
  <2> QED BY <2>1 DEF RequestOf, Abstract!Idle
<1>12. Abstract!Init
  BY <1>1, <1>10, <1>11 DEF Abstract!Init, Abstract!Request, Request
<1> QED BY <1>2, <1>4, <1>5, <1>6, <1>9, <1>12 DEF CInv

\* The caches start coherent and stay so, whatever the number of caches, lines,
\* ways, MSHRs and buffers, and each step is one of Snooping's or changes nothing
\* there, until a reply takes a way that an UPGRADE has locked: nothing else in
\* the caches, on the bus or in the MMC makes two caches disagree.
THEOREM CoherenceIsKept ==
  Spec => /\ Coherent
          /\ [][Coherent => \/ Coherent' /\ [Abstract!Next]_(Abstract!vars)
                            \/ \E c \in CPUs : RefillsLockedWay(c) \/ EmptiesLockedWay(c)]_vars
<1>1. Init => Coherent
  BY InitIsSound, Abstract!InitHolds DEF Coherent
<1>2. [Next]_vars =>
        [Coherent => \/ Coherent' /\ [Abstract!Next]_(Abstract!vars)
                     \/ \E c \in CPUs : RefillsLockedWay(c) \/ EmptiesLockedWay(c)]_vars
  BY EveryStep
<1> QED BY <1>1, <1>2, PTL DEF Spec

\* With one MSHR to a cache the promise holds for good: a cache that has a line
\* locked has no other request whose reply could take its way.
LEMMA OneMSHRIsCoherent ==
  ASSUME MSHRS = 1
  PROVE  Spec => [](Coherent /\ OneMSHR) /\ [][Abstract!Next]_(Abstract!vars)
<1>1. Init => Coherent /\ OneMSHR
  <2>1. Init => \A r \in Request : ~mshr[r].valid
    BY FreeIsMSHR DEF Init
  <2> QED BY <2>1, InitIsSound, Abstract!InitHolds DEF Coherent, OneMSHR
<1>2. Coherent /\ OneMSHR /\ [Next]_vars
        => Coherent' /\ OneMSHR' /\ [Abstract!Next]_(Abstract!vars)
  <2> SUFFICES ASSUME Coherent, OneMSHR, [Next]_vars
               PROVE  Coherent' /\ OneMSHR' /\ [Abstract!Next]_(Abstract!vars)
    OBVIOUS
  <2>1. OneMSHR'
    <3>1. CASE UNCHANGED vars
      BY <3>1 DEF vars, OneMSHR
    <3>2. CASE Next
      BY <3>2, OneMSHRIsKept DEF Coherent
    <3> QED BY <3>1, <3>2
  <2> QED BY <2>1, EveryStep
<1> QED BY <1>1, <1>2, PTL DEF Spec

\* The caches, the bus and the MMC implement Snooping: every step is one of its
\* steps or changes nothing there.
THEOREM SnoopingIsImplemented ==
  ASSUME MSHRS = 1
  PROVE  Spec => ImplementsSnooping
<1>1. Init => Abstract!Init
  BY InitIsSound
<1>2. Abstract!Init <=> Promise!Init
  BY DEF Abstract!Init, Promise!Init, Abstract!Request, Promise!Request, Abstract!Idle, Promise!Idle
<1>3. [Abstract!Next]_(Abstract!vars) <=> [Promise!Next]_(Promise!vars)
  <2>1. Abstract!Request = Promise!Request /\ Abstract!Private = Promise!Private
        /\ Abstract!Idle = Promise!Idle
    BY DEF Abstract!Request, Promise!Request, Abstract!Private, Promise!Private, Abstract!Idle, Promise!Idle
  <2>2. \A r \in Request : /\ Abstract!Place(r) <=> Promise!Place(r)
                           /\ Abstract!Complete(r) <=> Promise!Complete(r)
    BY <2>1 DEF Abstract!Place, Promise!Place, Abstract!Complete, Promise!Complete,
                Abstract!Active, Promise!Active, Abstract!In, Promise!In, Abstract!Completed, Promise!Completed
  <2>3. \A r \in Request : /\ Abstract!Install(r) <=> Promise!Install(r)
                           /\ Abstract!Release(r) <=> Promise!Release(r)
                           /\ Abstract!Write(r) <=> Promise!Write(r)
    BY <2>1 DEF Abstract!Install, Promise!Install, Abstract!Release, Promise!Release,
                Abstract!Write, Promise!Write, Abstract!Without, Promise!Without
  <2>4. \A c \in CPUs : /\ Abstract!PassOwn(c) <=> Promise!PassOwn(c)
                        /\ Abstract!Answer(c) <=> Promise!Answer(c)
                        /\ Abstract!Flush(c) <=> Promise!Flush(c)
    BY <2>1 DEF Abstract!PassOwn, Promise!PassOwn, Abstract!Answer, Promise!Answer,
                Abstract!Flush, Promise!Flush, Abstract!AfterAnswer, Promise!AfterAnswer,
                Abstract!Completed, Promise!Completed, Abstract!HoldsBack, Promise!HoldsBack,
                Abstract!Active, Promise!Active, Abstract!In, Promise!In,
                Abstract!Without, Promise!Without
  <2>5. Promise!Request = Request /\ Abstract!Request = Request
    BY DEF Promise!Request, Abstract!Request, Request
  <2>6. Abstract!Next <=> Promise!Next
    BY <2>2, <2>3, <2>4, <2>5 DEF Abstract!Next, Promise!Next
  <2> QED BY <2>6 DEF Abstract!vars, Promise!vars
<1> QED BY <1>1, <1>2, <1>3, OneMSHRIsCoherent, PTL DEF ImplementsSnooping, Promise!Spec, Spec

\* A line private in one L2 is valid in no other, as long as the caches are
\* coherent (L2ProcessTagCohe, L2ProcessTagReply, L2Cache_check_mshr).
THEOREM CoherentWritersAreAlone == Coherent => SingleWriter
<1>1. Abstract!IInv => SingleWriter
  <2>1. SUFFICES ASSUME Abstract!IInv, NEW c \in CPUs, NEW d \in CPUs, NEW l \in Lines,
                        c # d, StateOf(c, l) \in {"PR_CL", "PR_DY"}
                 PROVE  StateOf(d, l) = "INVALID"
    BY DEF SingleWriter
  <2>2. PICK r \in Request, q \in Request : r = <<c, l>> /\ q = <<d, l>>
    BY Names
  <2>3. /\ r[1] # q[1] /\ r[2] = q[2] /\ LineOf[r] = StateOf(c, l) /\ LineOf[q] = StateOf(d, l)
    <3>1. /\ r[1] = c /\ r[2] = l /\ q[1] = d /\ q[2] = l
      BY <2>2, Names
    <3> QED BY <2>1, <3>1 DEF LineOf
  <2>4. r \in Abstract!Request /\ q \in Abstract!Request /\ LineOf[r] \in Abstract!Private
    BY <2>1, <2>3 DEF Abstract!Request, Request, Abstract!Private
  <2>5. LineOf[q] = "INVALID"
    BY <2>1, <2>3, <2>4 DEF Abstract!IInv, Abstract!OneOwner
  <2> QED BY <2>3, <2>5
<1> QED BY <1>1 DEF Coherent

\* The same with one MSHR to a cache, whatever happens.
THEOREM WritersAreAlone ==
  ASSUME MSHRS = 1
  PROVE  Spec => []SingleWriter
BY OneMSHRIsCoherent, CoherentWritersAreAlone, PTL

\* Coherent caches never have a completed request for the same line at once: a
\* cache that has its line in its MSHR holds the others' requests back
\* (L2ProcessTagCohe, Cache_get_reply).
THEOREM CoherentFillsAreAlone == Coherent => OneFillPerLine
<1>1. CInv /\ Abstract!IInv => OneFillPerLine
  <2>1. SUFFICES ASSUME CInv, Abstract!IInv, NEW l \in Lines
                 PROVE  Cardinality({c \in CPUs : mshr[<<c, l>>].valid /\ mshr[<<c, l>>].phase = "done"}) <= 1
    BY DEF OneFillPerLine
  <2> DEFINE F == {c \in CPUs : mshr[<<c, l>>].valid /\ mshr[<<c, l>>].phase = "done"}
  <2>2. ASSUME NEW r \in Request, mshr[r].valid, mshr[r].phase = "done"
        PROVE  Stage(r) \in {"answered", "filled"}
    <3>1. WritesAreExclusive(r)
      BY <2>1 DEF CInv, RequestIsSound
    <3> QED BY <2>2, <3>1 DEF WritesAreExclusive, Stage
  <2>3. ASSUME NEW c \in F, NEW d \in F, c # d PROVE FALSE
    <3>1. PICK r \in Request, q \in Request : /\ r = <<c, l>> /\ q = <<d, l>> /\ r[1] = c /\ q[1] = d
                                              /\ r[2] = l /\ q[2] = l
      BY Names
    <3>2. /\ RequestOf[r].stage \in {"answered", "filled"}
          /\ RequestOf[q].stage \in {"answered", "filled"}
      BY <2>2, <3>1 DEF RequestOf
    <3>3. Abstract!OneGrant
      BY <2>1, Abstract!InvariantSays
    <3>4. r \in Abstract!Request /\ q \in Abstract!Request
      BY DEF Abstract!Request, Request
    <3> QED BY <2>3, <3>1, <3>2, <3>3, <3>4 DEF Abstract!OneGrant
  <2>4. F = {} \/ \E c \in F : F = {c}
    <3> HIDE DEF F
    <3> QED BY <2>3
  <2>5. Cardinality(F) = 0 \/ Cardinality(F) = 1
    BY <2>4, FS_EmptySet, FS_Singleton
  <2> QED BY <2>5
<1> QED BY <1>1 DEF Coherent

\* The same with one MSHR to a cache, whatever happens.
THEOREM FillsAreAlone ==
  ASSUME MSHRS = 1
  PROVE  Spec => []OneFillPerLine
BY OneMSHRIsCoherent, CoherentFillsAreAlone, PTL
=============================================================================
