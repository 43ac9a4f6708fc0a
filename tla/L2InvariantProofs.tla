-------------------------- MODULE L2InvariantProofs --------------------------
(***************************************************************************)
(* What the L2 caches, the bus and the memory controller know of each      *)
(* other, as the invariant CInv, and the steps of one cache that keep it:  *)
(* the tag, data and reply stages, the arbitration for the bus and the     *)
(* write-backs.  L2CoherenceProofs goes on with the bus, the memory        *)
(* controller and the snoops, and ends with the theorems.                  *)
(*                                                                         *)
(* The refinement mapping is that of L2Coherence: the state of a line is   *)
(* what Cache_search finds, the queues are the snoop queues, and a request *)
(* is the part of its MSHR that the other caches depend on (RequestOf).    *)
(* A step of the caches is a step of Snooping only if what the controllers *)
(* keep about each other agrees, which is what the invariant CInv says:    *)
(*   - a line has one way, and the MSHR of a line knows which              *)
(*     (TagsAreExact, WayIsKnown);                                         *)
(*   - the request, the reply and the copy of an MSHR are each in one      *)
(*     place between cache, bus and memory controller, and only while the  *)
(*     MSHR is in the phase for it (RequestGoesOnce, ReplyGoesOnce,        *)
(*     CopyGoesOnce, LineFillsOnce, SentOnce);                             *)
(*   - the MMC counts just the caches that have the request in their snoop *)
(*     queue (CountIsExact), and a cache whose MSHR is not marked issued   *)
(*     has its own request still in the queue (IssuedIsSeen);              *)
(*   - a request that writes is exclusive (WritesAreExclusive).            *)
(***************************************************************************)
EXTENDS L2Coherence, FiniteSetTheorems, TLAPS

Abstract == INSTANCE SnoopingProofs WITH line <- LineOf, queue <- coheq, req <- RequestOf

-----------------------------------------------------------------------------
(* Types *)

RequestType == {"READ_SH", "READ_OWN", "UPGRADE"}
ReplyType   == {"REPLY_SH", "REPLY_EXCL"}
MSHR ==
  [valid : BOOLEAN, main : Op, coal : Seq(Op), type : RequestType \cup ReplyType,
   misscache : 0 .. 2, way : Ways \cup {None}, has_writes : BOOLEAN, stall_WAR : BOOLEAN,
   pend_opers : Op \cup {None}, pending_cohe : Request \cup {None},
   releasing : BOOLEAN, issued : BOOLEAN, phase : Phase, cohe_count : Int,
   cohe_type : ReplyType, c2c_copy : BOOLEAN, data_rtn : BOOLEAN,
   data_done : BOOLEAN, memtrans : {"none", "reading", "read", "c2c"}]
Interface ==
  [reqbuffer : SUBSET Request, pending_request : Request \cup {None}, outbuffer : Seq(Lines),
   pending_writeback : Lines \cup {None}, cohe_reply : Request \cup {None},
   slot : Items \cup {None}, arbwaiters : Seq(Items),
   stall_request : Int, stall_reply : Int, stall_cohe : Int]
TagEntry  == [tag : Lines \cup {None}, state : LineState, mshr_out : BOOLEAN]
InputItem == [op : Op, line : Lines, todo : {"tag", "HIT", "WB"}]
ReplyItem == [line : Lines, todo : Lines \cup {"install", "reply"}]
PipeItem  == [kind : {"HIT", "REPLY", "C2C", "WB"}, line : Lines, to : CPUs \cup {None}]
Masters   == CPUs \cup {MMC}

Types ==
  /\ wbuf \in [CPUs -> Seq([line : Lines, pend : BOOLEAN])]
  /\ reqq \in [CPUs -> Seq(InputItem)]
  /\ tags \in [CPUs -> [Ways -> TagEntry]]
  /\ mshr \in [Request -> MSHR]
  /\ coheq \in [CPUs -> Seq(Request)]
  /\ replyq \in [CPUs -> Seq(ReplyItem)]
  /\ dpipe \in [CPUs -> Seq(PipeItem)]
  /\ dcp \in [CPUs -> Request \cup {None}]
  /\ sif \in [CPUs -> Interface]
  /\ mmcq \in Seq(Request)
  /\ bus \in [winner : Grants \cup {None}, cur : Grants \cup {None}, req_count : Int,
              mmc_master : BOOLEAN]

-----------------------------------------------------------------------------
(* The invariant, in parts: the containers, and what holds of each request *)

\* A line has one way.
TagsAreExact ==
  /\ \A c \in CPUs, w, v \in Ways :
       tags[c][w].tag = tags[c][v].tag /\ tags[c][w].tag # None => w = v
  /\ \A c \in CPUs, w \in Ways : tags[c][w].state # "INVALID" => tags[c][w].tag # None

\* The transactions of a request on their way to the bus, and on it.
Among(x, q)  == \E n \in 1 .. Len(q) : q[n] = x

REQ(r)  == Transaction("REQUEST", r)
REP(r)  == Transaction("REPLY", r)
COPY(r) == Transaction("COHE_REPLY", r)
TokensOf(r) == {REQ(r), REP(r), COPY(r)}

Has(s, t)   == s.slot = t \/ Among(t, s.arbwaiters)
Won(m, t)   == bus.winner = [who |-> m, t |-> t]
Runs(m, t)  == bus.cur = [who |-> m, t |-> t]
Waits(m, t) == IF m = MMC THEN t.type = "REPLY" /\ Among(t.req, mmcq) ELSE Has(sif[m], t)
At(m, t)    == Waits(m, t) \/ Won(m, t) \/ Runs(m, t)

\* Nothing waits twice in one place.
Once(s) ==
  /\ \A t \in Items : t.type # "WRITEBACK" /\ s.slot = t => ~Among(t, s.arbwaiters)
  /\ \A n, k \in 1 .. Len(s.arbwaiters) :
       s.arbwaiters[n].type # "WRITEBACK" /\ s.arbwaiters[n] = s.arbwaiters[k] => n = k
SingleItems(p) ==
  \A n, k \in 1 .. Len(p) : p[n].kind \in {"REPLY", "C2C"} /\ p[n] = p[k] => n = k
FillItems(p) == \A n \in 1 .. Len(p) : p[n].kind = "REPLY" => p[n].to = None
CopyItems(p) == \A n \in 1 .. Len(p) : p[n].kind = "C2C" => p[n].to # None
OneEach(q)   == \A n, k \in 1 .. Len(q) : q[n].line = q[k].line => n = k
InterfacesAreOrderly == \A c \in CPUs : Once(sif[c])
PipesAreOrderly      == \A c \in CPUs : SingleItems(dpipe[c]) /\ FillItems(dpipe[c]) /\ CopyItems(dpipe[c])
RepliesAreOrderly    == /\ \A c \in CPUs : OneEach(replyq[c])
                        /\ \A n, k \in 1 .. Len(mmcq) : mmcq[n] = mmcq[k] => n = k

\* The way an MSHR will fill, or has filled.
ToFill(r) == mshr[r].phase # "done" \/ ToInstall(r)
WayIsKnown(r) ==
  mshr[r].valid =>
    /\ WaysOf(r[1], r[2]) \subseteq {mshr[r].way}
    /\ mshr[r].misscache # 2 \/ ~ToFill(r) => mshr[r].way \in Ways
    /\ ToFill(r) /\ mshr[r].misscache = 2 => mshr[r].way = None
    /\ ToFill(r) /\ mshr[r].misscache = 0
         => tags[r[1]][mshr[r].way].tag = r[2] /\ tags[r[1]][mshr[r].way].mshr_out

\* What is written is not shared.
WritesAreExclusive(r) ==
  mshr[r].valid =>
    /\ (mshr[r].has_writes \/ mshr[r].misscache = 0)
         => mshr[r].type \notin {"READ_SH", "REPLY_SH"} /\ mshr[r].cohe_type = "REPLY_EXCL"
    /\ ~Unanswered(r) => mshr[r].type = mshr[r].cohe_type
    /\ mshr[r].phase = "arb" \/ OnItsWay(r)
         => Unanswered(r) /\ mshr[r].memtrans = "none" /\ mshr[r].cohe_type = "REPLY_EXCL"
    /\ mshr[r].phase \in {"mem", "done"} => ~Unanswered(r)

\* A transaction waits, has won the bus or is on it, and is there once.
SentOnce(r) ==
  \A m \in Masters, t \in TokensOf(r) :
    /\ Waits(m, t) => ~Won(m, t) /\ ~Runs(m, t)
    /\ Won(m, t) => ~Runs(m, t)

Pending(m, r) == m \in CPUs /\ sif[m].pending_request = r
RequestGoesOnce(r) ==
  \A m \in Masters :
    /\ Pending(m, r) => ~At(m, REQ(r))
    /\ Pending(m, r) \/ At(m, REQ(r)) => m = r[1] /\ mshr[r].valid
    /\ Pending(m, r) \/ At(m, REQ(r)) => mshr[r].phase = IF Runs(m, REQ(r)) THEN "out" ELSE "arb"

ReplyGoesOnce(r) ==
  \A m \in Masters : At(m, REP(r)) => m = MMC /\ mshr[r].valid /\ mshr[r].phase = "mem"

\* A line that has come is in the reply queue or on its way to L1.
Copy(r) == DataItem("C2C", r[2], r[1])
Fill(r) == DataItem("REPLY", r[2], None)
InReplyq(r) == \E n \in 1 .. Len(replyq[r[1]]) : replyq[r[1]][n].line = r[2]
Leaving(r)  == Among(Fill(r), dpipe[r[1]])
LineFillsOnce(r) ==
  /\ InReplyq(r) => ~Leaving(r)
  /\ InReplyq(r) \/ Leaving(r) => mshr[r].valid /\ mshr[r].phase = "done"

\* A copy of a dirty line is in one data pipe, set aside, or at the bus.
InPipe(c, r)   == Among(Copy(r), dpipe[c])
SetAside(c, r) == dcp[c] = r
AtTheBus(c, r) == sif[c].cohe_reply = r
Holds(c, r)    == InPipe(c, r) \/ SetAside(c, r) \/ AtTheBus(c, r)
CopyGoesOnce(r) ==
  /\ \A c, d \in CPUs : Holds(c, r) /\ Holds(d, r) => c = d
  /\ \A c \in CPUs :
       /\ SetAside(c, r) => ~InPipe(c, r) /\ ~AtTheBus(c, r)
       /\ AtTheBus(c, r) => ~InPipe(c, r)
       /\ Holds(c, r) => /\ mshr[r].valid /\ mshr[r].phase = "out"
                         /\ mshr[r].c2c_copy /\ ~OnItsWay(r)
  /\ \A m \in Masters : At(m, COPY(r)) => m \in CPUs /\ AtTheBus(m, r)

\* The MMC counts the caches that have yet to answer.
Snoops(c, r) == Among(r, coheq[c])
CountIsExact(r) ==
  Stage(r) = "ordered" => mshr[r].cohe_count = Cardinality({c \in CPUs : Snoops(c, r)})
IssuedIsSeen(r) ==
  Stage(r) # "idle" /\ ~mshr[r].issued => Snoops(r[1], r)
ReadIsOpen(r) ==
  mshr[r].memtrans = "reading"
    => /\ Stage(r) = "ordered" /\ mshr[r].type # "UPGRADE" /\ ~mshr[r].data_rtn
       /\ mshr[r].phase = "out"

RequestIsSound(r) ==
  /\ WritesAreExclusive(r) /\ SentOnce(r) /\ RequestGoesOnce(r) /\ ReplyGoesOnce(r)
  /\ LineFillsOnce(r) /\ CopyGoesOnce(r) /\ CountIsExact(r) /\ IssuedIsSeen(r) /\ ReadIsOpen(r)

CInv ==
  /\ Types /\ TagsAreExact /\ InterfacesAreOrderly /\ PipesAreOrderly /\ RepliesAreOrderly
  /\ \A r \in Request : WayIsKnown(r) /\ RequestIsSound(r)

-----------------------------------------------------------------------------
(* Names and sequences *)

\* A request is a cache and a line; None is none of them, and the MMC is no
\* cache.
LEMMA Names ==
  /\ \A r \in Request : r[1] \in CPUs /\ r[2] \in Lines /\ r = <<r[1], r[2]>>
  /\ \A c \in CPUs, l \in Lines : <<c, l>> \in Request /\ <<c, l>>[1] = c /\ <<c, l>>[2] = l
  /\ None \notin CPUs /\ None \notin Lines /\ None \notin Request /\ None \notin Ways
  /\ MMC \notin CPUs /\ "install" \notin Lines /\ "reply" \notin Lines
  /\ IsFiniteSet(CPUs)
BY ConstantsAssumption DEF Request, MMC

\* What is appended, and nothing else, comes into a sequence.
LEMMA AmongAppend ==
  ASSUME NEW S, NEW q \in Seq(S), NEW r \in S, NEW x
  PROVE  Among(x, Append(q, r)) <=> Among(x, q) \/ x = r
<1>1. Len(Append(q, r)) = Len(q) + 1 /\ Len(q) \in Nat /\ Append(q, r)[Len(q) + 1] = r
  OBVIOUS
<1>2. \A n \in 1 .. Len(q) : Append(q, r)[n] = q[n]
  OBVIOUS
<1>3. 1 .. (Len(q) + 1) = (1 .. Len(q)) \cup {Len(q) + 1}
  BY <1>1
<1> QED BY <1>1, <1>2, <1>3 DEF Among

\* The elements of a sequence that has grown by one.
LEMMA AppendFacts ==
  ASSUME NEW S, NEW q \in Seq(S), NEW r \in S
  PROVE  /\ Append(q, r) \in Seq(S) /\ Len(Append(q, r)) = Len(q) + 1 /\ Len(q) \in Nat
         /\ Append(q, r)[Len(q) + 1] = r
         /\ \A n \in 1 .. Len(q) : Append(q, r)[n] = q[n]
         /\ 1 .. Len(Append(q, r)) = (1 .. Len(q)) \cup {Len(q) + 1}
<1>1. /\ Append(q, r) \in Seq(S) /\ Len(Append(q, r)) = Len(q) + 1 /\ Len(q) \in Nat
      /\ Append(q, r)[Len(q) + 1] = r
  OBVIOUS
<1>2. \A n \in 1 .. Len(q) : Append(q, r)[n] = q[n]
  OBVIOUS
<1>3. 1 .. (Len(q) + 1) = (1 .. Len(q)) \cup {Len(q) + 1}
  BY <1>1
<1> QED BY <1>1, <1>2, <1>3

\* The elements of a sequence that has lost its head.
LEMMA TailFacts ==
  ASSUME NEW S, NEW q \in Seq(S), q # <<>>
  PROVE  /\ Len(q) \in Nat \ {0} /\ Len(Tail(q)) = Len(q) - 1 /\ Tail(q) \in Seq(S)
         /\ \A n \in 1 .. Len(Tail(q)) : Tail(q)[n] = q[n + 1] /\ n + 1 \in 1 .. Len(q)
         /\ \A n \in 1 .. Len(q) : n # 1 => n - 1 \in 1 .. Len(Tail(q)) /\ Tail(q)[n - 1] = q[n]
         /\ Head(q) = q[1] /\ Head(q) \in S /\ 1 \in 1 .. Len(q)
<1>1. Len(q) \in Nat /\ Len(q) # 0 /\ Tail(q) \in Seq(S) /\ Len(Tail(q)) = Len(q) - 1
  OBVIOUS
<1>2. \A n \in 1 .. Len(Tail(q)) : Tail(q)[n] = q[n + 1]
  OBVIOUS
<1>3. \A n \in 1 .. Len(Tail(q)) : n + 1 \in 1 .. Len(q)
  BY <1>1
<1>4. \A n \in 1 .. Len(q) : n # 1 => n - 1 \in 1 .. Len(Tail(q)) /\ (n - 1) + 1 = n
  BY <1>1
<1>5. Head(q) = q[1] /\ Head(q) \in S
  OBVIOUS
<1> QED BY <1>1, <1>2, <1>3, <1>4, <1>5

\* Taking the tail removes one occurrence of the head.
LEMMA AmongTail ==
  ASSUME NEW S, NEW q \in Seq(S), q # <<>>, NEW x
  PROVE  /\ Among(Head(q), q)
         /\ Among(x, Tail(q)) => Among(x, q)
         /\ Among(x, q) /\ x # Head(q) => Among(x, Tail(q))
         /\ (\A n \in 1 .. Len(q) : q[n] = Head(q) => n = 1) => ~Among(Head(q), Tail(q))
<1>1. ASSUME Among(x, Tail(q)) PROVE Among(x, q)
  BY <1>1, TailFacts DEF Among
<1>2. ASSUME Among(x, q), x # Head(q) PROVE Among(x, Tail(q))
  <2>1. PICK n \in 1 .. Len(q) : q[n] = x
    BY <1>2 DEF Among
  <2>2. n # 1
    BY <2>1, <1>2, TailFacts
  <2> QED BY <2>1, <2>2, TailFacts DEF Among
<1>3. ASSUME \A n \in 1 .. Len(q) : q[n] = Head(q) => n = 1, Among(Head(q), Tail(q))
      PROVE  FALSE
  <2>1. PICK n \in 1 .. Len(Tail(q)) : Tail(q)[n] = Head(q)
    BY <1>3 DEF Among
  <2>2. n + 1 \in 1 .. Len(q) /\ q[n + 1] = Head(q) /\ n \in Nat \ {0}
    BY <2>1, TailFacts
  <2>3. n + 1 = 1
    BY <2>2, <1>3
  <2> QED BY <2>2, <2>3
<1> QED BY <1>1, <1>2, <1>3, TailFacts DEF Among

-----------------------------------------------------------------------------
(* The pipes *)

\* A data pipe stays orderly when it takes an item it does not hold yet.
LEMMA PipeGrows ==
  ASSUME NEW p \in Seq(PipeItem), NEW i \in PipeItem,
         SingleItems(p), FillItems(p), CopyItems(p),
         i.kind \in {"REPLY", "C2C"} => ~Among(i, p),
         i.kind = "REPLY" => i.to = None, i.kind = "C2C" => i.to # None
  PROVE  /\ SingleItems(Append(p, i)) /\ FillItems(Append(p, i)) /\ CopyItems(Append(p, i))
         /\ Append(p, i) \in Seq(PipeItem)
         /\ \A x : Among(x, Append(p, i)) <=> Among(x, p) \/ x = i
<1>1. /\ Append(p, i) \in Seq(PipeItem) /\ Len(p) \in Nat
      /\ Append(p, i)[Len(p) + 1] = i
      /\ \A n \in 1 .. Len(p) : Append(p, i)[n] = p[n]
      /\ 1 .. Len(Append(p, i)) = (1 .. Len(p)) \cup {Len(p) + 1}
  BY AppendFacts
<1>2. \A x : Among(x, Append(p, i)) <=> Among(x, p) \/ x = i
  BY AmongAppend
<1>3. SingleItems(Append(p, i))
  <2>1. \A n \in 1 .. Len(p) : i.kind \in {"REPLY", "C2C"} => p[n] # i
    BY DEF Among
  <2> QED BY <1>1, <2>1 DEF SingleItems
<1>4. FillItems(Append(p, i))
  BY <1>1 DEF FillItems
<1>5. CopyItems(Append(p, i))
  BY <1>1 DEF CopyItems
<1> QED BY <1>1, <1>2, <1>3, <1>4, <1>5

\* A data pipe stays orderly when its head leaves it.
LEMMA PipeShrinks ==
  ASSUME NEW p \in Seq(PipeItem), p # <<>>, SingleItems(p), FillItems(p), CopyItems(p)
  PROVE  /\ SingleItems(Tail(p)) /\ FillItems(Tail(p)) /\ CopyItems(Tail(p))
         /\ Tail(p) \in Seq(PipeItem) /\ Head(p) \in PipeItem /\ Among(Head(p), p)
         /\ \A x : Among(x, Tail(p)) => Among(x, p)
         /\ \A x : Among(x, p) /\ x # Head(p) => Among(x, Tail(p))
         /\ Head(p).kind \in {"REPLY", "C2C"} => ~Among(Head(p), Tail(p))
         /\ Head(p).kind = "REPLY" => Head(p).to = None
         /\ Head(p).kind = "C2C" => Head(p).to # None
<1>1. /\ Len(p) \in Nat \ {0} /\ Tail(p) \in Seq(PipeItem) /\ Head(p) = p[1] /\ Head(p) \in PipeItem
      /\ \A n \in 1 .. Len(Tail(p)) : Tail(p)[n] = p[n + 1] /\ n + 1 \in 1 .. Len(p)
      /\ 1 \in 1 .. Len(p)
  BY TailFacts
<1>2. \A x : Among(x, Tail(p)) => Among(x, p)
  BY AmongTail
<1>3. \A x : Among(x, p) /\ x # Head(p) => Among(x, Tail(p))
  BY AmongTail
<1>4. SingleItems(Tail(p))
  <2>1. SUFFICES ASSUME NEW n \in 1 .. Len(Tail(p)), NEW k \in 1 .. Len(Tail(p)),
                        Tail(p)[n].kind \in {"REPLY", "C2C"}, Tail(p)[n] = Tail(p)[k]
                 PROVE  n = k
    BY DEF SingleItems
  <2>2. n + 1 = k + 1
    BY <2>1, <1>1 DEF SingleItems
  <2> QED BY <2>2
<1>5. FillItems(Tail(p)) /\ CopyItems(Tail(p))
  BY <1>1 DEF FillItems, CopyItems
<1>6. Head(p).kind \in {"REPLY", "C2C"} => ~Among(Head(p), Tail(p))
  <2>1. Head(p).kind \in {"REPLY", "C2C"} => \A n \in 1 .. Len(p) : p[n] = Head(p) => n = 1
    BY <1>1 DEF SingleItems
  <2> QED BY <2>1, AmongTail
<1>7. Among(Head(p), p)
  BY <1>1 DEF Among
<1>8. /\ Head(p).kind = "REPLY" => Head(p).to = None
      /\ Head(p).kind = "C2C" => Head(p).to # None
  BY <1>1 DEF FillItems, CopyItems
<1> QED BY <1>1, <1>2, <1>3, <1>4, <1>5, <1>6, <1>7, <1>8

-----------------------------------------------------------------------------
(* The system interface *)

\* A transaction is given by its type and request, a grant by its master and
\* transaction.
LEMMA Transactions ==
  /\ None \notin Items /\ None \notin Grants
  /\ \A r \in Request : REQ(r) \in Items /\ REP(r) \in Items /\ COPY(r) \in Items
  /\ \A r, q \in Request : /\ REQ(r) = REQ(q) => r = q
                           /\ REP(r) = REP(q) => r = q
                           /\ COPY(r) = COPY(q) => r = q
  /\ \A r : REQ(r).type = "REQUEST" /\ REP(r).type = "REPLY" /\ COPY(r).type = "COHE_REPLY"
            /\ REQ(r).req = r /\ REP(r).req = r /\ COPY(r).req = r
  /\ \A t \in Items : /\ t.type = "REQUEST" => t = REQ(t.req)
                      /\ t.type = "REPLY" => t = REP(t.req)
                      /\ t.type = "COHE_REPLY" => t = COPY(t.req)
                      /\ t.req \in Request
  /\ \A g \in Grants : g = [who |-> g.who, t |-> g.t] /\ g.who \in Masters /\ g.t \in Items
  /\ \A m \in Masters, t \in Items : [who |-> m, t |-> t] \in Grants
<1>1. None \notin Items /\ None \notin Grants
  BY NoneAssumption
<1>2. \A r \in Request : REQ(r) \in Items /\ REP(r) \in Items /\ COPY(r) \in Items
  BY DEF REQ, REP, COPY, Transaction, Items
<1>3. \A r : REQ(r).type = "REQUEST" /\ REP(r).type = "REPLY" /\ COPY(r).type = "COHE_REPLY"
             /\ REQ(r).req = r /\ REP(r).req = r /\ COPY(r).req = r
  BY DEF REQ, REP, COPY, Transaction
<1>4. \A r, q \in Request : /\ REQ(r) = REQ(q) => r = q
                            /\ REP(r) = REP(q) => r = q
                            /\ COPY(r) = COPY(q) => r = q
  BY <1>3
<1>5. \A t \in Items : /\ t.type = "REQUEST" => t = REQ(t.req)
                       /\ t.type = "REPLY" => t = REP(t.req)
                       /\ t.type = "COHE_REPLY" => t = COPY(t.req)
                       /\ t.req \in Request
  BY DEF REQ, REP, COPY, Transaction, Items
<1>6. \A g \in Grants : g = [who |-> g.who, t |-> g.t] /\ g.who \in Masters /\ g.t \in Items
  BY DEF Grants, Masters
<1>7. \A m \in Masters, t \in Items : [who |-> m, t |-> t] \in Grants
  BY DEF Grants, Masters
<1> QED BY <1>1, <1>2, <1>3, <1>4, <1>5, <1>6, <1>7

\* What ArbForBus leaves alone.
SameButWaiting(s, a) ==
  /\ a.reqbuffer = s.reqbuffer /\ a.pending_request = s.pending_request
  /\ a.outbuffer = s.outbuffer /\ a.pending_writeback = s.pending_writeback
  /\ a.cohe_reply = s.cohe_reply /\ a.stall_request = s.stall_request
  /\ a.stall_reply = s.stall_reply /\ a.stall_cohe = s.stall_cohe

\* ArbForBus adds one transaction to what waits, whichever place it takes.
LEMMA Arbitrates ==
  ASSUME NEW s \in Interface, NEW c, NEW t \in Items, Once(s),
         t.type # "WRITEBACK" => ~Has(s, t)
  PROVE  /\ ArbForBus(s, c, t) \in Interface /\ Once(ArbForBus(s, c, t))
         /\ SameButWaiting(s, ArbForBus(s, c, t))
         /\ \A x \in Items : Has(ArbForBus(s, c, t), x) <=> Has(s, x) \/ x = t
<1> DEFINE a == ArbForBus(s, c, t)
<1>1. /\ s.slot \in Items \cup {None} /\ s.arbwaiters \in Seq(Items)
      /\ s.slot # None => s.slot \in Items
  BY DEF Interface
<1>2. \A x \in Items : x # None
  BY Transactions
<1>3. CASE s.slot = None /\ (bus.winner = None \/ bus.winner.who # c)
  <2>1. a = [s EXCEPT !.slot = t]
    BY <1>3 DEF ArbForBus
  <2>2. a \in Interface /\ SameButWaiting(s, a) /\ a.slot = t /\ a.arbwaiters = s.arbwaiters
    BY <2>1 DEF Interface, SameButWaiting
  <2> HIDE DEF a
  <2>3. Once(a)
    BY <2>2 DEF Once, Has
  <2>4. \A x \in Items : Has(a, x) <=> Has(s, x) \/ x = t
    BY <2>2, <1>2, <1>3 DEF Has
  <2> QED BY <2>2, <2>3, <2>4 DEF a
<1>4. CASE t.type = "COHE_REPLY" /\ s.slot # None
  <2>1. a = [s EXCEPT !.slot = t, !.arbwaiters = <<s.slot>> \o s.arbwaiters]
    BY <1>4 DEF ArbForBus
  <2> DEFINE w == <<s.slot>> \o s.arbwaiters
  <2>2. /\ w \in Seq(Items) /\ Len(w) = Len(s.arbwaiters) + 1 /\ w[1] = s.slot
        /\ Len(s.arbwaiters) \in Nat
    BY <1>1, <1>4
  <2>3. \A n \in 1 .. Len(s.arbwaiters) : w[n + 1] = s.arbwaiters[n] /\ n + 1 \in 1 .. Len(w)
    BY <1>1, <1>4
  <2>4. \A n \in 1 .. Len(w) : n # 1 => n - 1 \in 1 .. Len(s.arbwaiters) /\ w[n] = s.arbwaiters[n - 1]
    BY <1>1, <1>4, <2>2
  <2>5. a \in Interface /\ SameButWaiting(s, a) /\ a.slot = t /\ a.arbwaiters = w
    BY <2>1, <2>2 DEF Interface, SameButWaiting
  <2> HIDE DEF a, w
  <2>6. \A x : Among(x, w) <=> x = s.slot \/ Among(x, s.arbwaiters)
    <3>1. 1 \in 1 .. Len(w)
      BY <2>2
    <3>2. ASSUME NEW x, Among(x, w) PROVE x = s.slot \/ Among(x, s.arbwaiters)
      <4>1. PICK n \in 1 .. Len(w) : w[n] = x
        BY <3>2 DEF Among
      <4> QED BY <4>1, <2>2, <2>4 DEF Among
    <3>3. ASSUME NEW x, Among(x, s.arbwaiters) PROVE Among(x, w)
      <4>1. PICK n \in 1 .. Len(s.arbwaiters) : s.arbwaiters[n] = x
        BY <3>3 DEF Among
      <4> QED BY <4>1, <2>3 DEF Among
    <3>4. Among(s.slot, w)
      BY <3>1, <2>2 DEF Among
    <3> QED BY <3>2, <3>3, <3>4
  <2>7. \A x \in Items : Has(a, x) <=> Has(s, x) \/ x = t
    BY <2>5, <2>6 DEF Has
  <2>8. Once(a)
    <3>1. \A x \in Items : x.type # "WRITEBACK" /\ a.slot = x => ~Among(x, a.arbwaiters)
      BY <2>5, <2>6, <1>4 DEF Has
    <3>2. ASSUME NEW n \in 1 .. Len(w), NEW k \in 1 .. Len(w), n # 1, k # 1,
                 w[n].type # "WRITEBACK", w[n] = w[k]
          PROVE  n = k
      <4>1. n - 1 = k - 1
        BY <3>2, <2>4 DEF Once
      <4> QED BY <4>1
    <3>3. ASSUME NEW n \in 1 .. Len(w), n # 1, w[n].type # "WRITEBACK", w[n] = w[1]
          PROVE  FALSE
      <4>1. Among(s.slot, s.arbwaiters)
        BY <3>3, <2>2, <2>4 DEF Among
      <4> QED BY <4>1, <3>3, <2>2, <1>1, <1>4 DEF Once
    <3>4. \A n, k \in 1 .. Len(w) : w[n].type # "WRITEBACK" /\ w[n] = w[k] => n = k
      BY <3>2, <3>3
    <3> QED BY <3>1, <3>4, <2>5 DEF Once
  <2> QED BY <2>5, <2>7, <2>8 DEF a
<1>5. CASE ~(s.slot = None /\ (bus.winner = None \/ bus.winner.who # c))
           /\ ~(t.type = "COHE_REPLY" /\ s.slot # None)
  <2>1. a = [s EXCEPT !.arbwaiters = Append(s.arbwaiters, t)]
    BY <1>5 DEF ArbForBus
  <2> DEFINE w == Append(s.arbwaiters, t)
  <2>2. /\ w \in Seq(Items) /\ Len(w) = Len(s.arbwaiters) + 1 /\ w[Len(s.arbwaiters) + 1] = t
        /\ \A n \in 1 .. Len(s.arbwaiters) : w[n] = s.arbwaiters[n]
        /\ 1 .. Len(w) = (1 .. Len(s.arbwaiters)) \cup {Len(s.arbwaiters) + 1}
    BY <1>1, AppendFacts
  <2>3. \A x : Among(x, w) <=> Among(x, s.arbwaiters) \/ x = t
    BY <1>1, AmongAppend
  <2>4. a \in Interface /\ SameButWaiting(s, a) /\ a.slot = s.slot /\ a.arbwaiters = w
    BY <2>1, <2>2 DEF Interface, SameButWaiting
  <2> HIDE DEF a, w
  <2>5. \A x \in Items : Has(a, x) <=> Has(s, x) \/ x = t
    BY <2>3, <2>4 DEF Has
  <2>6. Once(a)
    <3>1. \A x \in Items : x.type # "WRITEBACK" /\ a.slot = x => ~Among(x, a.arbwaiters)
      BY <2>3, <2>4 DEF Has, Once
    <3>2. \A n \in 1 .. Len(s.arbwaiters) : t.type # "WRITEBACK" => s.arbwaiters[n] # t
      BY DEF Has, Among
    <3>3. \A n, k \in 1 .. Len(w) : w[n].type # "WRITEBACK" /\ w[n] = w[k] => n = k
      BY <3>2, <2>2 DEF Once
    <3> QED BY <3>1, <3>3, <2>4 DEF Once
  <2> QED BY <2>4, <2>5, <2>6 DEF a
<1> QED BY <1>3, <1>4, <1>5

\* The slot is emptied when the bus is won...
LEMMA SlotEmpties ==
  ASSUME NEW s \in Interface, Once(s), s.slot # None
  PROVE  LET a == [s EXCEPT !.slot = None]
         IN /\ a \in Interface /\ Once(a) /\ SameButWaiting(s, a)
            /\ s.slot \in Items
            /\ \A x \in Items : Has(a, x) => Has(s, x)
            /\ \A x \in Items : Has(s, x) /\ x # s.slot => Has(a, x)
            /\ s.slot.type # "WRITEBACK" => ~Has(a, s.slot)
<1> DEFINE a == [s EXCEPT !.slot = None]
<1>1. /\ a \in Interface /\ SameButWaiting(s, a) /\ a.slot = None /\ a.arbwaiters = s.arbwaiters
      /\ s.slot \in Items
  BY DEF Interface, SameButWaiting
<1>2. \A x \in Items : x # None
  BY Transactions
<1> HIDE DEF a
<1>3. Once(a)
  BY <1>1, <1>2 DEF Once
<1>4. /\ \A x \in Items : Has(a, x) => Has(s, x)
      /\ \A x \in Items : Has(s, x) /\ x # s.slot => Has(a, x)
      /\ s.slot.type # "WRITEBACK" => ~Has(a, s.slot)
  BY <1>1, <1>2 DEF Has, Once
<1> QED BY <1>1, <1>3, <1>4 DEF a

\* ... and taken by the next one that waits.
LEMMA SlotRefills ==
  ASSUME NEW s \in Interface, Once(s), s.slot = None, s.arbwaiters # <<>>
  PROVE  LET a == [s EXCEPT !.slot = Head(s.arbwaiters), !.arbwaiters = Tail(s.arbwaiters)]
         IN /\ a \in Interface /\ Once(a) /\ SameButWaiting(s, a)
            /\ \A x \in Items : Has(a, x) <=> Has(s, x)
<1> DEFINE a == [s EXCEPT !.slot = Head(s.arbwaiters), !.arbwaiters = Tail(s.arbwaiters)]
           w == s.arbwaiters
<1>1. w \in Seq(Items) /\ w # <<>>
  BY DEF Interface
<1>2. /\ Len(w) \in Nat \ {0} /\ Tail(w) \in Seq(Items) /\ Head(w) = w[1] /\ Head(w) \in Items
      /\ \A n \in 1 .. Len(Tail(w)) : Tail(w)[n] = w[n + 1] /\ n + 1 \in 1 .. Len(w)
      /\ 1 \in 1 .. Len(w)
  BY <1>1, TailFacts
<1>3. /\ a \in Interface /\ SameButWaiting(s, a) /\ a.slot = Head(w) /\ a.arbwaiters = Tail(w)
  BY <1>2 DEF Interface, SameButWaiting
<1>4. \A x : /\ Among(x, Tail(w)) => Among(x, w)
             /\ Among(x, w) /\ x # Head(w) => Among(x, Tail(w))
  BY <1>1, AmongTail
<1>5. Among(Head(w), w)
  BY <1>2 DEF Among
<1>6. Head(w).type # "WRITEBACK" => ~Among(Head(w), Tail(w))
  <2>1. Head(w).type # "WRITEBACK" => \A n \in 1 .. Len(w) : w[n] = Head(w) => n = 1
    BY <1>2 DEF Once
  <2> QED BY <2>1, <1>1, AmongTail
<1>7. \A x \in Items : x # None
  BY Transactions
<1> HIDE DEF a, w
<1>8. \A x \in Items : Has(a, x) <=> Has(s, x)
  BY <1>3, <1>4, <1>5, <1>7 DEF Has, w
<1>9. Once(a)
  <2>1. ASSUME NEW n \in 1 .. Len(Tail(w)), NEW k \in 1 .. Len(Tail(w)),
               Tail(w)[n].type # "WRITEBACK", Tail(w)[n] = Tail(w)[k]
        PROVE  n = k
    <3>1. n + 1 = k + 1
      BY <2>1, <1>2 DEF Once, w
    <3> QED BY <3>1
  <2> QED BY <2>1, <1>3, <1>6 DEF Once
<1> QED BY <1>3, <1>8, <1>9 DEF a, w

\* The operations of the system interface: what they do to its transactions.
LEMMA StartsRequest ==
  ASSUME NEW s \in Interface, NEW r \in Request, Once(s), ~Has(s, REQ(r))
  PROVE  /\ StartRequest(s, r) \in Interface /\ Once(StartRequest(s, r))
         /\ StartRequest(s, r).cohe_reply = s.cohe_reply
         /\ \/ /\ StartRequest(s, r).pending_request = r
               /\ \A x \in Items : Has(StartRequest(s, r), x) <=> Has(s, x)
            \/ /\ StartRequest(s, r).pending_request = s.pending_request
               /\ \A x \in Items : Has(StartRequest(s, r), x) <=> Has(s, x) \/ x = REQ(r)
<1>1. CASE Cardinality(s.reqbuffer) = REQUEST_BUFFER
  <2> DEFINE k == s.stall_request + 1
             a == [s EXCEPT !.pending_request = r, !.stall_request = k]
  <2>1. StartRequest(s, r) = a
    BY <1>1 DEF StartRequest
  <2>3. k \in Int
    BY DEF Interface
  <2> HIDE DEF k
  <2>2. /\ a \in Interface /\ a.pending_request = r /\ a.slot = s.slot
        /\ a.arbwaiters = s.arbwaiters /\ a.cohe_reply = s.cohe_reply
    BY <2>3 DEF Interface
  <2> HIDE DEF a
  <2> QED BY <2>1, <2>2 DEF Once, Has
<1>2. CASE Cardinality(s.reqbuffer) # REQUEST_BUFFER
  <2> DEFINE a == [s EXCEPT !.reqbuffer = s.reqbuffer \cup {r}]
  <2>1. StartRequest(s, r) = ArbForBus(a, r[1], REQ(r))
    BY <1>2 DEF StartRequest, REQ
  <2>2. /\ a \in Interface /\ a.pending_request = s.pending_request /\ a.slot = s.slot
        /\ a.arbwaiters = s.arbwaiters /\ a.cohe_reply = s.cohe_reply
    BY DEF Interface
  <2> HIDE DEF a
  <2>3. Once(a) /\ \A x : Has(a, x) <=> Has(s, x)
    BY <2>2 DEF Once, Has
  <2>4. REQ(r) \in Items
    BY Transactions
  <2> QED BY <2>1, <2>2, <2>3, <2>4, Arbitrates DEF SameButWaiting
<1> QED BY <1>1, <1>2

\* A write-back that starts moves no request or copy.
LEMMA StartsWriteback ==
  ASSUME NEW s \in Interface, NEW c \in CPUs, NEW l \in Lines, Once(s)
  PROVE  /\ StartWriteback(s, c, l) \in Interface /\ Once(StartWriteback(s, c, l))
         /\ StartWriteback(s, c, l).cohe_reply = s.cohe_reply
         /\ StartWriteback(s, c, l).pending_request = s.pending_request
         /\ \A x \in Items : x.type # "WRITEBACK"
              => (Has(StartWriteback(s, c, l), x) <=> Has(s, x))
<1>1. CASE Len(s.outbuffer) = OUT_BUFFER
  <2> DEFINE j == s.stall_reply + 1
             k == s.stall_cohe + 1
             a == [s EXCEPT !.pending_writeback = l, !.stall_reply = j, !.stall_cohe = k]
  <2>1. StartWriteback(s, c, l) = a
    BY <1>1 DEF StartWriteback
  <2>3. j \in Int /\ k \in Int
    BY DEF Interface
  <2> HIDE DEF j, k
  <2>2. /\ a \in Interface /\ a.pending_request = s.pending_request /\ a.slot = s.slot
        /\ a.arbwaiters = s.arbwaiters /\ a.cohe_reply = s.cohe_reply
    BY <2>3 DEF Interface
  <2> HIDE DEF a
  <2> QED BY <2>1, <2>2 DEF Once, Has
<1>2. CASE Len(s.outbuffer) # OUT_BUFFER
  <2> DEFINE a == [s EXCEPT !.outbuffer = Append(s.outbuffer, l)]
             t == Transaction("WRITEBACK", <<c, l>>)
  <2>1. StartWriteback(s, c, l) = ArbForBus(a, c, t)
    BY <1>2 DEF StartWriteback
  <2>2. /\ a \in Interface /\ a.pending_request = s.pending_request /\ a.slot = s.slot
        /\ a.arbwaiters = s.arbwaiters /\ a.cohe_reply = s.cohe_reply
    <3>1. s.outbuffer \in Seq(Lines)
      BY DEF Interface
    <3>2. Append(s.outbuffer, l) \in Seq(Lines)
      BY <3>1
    <3> QED BY <3>2 DEF Interface
  <2>3. t \in Items /\ t.type = "WRITEBACK"
    BY Names DEF Items, Transaction
  <2> HIDE DEF a, t
  <2>4. Once(a) /\ \A x : Has(a, x) <=> Has(s, x)
    BY <2>2 DEF Once, Has
  <2> QED BY <2>1, <2>2, <2>3, <2>4, Arbitrates DEF SameButWaiting
<1> QED BY <1>1, <1>2

\* A copy that starts takes the place for copies and waits for the bus.
LEMMA StartsCoheReply ==
  ASSUME NEW s \in Interface, NEW c \in CPUs, NEW r \in Request, Once(s), ~Has(s, COPY(r))
  PROVE  /\ StartCoheReply(s, c, r) \in Interface /\ Once(StartCoheReply(s, c, r))
         /\ StartCoheReply(s, c, r).cohe_reply = r
         /\ StartCoheReply(s, c, r).pending_request = s.pending_request
         /\ \A x \in Items : Has(StartCoheReply(s, c, r), x) <=> Has(s, x) \/ x = COPY(r)
<1> DEFINE a == [s EXCEPT !.cohe_reply = r]
<1>1. StartCoheReply(s, c, r) = ArbForBus(a, c, COPY(r))
  BY DEF StartCoheReply, COPY
<1>2. /\ a \in Interface /\ a.pending_request = s.pending_request /\ a.slot = s.slot
      /\ a.arbwaiters = s.arbwaiters /\ a.cohe_reply = r
  BY DEF Interface
<1> HIDE DEF a
<1>3. Once(a) /\ \A x : Has(a, x) <=> Has(s, x)
  BY <1>2 DEF Once, Has
<1>4. COPY(r) \in Items
  BY Transactions
<1> QED BY <1>1, <1>2, <1>3, <1>4, Arbitrates DEF SameButWaiting

\* The buffer of a completed request is free: the pending request enters it.
Freed(s, c, r) ==
  LET freed == [s EXCEPT !.reqbuffer = @ \ {r}]
      next  == freed.pending_request
  IN IF next = None THEN freed
     ELSE ArbForBus([freed EXCEPT !.pending_request = None, !.stall_request = @ - 1,
                                  !.reqbuffer = @ \cup {next}],
                    c, Transaction("REQUEST", next))

\* A request that completes leaves its buffer to the pending one, which then
\* waits for the bus.
LEMMA FreesBuffer ==
  ASSUME NEW s \in Interface, NEW c \in CPUs, NEW r \in Request, Once(s),
         s.pending_request # None => ~Has(s, REQ(s.pending_request))
  PROVE  /\ Freed(s, c, r) \in Interface /\ Once(Freed(s, c, r))
         /\ Freed(s, c, r).cohe_reply = s.cohe_reply
         /\ Freed(s, c, r).pending_request = None
         /\ \A x \in Items : Has(Freed(s, c, r), x)
              <=> Has(s, x) \/ (s.pending_request # None /\ x = REQ(s.pending_request))
<1> DEFINE freed == [s EXCEPT !.reqbuffer = s.reqbuffer \ {r}]
<1>1. /\ freed \in Interface /\ freed.pending_request = s.pending_request /\ freed.slot = s.slot
      /\ freed.arbwaiters = s.arbwaiters /\ freed.cohe_reply = s.cohe_reply
  BY DEF Interface
<1>2. CASE s.pending_request = None
  <2>1. Freed(s, c, r) = freed
    BY <1>1, <1>2 DEF Freed
  <2> HIDE DEF freed
  <2> QED BY <2>1, <1>1, <1>2 DEF Once, Has
<1>3. CASE s.pending_request # None
  <2> DEFINE n == s.pending_request
             k == freed.stall_request - 1
             a == [freed EXCEPT !.pending_request = None, !.stall_request = k,
                                !.reqbuffer = freed.reqbuffer \cup {n}]
  <2>1. Freed(s, c, r) = ArbForBus(a, c, REQ(n))
    BY <1>1, <1>3 DEF Freed, REQ
  <2> HIDE DEF freed
  <2>2. n \in Request
    BY <1>3 DEF Interface
  <2>8. k \in Int
    BY <1>1 DEF Interface
  <2> HIDE DEF k
  <2>3. /\ a \in Interface /\ a.pending_request = None /\ a.slot = s.slot
        /\ a.arbwaiters = s.arbwaiters /\ a.cohe_reply = s.cohe_reply
    BY <1>1, <2>2, <2>8 DEF Interface
  <2> HIDE DEF a
  <2>4. Once(a) /\ \A x : Has(a, x) <=> Has(s, x)
    BY <2>3 DEF Once, Has
  <2>5. REQ(n) \in Items
    BY <2>2, Transactions
  <2>6. ~Has(a, REQ(n))
    BY <2>4, <1>3
  <2>7. /\ ArbForBus(a, c, REQ(n)) \in Interface /\ Once(ArbForBus(a, c, REQ(n)))
        /\ SameButWaiting(a, ArbForBus(a, c, REQ(n)))
        /\ \A x \in Items : Has(ArbForBus(a, c, REQ(n)), x) <=> Has(a, x) \/ x = REQ(n)
    BY <2>3, <2>4, <2>5, <2>6, Arbitrates
  <2> QED BY <2>1, <2>3, <2>4, <2>7, <1>3 DEF SameButWaiting
<1> QED BY <1>2, <1>3

-----------------------------------------------------------------------------
(* What a step leaves alone keeps what holds of it *)

SameMSHR(r) ==
  /\ mshr'[r].valid = mshr[r].valid /\ mshr'[r].phase = mshr[r].phase
  /\ mshr'[r].type = mshr[r].type /\ mshr'[r].cohe_type = mshr[r].cohe_type
  /\ mshr'[r].misscache = mshr[r].misscache /\ mshr'[r].way = mshr[r].way
  /\ mshr'[r].cohe_count = mshr[r].cohe_count /\ mshr'[r].c2c_copy = mshr[r].c2c_copy
  /\ mshr'[r].data_rtn = mshr[r].data_rtn
  /\ \/ mshr'[r].memtrans = mshr[r].memtrans
     \/ mshr[r].memtrans = "reading" /\ mshr'[r].memtrans = "c2c"
  /\ mshr'[r].has_writes => mshr[r].has_writes
  /\ mshr[r].issued => mshr'[r].issued
SameTokens(r) ==
  \A m \in Masters, t \in TokensOf(r) :
    /\ Waits(m, t)' <=> Waits(m, t)
    /\ Won(m, t)' <=> Won(m, t)
    /\ Runs(m, t)' <=> Runs(m, t)
SamePending(r) == \A m \in Masters : Pending(m, r)' => Pending(m, r)
SameCopies(r) ==
  \A c \in CPUs : /\ InPipe(c, r)' => InPipe(c, r)
                  /\ SetAside(c, r)' => SetAside(c, r)
                  /\ AtTheBus(c, r)' <=> AtTheBus(c, r)
SameFill(r) == /\ InReplyq(r)' <=> InReplyq(r)
               /\ ToInstall(r)' <=> ToInstall(r)
               /\ Leaving(r)' <=> Leaving(r)
SameSnoops(r) == \A c \in CPUs : Snoops(c, r)' <=> Snoops(c, r)
SameWays(c) ==
  \A w \in Ways : /\ tags'[c][w].tag = tags[c][w].tag
                  /\ tags[c][w].mshr_out => tags'[c][w].mshr_out

SameRequest(r) ==
  /\ SameMSHR(r) /\ SameTokens(r) /\ SamePending(r) /\ SameCopies(r) /\ SameFill(r)
  /\ SameSnoops(r)

\* A request is on its way when its own cache has it on the bus.
LEMMA OnTheWay ==
  ASSUME NEW b \in [winner : Grants \cup {None}, cur : Grants \cup {None}, req_count : Int,
                    mmc_master : BOOLEAN],
         NEW r \in Request
  PROVE  (b.cur # None /\ b.cur.t = REQ(r)) <=> \E m \in Masters : b.cur = [who |-> m, t |-> REQ(r)]
<1>1. b.cur # None => b.cur \in Grants
  OBVIOUS
<1>2. \A m \in Masters : [who |-> m, t |-> REQ(r)] \in Grants /\ [who |-> m, t |-> REQ(r)].t = REQ(r)
  BY Transactions
<1>3. b.cur # None => b.cur = [who |-> b.cur.who, t |-> b.cur.t] /\ b.cur.who \in Masters
  BY <1>1, Transactions
<1>4. \A m \in Masters : [who |-> m, t |-> REQ(r)] # None
  BY <1>2, Transactions
<1> QED BY <1>2, <1>3, <1>4

\* The three transactions of a request.
LEMMA Tokens ==
  ASSUME NEW r \in Request
  PROVE  REQ(r) \in TokensOf(r) /\ REP(r) \in TokensOf(r) /\ COPY(r) \in TokensOf(r)
BY DEF TokensOf

\* A request whose MSHR and transactions stay keeps its stage.
LEMMA SameStage ==
  ASSUME NEW r \in Request, Types, Types', SameMSHR(r), SameTokens(r), SameFill(r)
  PROVE  /\ OnItsWay(r)' <=> OnItsWay(r)
         /\ Stage(r)' = Stage(r)
<1>1. OnItsWay(r) <=> \E m \in Masters : Runs(m, REQ(r))
  BY OnTheWay DEF Types, OnItsWay, Runs, REQ
<1>2. OnItsWay(r)' <=> \E m \in Masters : Runs(m, REQ(r))'
  BY OnTheWay DEF Types, OnItsWay, Runs, REQ
<1>3. OnItsWay(r)' <=> OnItsWay(r)
  BY <1>1, <1>2, Tokens DEF SameTokens
<1>4. Stage(r)' = Stage(r)
  BY <1>3 DEF Stage, Unanswered, SameMSHR, SameFill
<1> QED BY <1>3, <1>4

\* A request that a step does not touch stays sound and is the same to the
\* other caches.
LEMMA SameRequestIsSound ==
  ASSUME NEW r \in Request, Types, Types', SameRequest(r), RequestIsSound(r)
  PROVE  RequestIsSound(r)' /\ RequestOf'[r] = RequestOf[r]
<1>1. SameMSHR(r) /\ SameTokens(r) /\ SamePending(r) /\ SameCopies(r) /\ SameFill(r) /\ SameSnoops(r)
  BY DEF SameRequest
<1>2. (OnItsWay(r)' <=> OnItsWay(r)) /\ Stage(r)' = Stage(r) /\ (Unanswered(r)' <=> Unanswered(r))
  BY <1>1, SameStage DEF Unanswered, SameMSHR
<1>3. WritesAreExclusive(r)'
  <2>1. mshr[r].memtrans = "reading" => ~(mshr[r].phase = "arb" \/ OnItsWay(r))
    BY DEF RequestIsSound, ReadIsOpen, Stage
  <2> QED BY <1>1, <1>2, <2>1 DEF RequestIsSound, WritesAreExclusive, SameMSHR
<1>4. SentOnce(r)'
  BY <1>1 DEF RequestIsSound, SentOnce, SameTokens
<1>5. \A m \in Masters, t \in TokensOf(r) : (At(m, t)' <=> At(m, t)) /\ (Runs(m, t)' <=> Runs(m, t))
  BY <1>1 DEF At, SameTokens
<1>6. RequestGoesOnce(r)'
  BY <1>1, <1>5, Tokens DEF RequestIsSound, RequestGoesOnce, SamePending, SameMSHR
<1>7. ReplyGoesOnce(r)'
  BY <1>1, <1>5, Tokens DEF RequestIsSound, ReplyGoesOnce, SameMSHR
<1>8. LineFillsOnce(r)'
  BY <1>1 DEF RequestIsSound, LineFillsOnce, SameFill, SameMSHR
<1>9. CopyGoesOnce(r)'
  <2>1. \A c \in CPUs : Holds(c, r)' => Holds(c, r)
    BY <1>1 DEF SameCopies, Holds
  <2> QED BY <1>1, <1>2, <1>5, <2>1, Tokens DEF RequestIsSound, CopyGoesOnce, SameMSHR, SameCopies
<1>10. CountIsExact(r)'
  <2>1. {c \in CPUs : Snoops(c, r)'} = {c \in CPUs : Snoops(c, r)}
    BY <1>1 DEF SameSnoops
  <2> QED BY <1>1, <1>2, <2>1 DEF RequestIsSound, CountIsExact, SameMSHR
<1>11. IssuedIsSeen(r)'
  BY <1>1, <1>2, Names DEF RequestIsSound, IssuedIsSeen, SameMSHR, SameSnoops
<1>12. ReadIsOpen(r)'
  BY <1>1, <1>2 DEF RequestIsSound, ReadIsOpen, SameMSHR
<1>13. RequestOf'[r] = RequestOf[r]
  BY <1>1, <1>2 DEF RequestOf, SameMSHR
<1> QED BY <1>3, <1>4, <1>6, <1>7, <1>8, <1>9, <1>10, <1>11, <1>12, <1>13 DEF RequestIsSound

\* The same for a request whose transactions, fill or copy move.
LEMMA MovedRequestIsSound ==
  ASSUME NEW r \in Request, Types, Types', SameMSHR(r), SameSnoops(r),
         OnItsWay(r)' <=> OnItsWay(r), ToInstall(r)' <=> ToInstall(r), RequestIsSound(r),
         SentOnce(r)', RequestGoesOnce(r)', ReplyGoesOnce(r)', LineFillsOnce(r)', CopyGoesOnce(r)'
  PROVE  RequestIsSound(r)' /\ RequestOf'[r] = RequestOf[r]
<1>2. Stage(r)' = Stage(r) /\ (Unanswered(r)' <=> Unanswered(r))
  BY DEF Stage, Unanswered, SameMSHR
<1>3. WritesAreExclusive(r)'
  <2>1. mshr[r].memtrans = "reading" => ~(mshr[r].phase = "arb" \/ OnItsWay(r))
    BY DEF RequestIsSound, ReadIsOpen, Stage
  <2> QED BY <1>2, <2>1 DEF RequestIsSound, WritesAreExclusive, SameMSHR
<1>10. CountIsExact(r)'
  <2>1. {c \in CPUs : Snoops(c, r)'} = {c \in CPUs : Snoops(c, r)}
    BY DEF SameSnoops
  <2> QED BY <1>2, <2>1 DEF RequestIsSound, CountIsExact, SameMSHR
<1>11. IssuedIsSeen(r)'
  BY <1>2, Names DEF RequestIsSound, IssuedIsSeen, SameMSHR, SameSnoops
<1>12. ReadIsOpen(r)'
  BY <1>2 DEF RequestIsSound, ReadIsOpen, SameMSHR
<1>13. RequestOf'[r] = RequestOf[r]
  BY <1>2 DEF RequestOf, SameMSHR
<1> QED BY <1>3, <1>10, <1>11, <1>12, <1>13 DEF RequestIsSound

\* ... and the way it will fill.
LEMMA SameWaysAreKnown ==
  ASSUME NEW r \in Request, Types, SameMSHR(r), SameFill(r), SameWays(r[1]), WayIsKnown(r)
  PROVE  WayIsKnown(r)'
<1>1. ToFill(r)' <=> ToFill(r)
  BY DEF ToFill, SameMSHR, SameFill
<1>2. WaysOf(r[1], r[2])' = WaysOf(r[1], r[2])
  BY DEF WaysOf, SameWays
<1>3. mshr'[r].valid = mshr[r].valid /\ mshr'[r].misscache = mshr[r].misscache /\ mshr'[r].way = mshr[r].way
  BY DEF SameMSHR
<1>4. mshr[r].misscache = 0 /\ mshr[r].valid => mshr[r].way \in Ways
  BY DEF WayIsKnown
<1>5. mshr[r].way \in Ways => /\ tags'[r[1]][mshr[r].way].tag = tags[r[1]][mshr[r].way].tag
                              /\ tags[r[1]][mshr[r].way].mshr_out => tags'[r[1]][mshr[r].way].mshr_out
  BY DEF SameWays
<1> QED BY <1>1, <1>2, <1>3, <1>4, <1>5 DEF WayIsKnown

RequestsAreSame == \A r \in Request : SameRequest(r)
ContainersAreOrderly ==
  Types /\ TagsAreExact /\ InterfacesAreOrderly /\ PipesAreOrderly /\ RepliesAreOrderly

\* If that holds of every request, the invariant stays and Snooping sees no
\* change.
LEMMA SameRequests ==
  ASSUME CInv, ContainersAreOrderly', RequestsAreSame, \A c \in CPUs : SameWays(c)
  PROVE  CInv' /\ RequestOf' = RequestOf
<1>1. Types /\ Types'
  BY DEF CInv, ContainersAreOrderly
<1>2. \A r \in Request : WayIsKnown(r)' /\ RequestIsSound(r)' /\ RequestOf'[r] = RequestOf[r]
  <2> SUFFICES ASSUME NEW r \in Request
               PROVE  WayIsKnown(r)' /\ RequestIsSound(r)' /\ RequestOf'[r] = RequestOf[r]
    OBVIOUS
  <2>1. WayIsKnown(r) /\ RequestIsSound(r) /\ SameRequest(r) /\ SameWays(r[1])
    BY Names DEF CInv, RequestsAreSame
  <2>2. RequestIsSound(r)' /\ RequestOf'[r] = RequestOf[r]
    BY <1>1, <2>1, SameRequestIsSound
  <2>3. SameMSHR(r) /\ SameFill(r)
    BY <2>1 DEF SameRequest
  <2>4. WayIsKnown(r)'
    BY <1>1, <2>1, <2>3, SameWaysAreKnown
  <2> QED BY <2>2, <2>4
<1>3. RequestOf' = RequestOf
  BY <1>2 DEF RequestOf
<1> QED BY <1>2, <1>3 DEF CInv, ContainersAreOrderly

\* Without a change of the tags no line changes.
LEMMA SameTags ==
  ASSUME tags' = tags
  PROVE  /\ LineOf' = LineOf /\ \A c \in CPUs : SameWays(c)
         /\ TagsAreExact => TagsAreExact'
BY DEF LineOf, StateOf, CacheSearch, WayOf, WaysOf, SameWays, TagsAreExact

\* Without a change of buffers and bus no transaction moves.
LEMMA SameBus ==
  ASSUME NEW r, sif' = sif, mmcq' = mmcq, bus' = bus
  PROVE  SameTokens(r) /\ SamePending(r) /\ (\A c \in CPUs : AtTheBus(c, r)' <=> AtTheBus(c, r))
BY DEF SameTokens, SamePending, Waits, Won, Runs, Pending, AtTheBus

\* A pipe that takes or loses a hit or a write-back carries the same fills and copies.
SameItems(r) == (\A c \in CPUs : InPipe(c, r)' <=> InPipe(c, r)) /\ (Leaving(r)' <=> Leaving(r))

\* Copies and fills of different requests are different items of a data pipe.
LEMMA PipeKinds ==
  /\ \A r \in Request : Copy(r) \in PipeItem /\ Fill(r) \in PipeItem
  /\ \A r \in Request : Copy(r).kind = "C2C" /\ Fill(r).kind = "REPLY" /\ Copy(r) # Fill(r)
                        /\ Copy(r).to = r[1] /\ Copy(r).line = r[2]
                        /\ Fill(r).to = None /\ Fill(r).line = r[2]
  /\ \A r, q \in Request : Copy(r) = Copy(q) => r = q
  /\ \A r, q \in Request : Fill(r) = Fill(q) => r[2] = q[2]
<1>1. \A r \in Request : Copy(r).kind = "C2C" /\ Fill(r).kind = "REPLY"
                         /\ Copy(r).to = r[1] /\ Copy(r).line = r[2]
                         /\ Fill(r).to = None /\ Fill(r).line = r[2]
  BY DEF Copy, Fill, DataItem
<1>2. \A r \in Request : Copy(r) \in PipeItem /\ Fill(r) \in PipeItem
  BY Names DEF Copy, Fill, DataItem, PipeItem
<1>3. \A r, q \in Request : Copy(r) = Copy(q) => r = q
  <2> SUFFICES ASSUME NEW r \in Request, NEW q \in Request, Copy(r) = Copy(q) PROVE r = q
    OBVIOUS
  <2>1. r[1] = q[1] /\ r[2] = q[2]
    BY <1>1
  <2> QED BY <2>1, Names
<1> QED BY <1>1, <1>2, <1>3

\* A hit or a write-back enters a data pipe.
LEMMA QuietAppend ==
  ASSUME Types, PipesAreOrderly, NEW c \in CPUs, NEW i \in PipeItem, i.kind \notin {"REPLY", "C2C"},
         dpipe' = [dpipe EXCEPT ![c] = Append(@, i)]
  PROVE  /\ dpipe' \in [CPUs -> Seq(PipeItem)] /\ PipesAreOrderly'
         /\ \A r \in Request : SameItems(r)
<1>1. dpipe[c] \in Seq(PipeItem) /\ SingleItems(dpipe[c]) /\ FillItems(dpipe[c]) /\ CopyItems(dpipe[c])
  BY DEF Types, PipesAreOrderly
<1> DEFINE p == Append(dpipe[c], i)
<1>2. /\ SingleItems(p) /\ FillItems(p) /\ CopyItems(p) /\ p \in Seq(PipeItem)
      /\ \A x : Among(x, p) <=> Among(x, dpipe[c]) \/ x = i
  BY <1>1, PipeGrows
<1>3. dpipe' = [dpipe EXCEPT ![c] = p]
  OBVIOUS
<1> HIDE DEF p
<1>4. dpipe'[c] = p /\ \A d \in CPUs : d # c => dpipe'[d] = dpipe[d]
  BY <1>3 DEF Types
<1>5. dpipe' \in [CPUs -> Seq(PipeItem)]
  BY <1>2, <1>3 DEF Types
<1>6. PipesAreOrderly'
  BY <1>2, <1>4 DEF PipesAreOrderly
<1>7. ASSUME NEW r \in Request PROVE SameItems(r)
  <2>1. Copy(r) # i /\ Fill(r) # i /\ r[1] \in CPUs
    BY PipeKinds, Names
  <2> QED BY <1>2, <1>4, <2>1 DEF SameItems, InPipe, Leaving
<1> QED BY <1>5, <1>6, <1>7

\* A hit or a write-back leaves a data pipe.
LEMMA QuietTail ==
  ASSUME Types, PipesAreOrderly, NEW c \in CPUs, dpipe[c] # <<>>,
         Head(dpipe[c]).kind \notin {"REPLY", "C2C"},
         dpipe' = [dpipe EXCEPT ![c] = Tail(@)]
  PROVE  /\ dpipe' \in [CPUs -> Seq(PipeItem)] /\ PipesAreOrderly'
         /\ \A r \in Request : SameItems(r)
<1>1. dpipe[c] \in Seq(PipeItem) /\ SingleItems(dpipe[c]) /\ FillItems(dpipe[c]) /\ CopyItems(dpipe[c])
  BY DEF Types, PipesAreOrderly
<1> DEFINE p == Tail(dpipe[c])
<1>2. /\ SingleItems(p) /\ FillItems(p) /\ CopyItems(p) /\ p \in Seq(PipeItem)
      /\ \A x : Among(x, p) => Among(x, dpipe[c])
      /\ \A x : Among(x, dpipe[c]) /\ x # Head(dpipe[c]) => Among(x, p)
  BY <1>1, PipeShrinks
<1>3. dpipe' = [dpipe EXCEPT ![c] = p]
  OBVIOUS
<1> HIDE DEF p
<1>4. dpipe'[c] = p /\ \A d \in CPUs : d # c => dpipe'[d] = dpipe[d]
  BY <1>3 DEF Types
<1>5. dpipe' \in [CPUs -> Seq(PipeItem)]
  BY <1>2, <1>3 DEF Types
<1>6. PipesAreOrderly'
  BY <1>2, <1>4 DEF PipesAreOrderly
<1>7. ASSUME NEW r \in Request PROVE SameItems(r)
  <2>1. Copy(r) # Head(dpipe[c]) /\ Fill(r) # Head(dpipe[c]) /\ r[1] \in CPUs
    BY PipeKinds, Names
  <2> QED BY <1>2, <1>4, <2>1 DEF SameItems, InPipe, Leaving
<1> QED BY <1>5, <1>6, <1>7

\* A step of the system interface that neither sends nor drops more than write-backs.
LEMMA QuietInterface ==
  ASSUME Types, InterfacesAreOrderly, NEW c \in CPUs, NEW a \in Interface,
         sif' = [sif EXCEPT ![c] = a], Once(a),
         a.pending_request = sif[c].pending_request, a.cohe_reply = sif[c].cohe_reply,
         \A x \in Items : x.type # "WRITEBACK" => (Has(a, x) <=> Has(sif[c], x)),
         mmcq' = mmcq
  PROVE  /\ sif' \in [CPUs -> Interface] /\ InterfacesAreOrderly'
         /\ \A r \in Request :
              /\ SamePending(r) /\ \A d \in CPUs : AtTheBus(d, r)' <=> AtTheBus(d, r)
              /\ \A m \in Masters, t \in TokensOf(r) : Waits(m, t)' <=> Waits(m, t)
<1>1. sif' \in [CPUs -> Interface]
  BY DEF Types
<1>2. sif'[c] = a /\ \A d \in CPUs : d # c => sif'[d] = sif[d]
  BY DEF Types
<1>3. InterfacesAreOrderly'
  BY <1>2 DEF InterfacesAreOrderly
<1>4. ASSUME NEW r \in Request
      PROVE  /\ SamePending(r) /\ \A d \in CPUs : AtTheBus(d, r)' <=> AtTheBus(d, r)
             /\ \A m \in Masters, t \in TokensOf(r) : Waits(m, t)' <=> Waits(m, t)
  <2>1. SamePending(r) /\ \A d \in CPUs : AtTheBus(d, r)' <=> AtTheBus(d, r)
    BY <1>2 DEF SamePending, Pending, AtTheBus
  <2>2. \A t \in TokensOf(r) : t \in Items /\ t.type # "WRITEBACK"
    BY Transactions DEF TokensOf
  <2>3. \A m \in Masters, t \in TokensOf(r) : Waits(m, t)' <=> Waits(m, t)
    BY <1>2, <2>2 DEF Waits, Masters
  <2> QED BY <2>1, <2>3
<1> QED BY <1>1, <1>3, <1>4

-----------------------------------------------------------------------------
(* The steps the other caches cannot see *)

Stutters == LineOf' = LineOf /\ coheq' = coheq /\ RequestOf' = RequestOf

\* The parts of a queue have the type of its elements.
LEMMA QueueTypes ==
  ASSUME NEW S, NEW q \in Seq(S)
  PROVE  /\ q # <<>> => Head(q) \in S /\ Tail(q) \in Seq(S)
         /\ \A x \in S : Append(q, x) \in Seq(S)
OBVIOUS

\* L1DCacheWBufferSim: writes and reads come in.
LEMMA QuietWriteBuffer ==
  ASSUME CInv, NEW c \in CPUs, NEW op \in Op \cup {None}, NEW l \in Lines, L1DCacheWBufferSim(c, op, l)
  PROVE  CInv' /\ Stutters
<1> DEFINE Write == [line : Lines, pend : BOOLEAN]
           drain == wbuf[c] # <<>> /\ Len(reqq[c]) < L2_REQQ
           w     == IF drain THEN Tail(wbuf[c]) ELSE wbuf[c]
           item(o, x) == [op |-> o, line |-> x, todo |-> "tag"]
           q     == IF drain THEN Append(reqq[c], item("WRITE", Head(wbuf[c]).line)) ELSE reqq[c]
<1>1. Types /\ InterfacesAreOrderly
  BY DEF CInv
<1>2. wbuf[c] \in Seq(Write) /\ reqq[c] \in Seq(InputItem) /\ sif[c] \in Interface /\ Once(sif[c])
  BY <1>1 DEF Types, InterfacesAreOrderly
<1>3. w \in Seq(Write) /\ (drain => Head(wbuf[c]) \in Write)
  BY <1>2, QueueTypes
<1>4. \A o \in Op, x \in Lines : item(o, x) \in InputItem
  BY DEF InputItem
<1>5. q \in Seq(InputItem)
  <2>1. CASE drain
    <3>1. item("WRITE", Head(wbuf[c]).line) \in InputItem
      BY <1>3, <1>4, <2>1 DEF Op
    <3> QED BY <1>2, <3>1, <2>1, QueueTypes
  <2> QED BY <1>2, <2>1
<1>6. /\ \/ wbuf' = [wbuf EXCEPT ![c] = w] /\ reqq' = [reqq EXCEPT ![c] = q]
         \/ wbuf' = [wbuf EXCEPT ![c] = Append(w, [line |-> l, pend |-> FALSE])] /\ reqq' = [reqq EXCEPT ![c] = q]
         \/ op \in Op /\ wbuf' = [wbuf EXCEPT ![c] = w] /\ reqq' = [reqq EXCEPT ![c] = Append(q, item(op, l))]
      /\ sif' = IF drain THEN [sif EXCEPT ![c] = Drained(@, Head(wbuf[c]))] ELSE sif
      /\ UNCHANGED <<tags, mshr, coheq, replyq, dpipe, dcp, mmcq, bus, error>>
  <2>1. MayIssue(c, op, l) => op \in Op
    BY ConstantsAssumption DEF MayIssue
  <2> QED BY <2>1 DEF L1DCacheWBufferSim
<1>7. wbuf' \in [CPUs -> Seq(Write)] /\ reqq' \in [CPUs -> Seq(InputItem)]
  <2>1. Append(w, [line |-> l, pend |-> FALSE]) \in Seq(Write)
    BY <1>3, QueueTypes
  <2>2. op \in Op => Append(q, item(op, l)) \in Seq(InputItem)
    BY <1>4, <1>5, QueueTypes
  <2> DEFINE w2 == Append(w, [line |-> l, pend |-> FALSE])
             q2 == Append(q, item(op, l))
  <2>3. /\ wbuf' = [wbuf EXCEPT ![c] = w] \/ wbuf' = [wbuf EXCEPT ![c] = w2]
        /\ reqq' = [reqq EXCEPT ![c] = q] \/ (op \in Op /\ reqq' = [reqq EXCEPT ![c] = q2])
    BY <1>6
  <2>4. w \in Seq(Write) /\ w2 \in Seq(Write) /\ q \in Seq(InputItem) /\ (op \in Op => q2 \in Seq(InputItem))
    BY <1>3, <1>5, <2>1, <2>2
  <2> HIDE DEF w, q, w2, q2, Write
  <2>5. wbuf \in [CPUs -> Seq(Write)] /\ reqq \in [CPUs -> Seq(InputItem)]
    BY <1>1 DEF Types, Write
  <2> QED BY <2>3, <2>4, <2>5
<1> HIDE DEF w, q, item
<1> DEFINE a == IF drain THEN Drained(sif[c], Head(wbuf[c])) ELSE sif[c]
<1>8. /\ a \in Interface /\ a.pending_request = sif[c].pending_request
      /\ a.cohe_reply = sif[c].cohe_reply /\ a.slot = sif[c].slot /\ a.arbwaiters = sif[c].arbwaiters
  <2> DEFINE k == sif[c].stall_cohe - 1
  <2>1. k \in Int
    BY <1>2 DEF Interface
  <2>2. drain => a = IF Head(wbuf[c]).pend THEN [sif[c] EXCEPT !.stall_cohe = k] ELSE sif[c]
    BY DEF Drained
  <2> HIDE DEF k
  <2>3. [sif[c] EXCEPT !.stall_cohe = k] \in Interface
    BY <1>2, <2>1 DEF Interface
  <2>4. CASE drain /\ Head(wbuf[c]).pend
    <3>1. a = [sif[c] EXCEPT !.stall_cohe = k]
      BY <2>2, <2>4
    <3> HIDE DEF a
    <3> QED BY <1>2, <2>3, <3>1 DEF Interface
  <2>5. CASE ~(drain /\ Head(wbuf[c]).pend)
    <3>1. a = sif[c]
      BY <2>2, <2>5
    <3> QED BY <3>1, <1>2
  <2> QED BY <2>4, <2>5
<1>9. sif' = [sif EXCEPT ![c] = a]
  BY <1>1, <1>6 DEF Types
<1> HIDE DEF a, drain
<1>10. Once(a) /\ \A x \in Items : Has(a, x) <=> Has(sif[c], x)
  BY <1>2, <1>8 DEF Once, Has
<1>11. /\ sif' \in [CPUs -> Interface] /\ InterfacesAreOrderly'
       /\ \A r \in Request :
            /\ SamePending(r) /\ \A d \in CPUs : AtTheBus(d, r)' <=> AtTheBus(d, r)
            /\ \A m \in Masters, t \in TokensOf(r) : Waits(m, t)' <=> Waits(m, t)
  BY <1>1, <1>6, <1>8, <1>9, <1>10, QuietInterface
<1>12. LineOf' = LineOf /\ (\A d \in CPUs : SameWays(d)) /\ TagsAreExact'
  BY <1>6, SameTags DEF CInv
<1>13. ContainersAreOrderly'
  <2>1. PipesAreOrderly' /\ RepliesAreOrderly'
    BY <1>6 DEF CInv, PipesAreOrderly, RepliesAreOrderly
  <2>2. Types'
    BY <1>1, <1>6, <1>7, <1>11 DEF Types
  <2> QED BY <1>11, <1>12, <2>1, <2>2 DEF ContainersAreOrderly
<1>14. RequestsAreSame
  <2> SUFFICES ASSUME NEW r \in Request PROVE SameRequest(r)
    BY DEF RequestsAreSame
  <2>1. SameMSHR(r) /\ SameFill(r) /\ SameSnoops(r)
    BY <1>6 DEF SameMSHR, SameFill, InReplyq, ToInstall, Leaving, SameSnoops, Snoops
  <2>2. SameTokens(r)
    BY <1>6, <1>11 DEF SameTokens, Won, Runs
  <2>3. SameCopies(r)
    BY <1>6, <1>11 DEF SameCopies, InPipe, SetAside
  <2> QED BY <1>11, <2>1, <2>2, <2>3 DEF SameRequest
<1> QED BY <1>6, <1>12, <1>13, <1>14, SameRequests DEF Stutters

PipesAreQuiet == PipesAreOrderly' /\ \A r \in Request : SameItems(r)
InterfacesAreQuiet ==
  /\ InterfacesAreOrderly' /\ mmcq' = mmcq
  /\ \A r \in Request :
       /\ SamePending(r) /\ \A c \in CPUs : AtTheBus(c, r)' <=> AtTheBus(c, r)
       /\ \A m \in Masters, t \in TokensOf(r) : Waits(m, t)' <=> Waits(m, t)
BusIsQuiet ==
  \A r \in Request : \A m \in Masters, t \in TokensOf(r) :
    (Won(m, t)' <=> Won(m, t)) /\ (Runs(m, t)' <=> Runs(m, t))

\* A step at most changes the state of lines.
LEMMA QuietLine ==
  ASSUME CInv, Types', coheq' = coheq, replyq' = replyq, dcp' = dcp,
         TagsAreExact', \A c \in CPUs : SameWays(c),
         PipesAreQuiet, InterfacesAreQuiet, BusIsQuiet, \A r \in Request : SameMSHR(r)
  PROVE  CInv' /\ RequestOf' = RequestOf
<1>1. ContainersAreOrderly'
  BY DEF ContainersAreOrderly, CInv, PipesAreQuiet, InterfacesAreQuiet, RepliesAreOrderly
<1>2. RequestsAreSame
  <2> SUFFICES ASSUME NEW r \in Request PROVE SameRequest(r)
    BY DEF RequestsAreSame
  <2>1. SameFill(r) /\ SameSnoops(r)
    BY DEF PipesAreQuiet, SameItems, SameFill, InReplyq, ToInstall, SameSnoops, Snoops
  <2>2. SameTokens(r) /\ SamePending(r)
    BY DEF InterfacesAreQuiet, BusIsQuiet, SameTokens
  <2>3. SameCopies(r)
    BY DEF PipesAreQuiet, InterfacesAreQuiet, SameItems, SameCopies, SetAside
  <2> QED BY <2>1, <2>2, <2>3 DEF SameRequest
<1> QED BY <1>1, <1>2, SameRequests

\* A step that leaves lines, snoop queues and replies alone is quiet if the
\* pipes, the interfaces and the bus are.
LEMMA QuietStep ==
  ASSUME CInv, Types', LineOf' = LineOf, coheq' = coheq, replyq' = replyq, dcp' = dcp,
         TagsAreExact', \A c \in CPUs : SameWays(c),
         PipesAreQuiet, InterfacesAreQuiet, BusIsQuiet, \A r \in Request : SameMSHR(r)
  PROVE  CInv' /\ Stutters
BY QuietLine DEF Stutters

\* MSHRs that do not change.
LEMMA SameMSHRs ==
  ASSUME mshr' = mshr
  PROVE  \A r \in Request : SameMSHR(r)
BY DEF SameMSHR

\* Data pipes that do not change.
LEMMA SamePipes ==
  ASSUME PipesAreOrderly, dpipe' = dpipe
  PROVE  PipesAreQuiet
BY DEF PipesAreQuiet, PipesAreOrderly, SameItems, InPipe, Leaving

\* Interfaces that do not change.
LEMMA SameInterfaces ==
  ASSUME InterfacesAreOrderly, sif' = sif, mmcq' = mmcq
  PROVE  InterfacesAreQuiet
BY DEF InterfacesAreQuiet, InterfacesAreOrderly, SamePending, Pending, AtTheBus, Waits

\* A bus that does not change.
LEMMA SameTransfers ==
  ASSUME bus' = bus
  PROVE  BusIsQuiet
BY DEF BusIsQuiet, Won, Runs

\* The head request goes to the data pipe, now or later.
LEMMA GoesToDataPipe ==
  ASSUME CInv, NEW c \in CPUs, NEW kind \in {"HIT", "WB"}, reqq[c] # <<>>, ToDataPipe(c, kind)
  PROVE  /\ reqq' \in [CPUs -> Seq(InputItem)] /\ dpipe' \in [CPUs -> Seq(PipeItem)]
         /\ PipesAreQuiet
<1>1. Types /\ PipesAreOrderly /\ reqq[c] \in Seq(InputItem) /\ Head(reqq[c]) \in InputItem
      /\ Tail(reqq[c]) \in Seq(InputItem)
  BY QueueTypes DEF CInv, Types
<1> DEFINE i == DataItem(kind, Head(reqq[c]).line, None)
<1>2. i \in PipeItem /\ i.kind \notin {"REPLY", "C2C"}
  BY <1>1 DEF InputItem, PipeItem, DataItem
<1>3. CASE DataPipeHasRoom(c)
  <2>1. dpipe' = [dpipe EXCEPT ![c] = Append(@, i)] /\ reqq' = [reqq EXCEPT ![c] = Tail(@)]
    BY <1>3 DEF ToDataPipe
  <2>2. reqq' \in [CPUs -> Seq(InputItem)]
    BY <1>1, <2>1 DEF Types
  <2> HIDE DEF i
  <2> QED BY <1>1, <1>2, <2>1, <2>2, QuietAppend DEF PipesAreQuiet
<1>4. CASE ~DataPipeHasRoom(c)
  <2>1. dpipe' = dpipe /\ reqq' = [reqq EXCEPT ![c][1].todo = kind]
    BY <1>4 DEF ToDataPipe
  <2> DEFINE j == [reqq[c][1] EXCEPT !.todo = kind]
             q == [reqq[c] EXCEPT ![1] = j]
  <2>2. j \in InputItem
    BY <1>1 DEF InputItem
  <2>3. q \in Seq(InputItem)
    <3> HIDE DEF j
    <3>1. Len(reqq[c]) \in Nat /\ reqq[c] \in [1 .. Len(reqq[c]) -> InputItem]
      BY <1>1
    <3>2. q \in [1 .. Len(reqq[c]) -> InputItem]
      BY <3>1, <2>2
    <3> HIDE DEF q
    <3> QED BY <3>1, <3>2
  <2>4. reqq' = [reqq EXCEPT ![c] = q]
    BY <2>1
  <2> HIDE DEF j, q
  <2>5. reqq' \in [CPUs -> Seq(InputItem)]
    BY <1>1, <2>3, <2>4 DEF Types
  <2> QED BY <1>1, <2>1, <2>5, SamePipes DEF Types
<1> QED BY <1>3, <1>4

\* L2ProcessTagRequest, the head waiting for room in the data pipe.
LEMMA QuietRetry ==
  ASSUME CInv, NEW c \in CPUs, TagRequestRetry(c)
  PROVE  CInv' /\ Stutters
<1>1. PICK kind \in {"HIT", "WB"} : RequestAtTag(c, kind) /\ ToDataPipe(c, kind)
  BY DEF TagRequestRetry
<1>2. UNCHANGED <<wbuf, tags, mshr, coheq, replyq, dcp, sif, mmcq, bus>>
  BY DEF TagRequestRetry
<1>3. /\ reqq' \in [CPUs -> Seq(InputItem)] /\ dpipe' \in [CPUs -> Seq(PipeItem)]
      /\ PipesAreQuiet
  BY <1>1, GoesToDataPipe DEF RequestAtTag
<1>4. Types'
  BY <1>2, <1>3 DEF CInv, Types
<1> QED BY <1>2, <1>3, <1>4, QuietStep, SameTags, SameMSHRs, SameInterfaces, SameTransfers DEF CInv

\* L2ProcessDataReq, a hit.
LEMMA QuietHit ==
  ASSUME CInv, NEW c \in CPUs, DataHit(c)
  PROVE  CInv' /\ Stutters
<1>1. UNCHANGED <<wbuf, reqq, tags, mshr, coheq, replyq, dcp, sif, mmcq, bus>>
  BY DEF DataHit
<1>2. dpipe' \in [CPUs -> Seq(PipeItem)] /\ PipesAreQuiet
  BY QuietTail DEF DataHit, DataHead, PopData, CInv, PipesAreQuiet
<1>3. Types'
  BY <1>1, <1>2 DEF CInv, Types
<1> QED BY <1>1, <1>2, <1>3, QuietStep, SameTags, SameMSHRs, SameInterfaces, SameTransfers DEF CInv

\* L2ProcessDataReq, a write-back.
LEMMA QuietWriteback ==
  ASSUME CInv, NEW c \in CPUs, DataWriteback(c)
  PROVE  CInv' /\ Stutters
<1>1. UNCHANGED <<wbuf, reqq, tags, mshr, coheq, replyq, dcp, mmcq, bus>>
  BY DEF DataWriteback
<1>2. dpipe' \in [CPUs -> Seq(PipeItem)] /\ PipesAreQuiet
  BY QuietTail DEF DataWriteback, DataHead, PopData, CInv, PipesAreQuiet
<1>3. dpipe[c] \in Seq(PipeItem) /\ dpipe[c] # <<>> /\ sif[c] \in Interface /\ Once(sif[c])
  BY DEF CInv, Types, InterfacesAreOrderly, DataWriteback, DataHead
<1>4. Head(dpipe[c]).line \in Lines
  <2>1. Head(dpipe[c]) \in PipeItem
    BY <1>3, QueueTypes
  <2> QED BY <2>1 DEF PipeItem
<1> DEFINE a == StartWriteback(sif[c], c, Head(dpipe[c]).line)
<1>5. /\ a \in Interface /\ Once(a) /\ a.cohe_reply = sif[c].cohe_reply
      /\ a.pending_request = sif[c].pending_request
      /\ \A x \in Items : x.type # "WRITEBACK" => (Has(a, x) <=> Has(sif[c], x))
  BY <1>3, <1>4, StartsWriteback
<1>6. sif' = [sif EXCEPT ![c] = a]
  BY DEF DataWriteback
<1> HIDE DEF a
<1>7. sif' \in [CPUs -> Interface] /\ InterfacesAreQuiet
  BY <1>1, <1>5, <1>6, QuietInterface DEF CInv, InterfacesAreQuiet
<1>8. Types'
  BY <1>1, <1>2, <1>7 DEF CInv, Types
<1> QED BY <1>1, <1>2, <1>7, <1>8, QuietStep, SameTags, SameMSHRs, SameTransfers DEF CInv

\* Fields of an MSHR that only its own cache looks at.
LEMMA QuietMSHR ==
  ASSUME CInv, NEW r \in Request, NEW m \in MSHR, mshr' = [mshr EXCEPT ![r] = m],
         m.valid = mshr[r].valid, m.phase = mshr[r].phase,
         m.type = mshr[r].type, m.cohe_type = mshr[r].cohe_type,
         m.misscache = mshr[r].misscache, m.way = mshr[r].way,
         m.cohe_count = mshr[r].cohe_count, m.c2c_copy = mshr[r].c2c_copy,
         m.data_rtn = mshr[r].data_rtn, m.memtrans = mshr[r].memtrans,
         m.has_writes => mshr[r].has_writes, mshr[r].issued => m.issued
  PROVE  mshr' \in [Request -> MSHR] /\ \A q \in Request : SameMSHR(q)
<1>1. mshr \in [Request -> MSHR]
  BY DEF CInv, Types
<1>2. mshr' \in [Request -> MSHR] /\ mshr'[r] = m /\ \A q \in Request : q # r => mshr'[q] = mshr[q]
  BY <1>1
<1> QED BY <1>2 DEF SameMSHR

\* L2Cache_check_mshr, a write after a read.
LEMMA QuietStallWAR ==
  ASSUME CInv, NEW c \in CPUs, TagRequestStallWAR(c)
  PROVE  CInv' /\ Stutters
<1> DEFINE r == <<c, Head(reqq[c]).line>>
           m == [mshr[r] EXCEPT !.stall_WAR = TRUE]
<1>1. UNCHANGED <<wbuf, reqq, tags, coheq, replyq, dpipe, dcp, sif, mmcq, bus>>
  BY DEF TagRequestStallWAR
<1>2. r \in Request
  <2>1. reqq[c] \in Seq(InputItem) /\ reqq[c] # <<>>
    BY DEF CInv, Types, TagRequestStallWAR, RequestAtTag
  <2>2. Head(reqq[c]) \in InputItem
    BY <2>1, QueueTypes
  <2> QED BY <2>2, Names DEF InputItem
<1>3. mshr' = [mshr EXCEPT ![r] = m]
  BY DEF TagRequestStallWAR
<1> HIDE DEF r
<1>4. mshr[r] \in MSHR
  BY <1>2 DEF CInv, Types
<1>5. /\ m \in MSHR /\ m.valid = mshr[r].valid /\ m.phase = mshr[r].phase
      /\ m.type = mshr[r].type /\ m.cohe_type = mshr[r].cohe_type
      /\ m.misscache = mshr[r].misscache /\ m.way = mshr[r].way
      /\ m.cohe_count = mshr[r].cohe_count /\ m.c2c_copy = mshr[r].c2c_copy
      /\ m.data_rtn = mshr[r].data_rtn /\ m.memtrans = mshr[r].memtrans
      /\ m.has_writes = mshr[r].has_writes /\ m.issued = mshr[r].issued
  BY <1>4 DEF MSHR
<1> HIDE DEF m
<1>6. mshr' \in [Request -> MSHR] /\ \A q \in Request : SameMSHR(q)
  BY <1>2, <1>3, <1>5, QuietMSHR
<1>7. Types'
  BY <1>1, <1>6 DEF CInv, Types
<1> QED BY <1>1, <1>6, <1>7, QuietStep, SameTags, SamePipes, SameInterfaces, SameTransfers DEF CInv

\* L2Cache_check_mshr, a request that joins another.
LEMMA QuietCoalesce ==
  ASSUME CInv, NEW c \in CPUs, TagRequestCoalesce(c)
  PROVE  CInv' /\ Stutters
<1> DEFINE op == Head(reqq[c]).op
           r == <<c, Head(reqq[c]).line>>
           k == Append(mshr[r].coal, op)
           m == [mshr[r] EXCEPT !.coal = k, !.has_writes = FALSE]
<1>1. UNCHANGED <<wbuf, tags, coheq, replyq, dpipe, dcp, sif, mmcq, bus>>
  BY DEF TagRequestCoalesce
<1>2. r \in Request /\ op \in Op /\ Tail(reqq[c]) \in Seq(InputItem)
  <2>1. reqq[c] \in Seq(InputItem) /\ reqq[c] # <<>>
    BY DEF CInv, Types, TagRequestCoalesce, RequestAtTag
  <2>2. Head(reqq[c]) \in InputItem /\ Tail(reqq[c]) \in Seq(InputItem)
    BY <2>1, QueueTypes
  <2> QED BY <2>2, Names DEF InputItem
<1>3. mshr' = [mshr EXCEPT ![r] = m] /\ reqq' = [reqq EXCEPT ![c] = Tail(@)]
  BY DEF TagRequestCoalesce, HasWritesAfterCoalescing
<1>4. mshr[r] \in MSHR
  BY <1>2 DEF CInv, Types
<1>5. k \in Seq(Op)
  <2>1. mshr[r].coal \in Seq(Op)
    BY <1>4 DEF MSHR
  <2> HIDE DEF op, r
  <2> QED BY <1>2, <2>1, QueueTypes
<1> HIDE DEF r, op, k
<1>6. /\ m \in MSHR /\ m.valid = mshr[r].valid /\ m.phase = mshr[r].phase
      /\ m.type = mshr[r].type /\ m.cohe_type = mshr[r].cohe_type
      /\ m.misscache = mshr[r].misscache /\ m.way = mshr[r].way
      /\ m.cohe_count = mshr[r].cohe_count /\ m.c2c_copy = mshr[r].c2c_copy
      /\ m.data_rtn = mshr[r].data_rtn /\ m.memtrans = mshr[r].memtrans
      /\ m.has_writes = FALSE /\ m.issued = mshr[r].issued
  BY <1>4, <1>5 DEF MSHR
<1> HIDE DEF m
<1>7. mshr' \in [Request -> MSHR] /\ \A q \in Request : SameMSHR(q)
  BY <1>2, <1>3, <1>6, QuietMSHR
<1>8. Types'
  BY <1>1, <1>2, <1>3, <1>7 DEF CInv, Types
<1> QED BY <1>1, <1>7, <1>8, QuietStep, SameTags, SamePipes, SameInterfaces, SameTransfers DEF CInv

\* MSHRTakesNote, as a record of the MSHR that takes it.
LEMMA NoteTaken ==
  ASSUME CInv, NEW c \in CPUs, NEW r \in Request
  PROVE  LET q == <<c, r[2]>>
         IN \E m \in MSHR :
              /\ MSHRTakesNote(c, r) = [mshr EXCEPT ![q] = m]
              /\ m.valid = mshr[q].valid /\ m.phase = mshr[q].phase
              /\ m.type = mshr[q].type /\ m.cohe_type = mshr[q].cohe_type
              /\ m.misscache = mshr[q].misscache /\ m.way = mshr[q].way
              /\ m.cohe_count = mshr[q].cohe_count /\ m.c2c_copy = mshr[q].c2c_copy
              /\ m.data_rtn = mshr[q].data_rtn /\ m.memtrans = mshr[q].memtrans
              /\ m.has_writes = mshr[q].has_writes /\ m.issued = mshr[q].issued
<1> DEFINE q == <<c, r[2]>>
           m == [mshr[q] EXCEPT !.pending_cohe = r]
<1>1. q \in Request /\ mshr \in [Request -> MSHR] /\ mshr[q] \in MSHR
  BY Names DEF CInv, Types
<1>2. MSHRTakesNote(c, r) = [mshr EXCEPT ![q] = m] \/ MSHRTakesNote(c, r) = [mshr EXCEPT ![q] = mshr[q]]
  BY <1>1 DEF MSHRTakesNote
<1> HIDE DEF q
<1>3. /\ m \in MSHR /\ m.valid = mshr[q].valid /\ m.phase = mshr[q].phase
      /\ m.type = mshr[q].type /\ m.cohe_type = mshr[q].cohe_type
      /\ m.misscache = mshr[q].misscache /\ m.way = mshr[q].way
      /\ m.cohe_count = mshr[q].cohe_count /\ m.c2c_copy = mshr[q].c2c_copy
      /\ m.data_rtn = mshr[q].data_rtn /\ m.memtrans = mshr[q].memtrans
      /\ m.has_writes = mshr[q].has_writes /\ m.issued = mshr[q].issued
  BY <1>1 DEF MSHR
<1> HIDE DEF m
<1> QED BY <1>1, <1>2, <1>3 DEF q

\* L2ProcessTagCohe, a snoop that an MSHR holds back.
LEMMA QuietSnoopStall ==
  ASSUME CInv, NEW c \in CPUs, SnoopStallOnMSHR(c)
  PROVE  CInv' /\ Stutters
<1> DEFINE r == Head(coheq[c])
           q == <<c, r[2]>>
<1>1. UNCHANGED <<wbuf, reqq, tags, coheq, replyq, dpipe, dcp, sif, mmcq, bus>>
  BY DEF SnoopStallOnMSHR
<1>2. r \in Request
  <2>1. coheq[c] \in Seq(Request) /\ coheq[c] # <<>>
    BY DEF CInv, Types, SnoopStallOnMSHR, ReachesMSHR, SnoopAtTag
  <2> QED BY <2>1, QueueTypes
<1>3. mshr' = MSHRTakesNote(c, r)
  BY DEF SnoopStallOnMSHR
<1>4. q \in Request
  BY <1>2, Names
<1> HIDE DEF r
<1>5. PICK m \in MSHR :
        /\ mshr' = [mshr EXCEPT ![q] = m]
        /\ m.valid = mshr[q].valid /\ m.phase = mshr[q].phase
        /\ m.type = mshr[q].type /\ m.cohe_type = mshr[q].cohe_type
        /\ m.misscache = mshr[q].misscache /\ m.way = mshr[q].way
        /\ m.cohe_count = mshr[q].cohe_count /\ m.c2c_copy = mshr[q].c2c_copy
        /\ m.data_rtn = mshr[q].data_rtn /\ m.memtrans = mshr[q].memtrans
        /\ m.has_writes = mshr[q].has_writes /\ m.issued = mshr[q].issued
  BY <1>2, <1>3, NoteTaken
<1> HIDE DEF q
<1>6. mshr' \in [Request -> MSHR] /\ \A x \in Request : SameMSHR(x)
  BY <1>4, <1>5, QuietMSHR
<1>7. Types'
  BY <1>1, <1>6 DEF CInv, Types
<1> QED BY <1>1, <1>6, <1>7, QuietStep, SameTags, SamePipes, SameInterfaces, SameTransfers DEF CInv

\* L2ProcessFlushPurge of a line with an MSHR.
LEMMA QuietFlush ==
  ASSUME CInv, NEW c \in CPUs, FlushPurge(c), mshr[<<c, Head(reqq[c]).line>>].valid
  PROVE  CInv' /\ Stutters
<1> DEFINE op == Head(reqq[c]).op
           r == <<c, Head(reqq[c]).line>>
           m == [mshr[r] EXCEPT !.pend_opers = op]
<1>1. /\ UNCHANGED <<wbuf, tags, coheq, replyq, dpipe, dcp, sif, mmcq, bus>>
      /\ mshr' = [mshr EXCEPT ![r] = m] /\ reqq' = [reqq EXCEPT ![c] = Tail(@)]
  BY DEF FlushPurge
<1>2. r \in Request /\ op \in Op /\ Tail(reqq[c]) \in Seq(InputItem)
  <2>1. reqq[c] \in Seq(InputItem) /\ reqq[c] # <<>>
    BY DEF CInv, Types, FlushPurge, RequestAtTag
  <2>2. Head(reqq[c]) \in InputItem /\ Tail(reqq[c]) \in Seq(InputItem)
    BY <2>1, QueueTypes
  <2> QED BY <2>2, Names DEF InputItem
<1>3. mshr[r] \in MSHR
  BY <1>2 DEF CInv, Types
<1> HIDE DEF r, op
<1>4. /\ m \in MSHR /\ m.valid = mshr[r].valid /\ m.phase = mshr[r].phase
      /\ m.type = mshr[r].type /\ m.cohe_type = mshr[r].cohe_type
      /\ m.misscache = mshr[r].misscache /\ m.way = mshr[r].way
      /\ m.cohe_count = mshr[r].cohe_count /\ m.c2c_copy = mshr[r].c2c_copy
      /\ m.data_rtn = mshr[r].data_rtn /\ m.memtrans = mshr[r].memtrans
      /\ m.has_writes = mshr[r].has_writes /\ m.issued = mshr[r].issued
  BY <1>2, <1>3 DEF MSHR
<1> HIDE DEF m
<1>5. mshr' \in [Request -> MSHR] /\ \A q \in Request : SameMSHR(q)
  BY <1>1, <1>2, <1>4, QuietMSHR
<1>6. Types'
  BY <1>1, <1>2, <1>5 DEF CInv, Types
<1> QED BY <1>1, <1>5, <1>6, QuietStep, SameTags, SamePipes, SameInterfaces, SameTransfers DEF CInv

\* A cache's own request that has to wait at the head of its snoop queue.
LEMMA QuietIssue ==
  ASSUME CInv, NEW c \in CPUs, NEW r \in Request, mshr' = [mshr EXCEPT ![r].issued = TRUE],
         UNCHANGED <<wbuf, reqq, tags, coheq, replyq, dpipe, dcp, sif, mmcq, bus>>
  PROVE  CInv' /\ Stutters
<1> DEFINE m == [mshr[r] EXCEPT !.issued = TRUE]
<1>1. mshr' = [mshr EXCEPT ![r] = m]
  OBVIOUS
<1>2. mshr[r] \in MSHR
  BY DEF CInv, Types
<1>3. /\ m \in MSHR /\ m.valid = mshr[r].valid /\ m.phase = mshr[r].phase
      /\ m.type = mshr[r].type /\ m.cohe_type = mshr[r].cohe_type
      /\ m.misscache = mshr[r].misscache /\ m.way = mshr[r].way
      /\ m.cohe_count = mshr[r].cohe_count /\ m.c2c_copy = mshr[r].c2c_copy
      /\ m.data_rtn = mshr[r].data_rtn /\ m.memtrans = mshr[r].memtrans
      /\ m.has_writes = mshr[r].has_writes /\ m.issued = TRUE
  BY <1>2 DEF MSHR
<1> HIDE DEF m
<1>4. mshr' \in [Request -> MSHR] /\ \A q \in Request : SameMSHR(q)
  BY <1>1, <1>3, QuietMSHR
<1>5. Types'
  BY <1>4 DEF CInv, Types
<1> QED BY <1>4, <1>5, QuietStep, SameTags, SamePipes, SameInterfaces, SameTransfers DEF CInv

\* L2ProcessTagCohe, a snoop that a buffered write holds back.
LEMMA QuietWriteBufferStall ==
  ASSUME CInv, NEW c \in CPUs, SnoopStallOnWriteBuffer(c)
  PROVE  CInv' /\ Stutters
<1> DEFINE Write == [line : Lines, pend : BOOLEAN]
           N == WriteBufferMatches(c, Head(coheq[c])[2])
           n == CHOOSE n \in N : \A k \in N : n <= k
           k == sif[c].stall_cohe + 1
           a == [sif[c] EXCEPT !.stall_cohe = k]
<1>1. /\ UNCHANGED <<reqq, tags, mshr, coheq, replyq, dpipe, dcp, mmcq, bus>>
      /\ wbuf' = [wbuf EXCEPT ![c][n].pend = TRUE] /\ sif' = [sif EXCEPT ![c] = a]
  BY DEF SnoopStallOnWriteBuffer
<1>2. wbuf[c] \in Seq(Write) /\ sif[c] \in Interface /\ Once(sif[c])
  BY DEF CInv, Types, InterfacesAreOrderly
<1>3. wbuf' \in [CPUs -> Seq(Write)]
  <2> DEFINE b == [wbuf[c][n] EXCEPT !.pend = TRUE]
             w == [wbuf[c] EXCEPT ![n] = b]
  <2>1. wbuf' = [wbuf EXCEPT ![c] = w]
    BY <1>1
  <2> HIDE DEF n, Write
  <2>2. Len(wbuf[c]) \in Nat /\ wbuf[c] \in [1 .. Len(wbuf[c]) -> Write]
    BY <1>2
  <2>3. n \in 1 .. Len(wbuf[c]) => b \in Write
    BY <2>2 DEF Write
  <2>4. w \in [1 .. Len(wbuf[c]) -> Write]
    <3> HIDE DEF b
    <3> QED BY <2>2, <2>3
  <2> HIDE DEF w, b
  <2>5. w \in Seq(Write)
    BY <2>2, <2>4
  <2>6. wbuf \in [CPUs -> Seq(Write)]
    BY DEF CInv, Types, Write
  <2> QED BY <2>1, <2>5, <2>6
<1>4. k \in Int
  BY <1>2 DEF Interface
<1> HIDE DEF k, n, N
<1>5. /\ a \in Interface /\ a.pending_request = sif[c].pending_request
      /\ a.cohe_reply = sif[c].cohe_reply /\ a.slot = sif[c].slot /\ a.arbwaiters = sif[c].arbwaiters
  BY <1>2, <1>4 DEF Interface
<1> HIDE DEF a
<1>6. Once(a) /\ \A x \in Items : Has(a, x) <=> Has(sif[c], x)
  BY <1>2, <1>5 DEF Once, Has
<1>7. sif' \in [CPUs -> Interface] /\ InterfacesAreQuiet
  BY <1>1, <1>5, <1>6, QuietInterface DEF CInv, InterfacesAreQuiet
<1>8. Types'
  BY <1>1, <1>3, <1>7 DEF CInv, Types
<1> QED BY <1>1, <1>7, <1>8, QuietStep, SameTags, SameMSHRs, SamePipes, SameTransfers DEF CInv

\* Bus_send_writeback: a write-back leaves, the pending one takes its buffer.
LEMMA QuietPerformWriteback ==
  ASSUME CInv, PerformWriteback
  PROVE  CInv' /\ Stutters
<1> DEFINE c  == bus.cur.who
           k  == SubSeq(sif[c].outbuffer, 2, Len(sif[c].outbuffer))
           s  == [sif[c] EXCEPT !.outbuffer = k]
           l  == s.pending_writeback
           j1 == s.stall_reply - 1
           j2 == s.stall_cohe - 1
           s2 == [s EXCEPT !.pending_writeback = None, !.stall_reply = j1, !.stall_cohe = j2]
           a  == IF l = None THEN s ELSE StartWriteback(s2, c, l)
<1>1. /\ UNCHANGED <<wbuf, reqq, tags, mshr, coheq, replyq, dpipe, dcp, mmcq>>
      /\ sif' = [sif EXCEPT ![c] = a] /\ bus' = [bus EXCEPT !.cur = None]
      /\ bus.cur # None /\ bus.cur.t.type = "WRITEBACK"
  BY DEF PerformWriteback, OnBus
<1>2. Types /\ InterfacesAreOrderly
  BY DEF CInv
<1>3. sif' \in [CPUs -> Interface] /\ InterfacesAreQuiet
  <2>1. CASE c \in CPUs
    <3>1. sif[c] \in Interface /\ Once(sif[c])
      BY <1>2, <2>1 DEF Types, InterfacesAreOrderly
    <3>2. k \in Seq(Lines)
      <4>1. sif[c].outbuffer \in Seq(Lines)
        BY <3>1 DEF Interface
      <4> QED BY <4>1
    <3> HIDE DEF k
    <3>3. /\ s \in Interface /\ s.slot = sif[c].slot /\ s.arbwaiters = sif[c].arbwaiters
          /\ s.cohe_reply = sif[c].cohe_reply /\ s.pending_request = sif[c].pending_request
      BY <3>1, <3>2 DEF Interface
    <3> HIDE DEF s
    <3>4. j1 \in Int /\ j2 \in Int /\ l \in Lines \cup {None}
      BY <3>3 DEF Interface
    <3> HIDE DEF j1, j2
    <3>5. /\ s2 \in Interface /\ s2.slot = sif[c].slot /\ s2.arbwaiters = sif[c].arbwaiters
          /\ s2.cohe_reply = sif[c].cohe_reply /\ s2.pending_request = sif[c].pending_request
      BY <3>3, <3>4 DEF Interface
    <3> HIDE DEF s2
    <3>6. /\ Once(s) /\ \A x : Has(s, x) <=> Has(sif[c], x)
          /\ Once(s2) /\ \A x : Has(s2, x) <=> Has(sif[c], x)
      <4>1. Once(s) /\ \A x : Has(s, x) <=> Has(sif[c], x)
        BY <3>1, <3>3 DEF Once, Has
      <4>2. Once(s2) /\ \A x : Has(s2, x) <=> Has(sif[c], x)
        BY <3>1, <3>5 DEF Once, Has
      <4> QED BY <4>1, <4>2
    <3>7. /\ a \in Interface /\ Once(a) /\ a.cohe_reply = sif[c].cohe_reply
          /\ a.pending_request = sif[c].pending_request
          /\ \A x \in Items : x.type # "WRITEBACK" => (Has(a, x) <=> Has(sif[c], x))
      <4>1. CASE l = None
        BY <4>1, <3>3, <3>6
      <4>2. CASE l # None
        <5>1. l \in Lines
          BY <4>2, <3>4
        <5> HIDE DEF l
        <5> QED BY <5>1, <4>2, <2>1, <3>5, <3>6, StartsWriteback
      <4> QED BY <4>1, <4>2
    <3> HIDE DEF a
    <3> QED BY <1>1, <1>2, <2>1, <3>7, QuietInterface DEF InterfacesAreQuiet
  <2>2. CASE c \notin CPUs
    <3> HIDE DEF a
    <3>1. sif' = sif
      BY <1>1, <1>2, <2>2 DEF Types
    <3> QED BY <3>1, <1>1, <1>2, SameInterfaces DEF Types
  <2> QED BY <2>1, <2>2
<1> HIDE DEF a
<1>4. BusIsQuiet /\ bus' \in [winner : Grants \cup {None}, cur : Grants \cup {None},
                              req_count : Int, mmc_master : BOOLEAN]
  <2>1. bus'.winner = bus.winner /\ bus'.cur = None
    BY <1>1, <1>2 DEF Types
  <2>2. ASSUME NEW r \in Request, NEW m \in Masters, NEW t \in TokensOf(r)
        PROVE  ~Runs(m, t) /\ ~Runs(m, t)'
    <3>1. t \in Items /\ t.type # "WRITEBACK"
      BY Transactions DEF TokensOf
    <3>2. [who |-> m, t |-> t] # None
      BY <3>1, Transactions
    <3> QED BY <1>1, <2>1, <3>1, <3>2 DEF Runs
  <2>3. bus' \in [winner : Grants \cup {None}, cur : Grants \cup {None},
                  req_count : Int, mmc_master : BOOLEAN]
    BY <1>1, <1>2 DEF Types
  <2> QED BY <2>1, <2>2, <2>3 DEF BusIsQuiet, Won
<1>5. Types'
  BY <1>1, <1>2, <1>3, <1>4 DEF Types
<1> QED BY <1>1, <1>3, <1>4, <1>5, QuietStep, SameTags, SameMSHRs, SamePipes DEF CInv

-----------------------------------------------------------------------------
(* Transactions that wait, win and start *)

\* If every request stays sound and looks the same, the invariant stays and
\* Snooping sees no change.
LEMMA AllSound ==
  ASSUME CInv, ContainersAreOrderly',
         \A r \in Request : WayIsKnown(r)' /\ RequestIsSound(r)' /\ RequestOf'[r] = RequestOf[r]
  PROVE  CInv' /\ RequestOf' = RequestOf
BY DEF CInv, ContainersAreOrderly, RequestOf

\* A transaction goes from one place to the next.
TokensMove(r) ==
  /\ SentOnce(r)'
  /\ \A m \in Masters, t \in TokensOf(r) : At(m, t)' => At(m, t)
  /\ \A m \in Masters : Runs(m, REQ(r))' <=> Runs(m, REQ(r))

\* A transaction that goes from waiting to winning, or from winning to the bus,
\* moves only.
LEMMA MovedTokens ==
  ASSUME NEW r \in Request, Types, Types', SameMSHR(r), SameFill(r), SameSnoops(r), SameCopies(r),
         SamePending(r), TokensMove(r), RequestIsSound(r)
  PROVE  RequestIsSound(r)' /\ RequestOf'[r] = RequestOf[r]
<1>1. OnItsWay(r)' <=> OnItsWay(r)
  BY OnTheWay DEF Types, OnItsWay, Runs, REQ, TokensMove
<1>2. RequestGoesOnce(r)'
  BY Tokens DEF RequestIsSound, RequestGoesOnce, SamePending, SameMSHR, TokensMove
<1>3. ReplyGoesOnce(r)'
  BY Tokens DEF RequestIsSound, ReplyGoesOnce, SameMSHR, TokensMove
<1>4. LineFillsOnce(r)'
  BY DEF RequestIsSound, LineFillsOnce, SameFill, SameMSHR
<1>5. CopyGoesOnce(r)'
  <2>1. \A c \in CPUs : Holds(c, r)' => Holds(c, r)
    BY DEF SameCopies, Holds
  <2> QED BY <1>1, <2>1, Tokens DEF RequestIsSound, CopyGoesOnce, SameMSHR, SameCopies, TokensMove
<1> QED BY <1>1, <1>2, <1>3, <1>4, <1>5, MovedRequestIsSound DEF SameFill, TokensMove

\* A step of the bus that moves transactions.
LEMMA BusMoves ==
  ASSUME CInv, Types', InterfacesAreOrderly', RepliesAreOrderly',
         UNCHANGED <<tags, coheq, replyq, dpipe, dcp>>,
         \A c \in CPUs : sif'[c].cohe_reply = sif[c].cohe_reply
                         /\ sif'[c].pending_request = sif[c].pending_request,
         \A r \in Request : SameMSHR(r) /\ TokensMove(r)
  PROVE  CInv' /\ Stutters
<1>1. TagsAreExact' /\ LineOf' = LineOf /\ \A c \in CPUs : SameWays(c)
  BY SameTags DEF CInv
<1>2. PipesAreOrderly'
  BY SamePipes DEF PipesAreQuiet, CInv
<1>3. ASSUME NEW r \in Request
      PROVE  WayIsKnown(r)' /\ RequestIsSound(r)' /\ RequestOf'[r] = RequestOf[r]
  <2>1. SameFill(r) /\ SameSnoops(r)
    BY DEF SameFill, InReplyq, ToInstall, Leaving, SameSnoops, Snoops
  <2>2. SameCopies(r) /\ SamePending(r)
    BY DEF SameCopies, InPipe, SetAside, AtTheBus, SamePending, Pending
  <2>3. WayIsKnown(r) /\ RequestIsSound(r) /\ SameWays(r[1]) /\ Types
    BY <1>1, Names DEF CInv
  <2> QED BY <2>1, <2>2, <2>3, SameWaysAreKnown, MovedTokens
<1>4. ContainersAreOrderly'
  BY <1>1, <1>2 DEF ContainersAreOrderly
<1> QED BY <1>1, <1>3, <1>4, AllSound DEF Stutters

\* Bus_arbitrator: a cache wins.
LEMMA QuietArbitrate ==
  ASSUME CInv, NEW c \in CPUs, Arbitrate(c)
  PROVE  CInv' /\ Stutters
<1> DEFINE t == sif[c].slot
           a == [sif[c] EXCEPT !.slot = None]
<1>1. /\ UNCHANGED <<wbuf, reqq, tags, mshr, coheq, replyq, dpipe, dcp, mmcq>>
      /\ sif' = [sif EXCEPT ![c] = a] /\ bus' = [bus EXCEPT !.winner = [who |-> c, t |-> t]]
      /\ bus.winner = None /\ t # None
  BY DEF Arbitrate, Eligible
<1>2. Types /\ sif[c] \in Interface /\ Once(sif[c]) /\ c \in Masters /\ c # MMC
  BY Names DEF CInv, Types, InterfacesAreOrderly, Masters
<1>3. /\ a \in Interface /\ Once(a) /\ SameButWaiting(sif[c], a) /\ t \in Items
      /\ \A x \in Items : Has(a, x) => Has(sif[c], x)
      /\ t.type # "WRITEBACK" => ~Has(a, t)
  BY <1>1, <1>2, SlotEmpties
<1> HIDE DEF a
<1>4. sif'[c] = a /\ \A d \in CPUs : d # c => sif'[d] = sif[d]
  BY <1>1, <1>2 DEF Types
<1>5. bus'.winner = [who |-> c, t |-> t] /\ bus'.cur = bus.cur
  BY <1>1, <1>2 DEF Types
<1>6. Types'
  <2>1. [who |-> c, t |-> t] \in Grants
    BY <1>2, <1>3, Transactions
  <2>2. sif' \in [CPUs -> Interface]
    BY <1>1, <1>2, <1>3 DEF Types
  <2>3. bus' \in [winner : Grants \cup {None}, cur : Grants \cup {None},
                  req_count : Int, mmc_master : BOOLEAN]
    BY <1>1, <1>2, <2>1 DEF Types
  <2> QED BY <1>1, <1>2, <2>2, <2>3 DEF Types
<1>7. InterfacesAreOrderly' /\ RepliesAreOrderly'
  BY <1>1, <1>3, <1>4 DEF CInv, InterfacesAreOrderly, RepliesAreOrderly
<1>8. ASSUME NEW r \in Request PROVE TokensMove(r)
  <2>1. \A x \in TokensOf(r) : x \in Items /\ x.type # "WRITEBACK"
    BY Transactions DEF TokensOf
  <2>2. \A m \in Masters, x \in TokensOf(r) : Waits(m, x)' => Waits(m, x) /\ ~(m = c /\ x = t)
    BY <1>1, <1>2, <1>3, <1>4, <2>1 DEF Waits, Masters
  <2>3. \A m \in Masters, x \in TokensOf(r) : Won(m, x)' => m = c /\ x = t /\ Waits(m, x)
    BY <1>2, <1>5 DEF Won, Waits, Has
  <2>4. \A m \in Masters, x \in TokensOf(r) : Runs(m, x)' <=> Runs(m, x)
    BY <1>5 DEF Runs
  <2>5. SentOnce(r)
    BY DEF CInv, RequestIsSound
  <2> QED BY <2>2, <2>3, <2>4, <2>5, Tokens DEF TokensMove, SentOnce, At
<1>9. \A d \in CPUs : sif'[d].cohe_reply = sif[d].cohe_reply
                      /\ sif'[d].pending_request = sif[d].pending_request
  BY <1>3, <1>4 DEF SameButWaiting
<1> QED BY <1>1, <1>6, <1>7, <1>8, <1>9, BusMoves, SameMSHRs

\* The memory controller's next reply leaves its queue.
LEMMA ReplyLeaves ==
  ASSUME CInv, mmcq # <<>>, mmcq' = Tail(mmcq)
  PROVE  /\ Head(mmcq) \in Request /\ mmcq' \in Seq(Request) /\ Among(Head(mmcq), mmcq)
         /\ ~Among(Head(mmcq), mmcq') /\ \A x : Among(x, mmcq') => Among(x, mmcq)
         /\ \A n, k \in 1 .. Len(mmcq') : mmcq'[n] = mmcq'[k] => n = k
<1>1. mmcq \in Seq(Request) /\ \A n, k \in 1 .. Len(mmcq) : mmcq[n] = mmcq[k] => n = k
  BY DEF CInv, Types, RepliesAreOrderly
<1>2. /\ Head(mmcq) = mmcq[1] /\ 1 \in 1 .. Len(mmcq) /\ Head(mmcq) \in Request
      /\ Tail(mmcq) \in Seq(Request)
      /\ \A n \in 1 .. Len(Tail(mmcq)) : Tail(mmcq)[n] = mmcq[n + 1] /\ n + 1 \in 1 .. Len(mmcq)
  BY <1>1, TailFacts
<1>3. ~Among(Head(mmcq), Tail(mmcq))
  BY <1>1, <1>2, AmongTail
<1>4. \A x : Among(x, Tail(mmcq)) => Among(x, mmcq)
  BY <1>1, AmongTail
<1>5. ASSUME NEW n \in 1 .. Len(Tail(mmcq)), NEW k \in 1 .. Len(Tail(mmcq)),
             Tail(mmcq)[n] = Tail(mmcq)[k]
      PROVE  n = k
  <2>1. n + 1 = k + 1
    BY <1>1, <1>2, <1>5
  <2> QED BY <2>1
<1> QED BY <1>2, <1>3, <1>4, <1>5, AmongTail, <1>1

\* Bus_arbitrator: the MMC wins.
LEMMA QuietArbitrateMMC ==
  ASSUME CInv, ArbitrateMMC
  PROVE  CInv' /\ Stutters
<1> DEFINE r == Head(mmcq)
<1>1. /\ UNCHANGED <<wbuf, reqq, tags, mshr, coheq, replyq, dpipe, dcp, sif>>
      /\ bus' = [bus EXCEPT !.winner = [who |-> MMC, t |-> REP(r)]]
      /\ bus.winner = None /\ mmcq # <<>> /\ mmcq' = Tail(mmcq)
  BY DEF ArbitrateMMC, REP
<1>2. Types /\ MMC \in Masters
  BY DEF CInv, Masters
<1>3. /\ r \in Request /\ mmcq' \in Seq(Request) /\ Among(r, mmcq) /\ ~Among(r, mmcq')
      /\ \A x : Among(x, mmcq') => Among(x, mmcq)
      /\ \A n, k \in 1 .. Len(mmcq') : mmcq'[n] = mmcq'[k] => n = k
  BY <1>1, ReplyLeaves
<1> HIDE DEF r
<1>4. bus'.winner = [who |-> MMC, t |-> REP(r)] /\ bus'.cur = bus.cur
  BY <1>1, <1>2 DEF Types
<1>5. Types'
  <2>1. [who |-> MMC, t |-> REP(r)] \in Grants
    BY <1>2, <1>3, Transactions
  <2>2. bus' \in [winner : Grants \cup {None}, cur : Grants \cup {None},
                  req_count : Int, mmc_master : BOOLEAN]
    BY <1>1, <1>2, <2>1 DEF Types
  <2> QED BY <1>1, <1>2, <1>3, <2>2 DEF Types
<1>6. InterfacesAreOrderly' /\ RepliesAreOrderly'
  BY <1>1, <1>3 DEF CInv, InterfacesAreOrderly, RepliesAreOrderly
<1>7. ASSUME NEW q \in Request PROVE TokensMove(q)
  <2>1. \A x \in TokensOf(q) : x \in Items /\ (x.type = "REPLY" => x = REP(x.req))
    BY Transactions DEF TokensOf
  <2>2. \A m \in Masters, x \in TokensOf(q) : Waits(m, x)' => Waits(m, x) /\ ~(m = MMC /\ x = REP(r))
    <3>1. REP(r).req = r
      BY Transactions
    <3> QED BY <1>1, <1>3, <3>1 DEF Waits
  <2>3. \A m \in Masters, x \in TokensOf(q) : Won(m, x)' => m = MMC /\ x = REP(r) /\ Waits(m, x)
    <3>1. REP(r).req = r /\ REP(r).type = "REPLY"
      BY Transactions
    <3> QED BY <1>3, <1>4, <3>1 DEF Won, Waits
  <2>4. \A m \in Masters, x \in TokensOf(q) : Runs(m, x)' <=> Runs(m, x)
    BY <1>4 DEF Runs
  <2>5. SentOnce(q)
    BY DEF CInv, RequestIsSound
  <2> QED BY <2>2, <2>3, <2>4, <2>5, Tokens DEF TokensMove, SentOnce, At
<1> QED BY <1>1, <1>5, <1>6, <1>7, BusMoves, SameMSHRs

\* MMC_start_send_to_bus: the MMC goes on without arbitration.
LEMMA QuietMMCStart ==
  ASSUME CInv, MMCStart
  PROVE  CInv' /\ Stutters
<1> DEFINE r == Head(mmcq)
           k == bus.req_count - 1
<1>1. /\ UNCHANGED <<wbuf, reqq, tags, mshr, coheq, replyq, dpipe, dcp, sif>>
      /\ bus' = [bus EXCEPT !.cur = [who |-> MMC, t |-> REP(r)], !.req_count = k]
      /\ bus.cur = None /\ Len(mmcq) = 1 /\ mmcq' = Tail(mmcq)
  BY DEF MMCStart, REP
<1>2. Types /\ MMC \in Masters
  BY DEF CInv, Masters
<1>9. mmcq # <<>> /\ k \in Int
  <2>1. Len(<<>>) = 0
    OBVIOUS
  <2>2. k \in Int
    BY <1>2 DEF Types
  <2> QED BY <1>1, <2>1, <2>2
<1> HIDE DEF k
<1>3. /\ r \in Request /\ mmcq' \in Seq(Request) /\ Among(r, mmcq) /\ ~Among(r, mmcq')
      /\ \A x : Among(x, mmcq') => Among(x, mmcq)
      /\ \A n, j \in 1 .. Len(mmcq') : mmcq'[n] = mmcq'[j] => n = j
  BY <1>1, <1>9, ReplyLeaves
<1> HIDE DEF r
<1>4. bus'.cur = [who |-> MMC, t |-> REP(r)] /\ bus'.winner = bus.winner
  BY <1>1, <1>2 DEF Types
<1>5. Types'
  <2>1. [who |-> MMC, t |-> REP(r)] \in Grants
    BY <1>2, <1>3, Transactions
  <2>2. bus' \in [winner : Grants \cup {None}, cur : Grants \cup {None},
                  req_count : Int, mmc_master : BOOLEAN]
    BY <1>1, <1>2, <1>9, <2>1 DEF Types
  <2> QED BY <1>1, <1>2, <1>3, <2>2 DEF Types
<1>6. InterfacesAreOrderly' /\ RepliesAreOrderly'
  BY <1>1, <1>3 DEF CInv, InterfacesAreOrderly, RepliesAreOrderly
<1>7. ASSUME NEW q \in Request PROVE TokensMove(q)
  <2>1. REP(r).req = r /\ REP(r).type = "REPLY" /\ REQ(q).type = "REQUEST"
    BY Transactions
  <2>2. \A m \in Masters, x \in TokensOf(q) : Waits(m, x)' => Waits(m, x) /\ ~(m = MMC /\ x = REP(r))
    BY <1>1, <1>3, <2>1 DEF Waits
  <2>3. \A m \in Masters, x \in TokensOf(q) : Runs(m, x)' => m = MMC /\ x = REP(r) /\ Waits(m, x)
    BY <1>3, <1>4, <2>1 DEF Runs, Waits
  <2>4. \A m \in Masters, x \in TokensOf(q) : (Won(m, x)' <=> Won(m, x)) /\ ~Runs(m, x)
    <3>1. \A m \in Masters, x \in TokensOf(q) : [who |-> m, t |-> x] # None
      BY Transactions DEF TokensOf
    <3> QED BY <1>1, <1>4, <3>1 DEF Runs, Won
  <2>5. SentOnce(q)
    BY DEF CInv, RequestIsSound
  <2>6. \A m \in Masters : Runs(m, REQ(q))' <=> Runs(m, REQ(q))
    <3>1. REQ(q) # REP(r)
      BY <2>1
    <3> QED BY <2>3, <2>4, <3>1, Tokens
  <2> QED BY <2>2, <2>3, <2>4, <2>5, <2>6, Tokens DEF TokensMove, SentOnce, At
<1> QED BY <1>1, <1>5, <1>6, <1>7, BusMoves, SameMSHRs

\* The winner starts: what has won runs, and the next one may take the slot.
Starts(r) ==
  \A m \in Masters, t \in TokensOf(r) :
    /\ Waits(m, t)' <=> Waits(m, t)
    /\ ~Won(m, t)' /\ ~Runs(m, t)
    /\ Runs(m, t)' <=> Won(m, t)

\* Where the winner and the waiters are after Bus_wakeup_winner.
LEMMA WinnerStarts ==
  ASSUME CInv, Wakeup
  PROVE  /\ Types' /\ InterfacesAreOrderly' /\ RepliesAreOrderly'
         /\ \A c \in CPUs : sif'[c].cohe_reply = sif[c].cohe_reply
                            /\ sif'[c].pending_request = sif[c].pending_request
         /\ \A r \in Request : Starts(r)
<1> DEFINE c == bus.winner.who
           t == bus.winner.t
           k == CountAfterStart(t)
           a == [sif[c] EXCEPT !.slot = Head(sif[c].arbwaiters), !.arbwaiters = Tail(sif[c].arbwaiters)]
           refills == c \in CPUs /\ sif[c].slot = None /\ sif[c].arbwaiters # <<>>
<1>1. /\ UNCHANGED <<wbuf, reqq, tags, coheq, replyq, dpipe, dcp, mmcq>>
      /\ bus.winner # None /\ bus.cur = None
      /\ bus' = [winner |-> None, cur |-> bus.winner, req_count |-> k, mmc_master |-> c = MMC]
      /\ mshr' = IF t.type = "REQUEST" THEN [mshr EXCEPT ![t.req].phase = "out"] ELSE mshr
      /\ sif' = IF refills THEN [sif EXCEPT ![c] = a] ELSE sif
  BY DEF Wakeup
<1>2. Types /\ InterfacesAreOrderly
  BY DEF CInv
<1>3. bus.winner \in Grants /\ bus.winner = [who |-> c, t |-> t] /\ c \in Masters /\ t \in Items
  BY <1>1, <1>2, Transactions DEF Types
<1>4. k \in Int
  <2>1. bus.req_count \in Int
    BY <1>2 DEF Types
  <2>2. t.type \in {"REQUEST", "COHE_REPLY", "WRITEBACK", "REPLY"}
    BY <1>3 DEF Items
  <2> HIDE DEF t
  <2> QED BY <2>1, <2>2 DEF CountAfterStart
<1> HIDE DEF k
<1>5. /\ sif' \in [CPUs -> Interface] /\ InterfacesAreOrderly'
      /\ \A d \in CPUs : /\ sif'[d].cohe_reply = sif[d].cohe_reply
                         /\ sif'[d].pending_request = sif[d].pending_request
                         /\ \A x \in Items : Has(sif'[d], x) <=> Has(sif[d], x)
  <2>1. CASE refills
    <3>1. sif[c] \in Interface /\ Once(sif[c])
      BY <1>2, <2>1 DEF Types, InterfacesAreOrderly
    <3>2. /\ a \in Interface /\ Once(a) /\ SameButWaiting(sif[c], a)
          /\ \A x \in Items : Has(a, x) <=> Has(sif[c], x)
      BY <2>1, <3>1, SlotRefills
    <3> HIDE DEF a
    <3>3. sif' = [sif EXCEPT ![c] = a]
      BY <1>1, <2>1
    <3>4. sif'[c] = a /\ \A d \in CPUs : d # c => sif'[d] = sif[d]
      BY <1>2, <2>1, <3>3 DEF Types
    <3>5. sif' \in [CPUs -> Interface]
      BY <1>2, <3>2, <3>3 DEF Types
    <3> QED BY <1>2, <3>2, <3>4, <3>5 DEF InterfacesAreOrderly, SameButWaiting
  <2>2. CASE ~refills
    <3>1. sif' = sif
      BY <1>1, <2>2
    <3> QED BY <1>2, <3>1 DEF Types, InterfacesAreOrderly
  <2> QED BY <2>1, <2>2
<1> HIDE DEF a, refills
<1>6. bus' \in [winner : Grants \cup {None}, cur : Grants \cup {None},
                req_count : Int, mmc_master : BOOLEAN]
  BY <1>1, <1>3, <1>4
<1>7. mshr' \in [Request -> MSHR]
  <2>1. CASE t.type = "REQUEST"
    <3>1. t.req \in Request /\ mshr[t.req] \in MSHR
      BY <1>2, <1>3, Transactions DEF Types
    <3> DEFINE m == [mshr[t.req] EXCEPT !.phase = "out"]
    <3>2. m \in MSHR
      BY <3>1 DEF MSHR, Phase
    <3>3. mshr' = [mshr EXCEPT ![t.req] = m]
      BY <1>1, <2>1
    <3> HIDE DEF m
    <3> QED BY <1>2, <3>2, <3>3 DEF Types
  <2> QED BY <1>1, <1>2, <2>1 DEF Types
<1>8. Types'
  BY <1>1, <1>2, <1>5, <1>6, <1>7 DEF Types
<1>9. RepliesAreOrderly'
  BY <1>1 DEF CInv, RepliesAreOrderly
<1>10. ASSUME NEW r \in Request PROVE Starts(r)
  <2>1. \A x \in TokensOf(r) : x \in Items
    BY Transactions DEF TokensOf
  <2>2. \A m \in Masters, x \in TokensOf(r) : Waits(m, x)' <=> Waits(m, x)
    BY <1>1, <1>5, <2>1 DEF Waits, Masters
  <2>3. \A m \in Masters, x \in TokensOf(r) : [who |-> m, t |-> x] # None
    BY <2>1, Transactions
  <2> QED BY <1>1, <2>2, <2>3 DEF Starts, Won, Runs
<1> QED BY <1>5, <1>8, <1>9, <1>10

\* Bus_wakeup_winner: the winner starts.
LEMMA QuietWakeup ==
  ASSUME CInv, Wakeup
  PROVE  CInv' /\ Stutters
<1> DEFINE t == bus.winner.t
<1>1. /\ UNCHANGED <<wbuf, reqq, tags, coheq, replyq, dpipe, dcp, mmcq>>
      /\ bus.winner # None /\ bus.cur = None
      /\ mshr' = IF t.type = "REQUEST" THEN [mshr EXCEPT ![t.req].phase = "out"] ELSE mshr
  BY DEF Wakeup
<1>2. /\ Types /\ Types' /\ InterfacesAreOrderly' /\ RepliesAreOrderly'
      /\ \A c \in CPUs : sif'[c].cohe_reply = sif[c].cohe_reply
                         /\ sif'[c].pending_request = sif[c].pending_request
      /\ \A q \in Request : Starts(q)
  BY WinnerStarts DEF CInv
<1>3. bus.winner = [who |-> bus.winner.who, t |-> t] /\ bus.winner.who \in Masters /\ t \in Items
  BY <1>1, <1>2, Transactions DEF Types
<1>4. ASSUME NEW q \in Request, t # REQ(q) PROVE TokensMove(q)
  <2>1. \A m \in Masters : ~Won(m, REQ(q))
    BY <1>3, <1>4 DEF Won
  <2>2. SentOnce(q)
    BY DEF CInv, RequestIsSound
  <2> QED BY <1>2, <2>1, <2>2, Tokens DEF TokensMove, Starts, SentOnce, At
<1>5. CASE t.type # "REQUEST"
  <2>1. \A q \in Request : t # REQ(q)
    BY <1>5, Transactions
  <2>2. \A q \in Request : SameMSHR(q) /\ TokensMove(q)
    BY <1>1, <1>4, <1>5, <2>1, SameMSHRs
  <2> QED BY <1>1, <1>2, <2>2, BusMoves
<1>6. CASE t.type = "REQUEST"
  <2>1. PICK r \in Request : t = REQ(r) /\ t.req = r
    BY <1>3, <1>6, Transactions
  <2>2. /\ mshr'[r] = [mshr[r] EXCEPT !.phase = "out"] /\ mshr[r] \in MSHR
        /\ \A q \in Request : q # r => mshr'[q] = mshr[q]
    BY <1>1, <1>2, <1>6, <2>1 DEF Types
  <2>3. /\ mshr'[r].phase = "out" /\ mshr'[r].valid = mshr[r].valid
        /\ mshr'[r].type = mshr[r].type /\ mshr'[r].cohe_type = mshr[r].cohe_type
        /\ mshr'[r].misscache = mshr[r].misscache /\ mshr'[r].way = mshr[r].way
        /\ mshr'[r].memtrans = mshr[r].memtrans /\ mshr'[r].has_writes = mshr[r].has_writes
    BY <2>2 DEF MSHR
  <2>4. TagsAreExact' /\ LineOf' = LineOf /\ (\A c \in CPUs : SameWays(c)) /\ PipesAreOrderly'
    BY <1>1, SameTags, SamePipes DEF CInv, PipesAreQuiet
  <2>5. ContainersAreOrderly'
    BY <1>2, <2>4 DEF ContainersAreOrderly
  <2>6. ASSUME NEW q \in Request
        PROVE  SameFill(q) /\ SameSnoops(q) /\ SameCopies(q) /\ SamePending(q)
    BY <1>1, <1>2 DEF SameFill, InReplyq, ToInstall, Leaving, SameSnoops, Snoops,
                      SameCopies, InPipe, SetAside, AtTheBus, SamePending, Pending
  <2>7. ASSUME NEW q \in Request, q # r
        PROVE  WayIsKnown(q)' /\ RequestIsSound(q)' /\ RequestOf'[q] = RequestOf[q]
    <3>1. WayIsKnown(q) /\ RequestIsSound(q) /\ SameWays(q[1]) /\ SameMSHR(q)
      BY <2>2, <2>4, <2>7, Names DEF CInv, SameMSHR
    <3>2. TokensMove(q)
      BY <1>4, <2>1, <2>7, Transactions
    <3> QED BY <1>2, <2>6, <3>1, <3>2, SameWaysAreKnown, MovedTokens
  <2>8. /\ \E m \in Masters : Won(m, REQ(r)) /\ m = r[1]
        /\ mshr[r].valid /\ mshr[r].phase = "arb"
        /\ \A m \in Masters : Pending(m, r) \/ At(m, REQ(r)) => m = r[1]
        /\ \A m \in Masters : Pending(m, r) => ~At(m, REQ(r))
    <3>1. Won(bus.winner.who, REQ(r))
      BY <1>3, <2>1 DEF Won
    <3>2. RequestGoesOnce(r) /\ Starts(r)
      BY <1>2, <2>1 DEF CInv, RequestIsSound
    <3> QED BY <1>3, <2>1, <3>1, <3>2, Tokens DEF RequestGoesOnce, At, Starts
  <2>9. /\ \A m \in Masters, x \in TokensOf(r) : At(m, x)' <=> At(m, x)
        /\ SentOnce(r)'
    BY <1>2, <2>1 DEF CInv, RequestIsSound, Starts, SentOnce, At
  <2>10. OnItsWay(r)'
    <3>1. \E m \in Masters : Runs(m, REQ(r))'
      BY <1>2, <2>1, <2>8, Tokens DEF Starts
    <3> QED BY <1>2, <2>1, <3>1, OnTheWay DEF Types, OnItsWay, Runs, REQ
  <2>11. Stage(r) = "idle" /\ Stage(r)' = "idle"
    BY <2>8, <2>10 DEF Stage
  <2>12. RequestIsSound(r) /\ WayIsKnown(r)
    BY <2>1 DEF CInv
  <2>13. WritesAreExclusive(r)'
    BY <2>3, <2>8, <2>12 DEF RequestIsSound, WritesAreExclusive, Unanswered
  <2>14. RequestGoesOnce(r)'
    <3>1. \A m \in Masters : Pending(m, r)' => Pending(m, r)
      BY <2>1, <2>6 DEF SamePending
    <3>2. Runs(r[1], REQ(r))'
      BY <1>2, <2>1, <2>8, Tokens DEF Starts
    <3> QED BY <2>3, <2>8, <2>9, <3>1, <3>2, Tokens DEF RequestGoesOnce
  <2>15. ReplyGoesOnce(r)'
    BY <2>8, <2>9, <2>12, Tokens DEF RequestIsSound, ReplyGoesOnce
  <2>16. LineFillsOnce(r)'
    BY <2>1, <2>6, <2>8, <2>12 DEF RequestIsSound, LineFillsOnce, SameFill
  <2>17. \A c \in CPUs : ~Holds(c, r)
    BY <2>8, <2>12 DEF RequestIsSound, CopyGoesOnce
  <2>18. CopyGoesOnce(r)'
    <3>1. \A c \in CPUs : ~Holds(c, r)'
      BY <2>1, <2>6, <2>17 DEF SameCopies, Holds
    <3>2. \A m \in Masters : ~At(m, COPY(r))'
      BY <2>9, <2>12, <2>17, Tokens DEF RequestIsSound, CopyGoesOnce, Holds
    <3> QED BY <3>1, <3>2 DEF CopyGoesOnce, Holds
  <2>19. CountIsExact(r)' /\ IssuedIsSeen(r)' /\ ReadIsOpen(r)'
    BY <2>3, <2>8, <2>11, <2>12 DEF CountIsExact, IssuedIsSeen, ReadIsOpen, RequestIsSound, WritesAreExclusive
  <2>20. RequestIsSound(r)'
    BY <2>9, <2>13, <2>14, <2>15, <2>16, <2>18, <2>19 DEF RequestIsSound
  <2>21. RequestOf'[r] = RequestOf[r]
    BY <2>1, <2>11 DEF RequestOf
  <2>22. WayIsKnown(r)'
    <3>1. ToFill(r) /\ ToFill(r)'
      BY <2>3, <2>8 DEF ToFill
    <3> QED BY <2>3, <2>12, <3>1, <1>1 DEF WayIsKnown, WaysOf
  <2>23. \A q \in Request : WayIsKnown(q)' /\ RequestIsSound(q)' /\ RequestOf'[q] = RequestOf[q]
    BY <2>7, <2>20, <2>21, <2>22
  <2> QED BY <1>1, <2>4, <2>5, <2>23, AllSound DEF Stutters
<1> QED BY <1>5, <1>6

-----------------------------------------------------------------------------
(* The tag array *)

ExactTags(t) ==
  /\ \A w, v \in Ways : t[w].tag = t[v].tag /\ t[w].tag # None => w = v
  /\ \A w \in Ways : t[w].state # "INVALID" => t[w].tag # None

\* The state of a line in a tag array.
Places(t, l) == {w \in Ways : t[w].tag = l}
OneOf(W) == CHOOSE w \in W : TRUE
LineIn(t, l) == IF Places(t, l) = {} THEN "INVALID" ELSE t[OneOf(Places(t, l))].state

\* The state of a line in a cache is that in its tag array.
LEMMA LinesAreStates ==
  /\ \A c \in CPUs, l \in Lines : StateOf(c, l) = LineIn(tags[c], l)
  /\ \A c \in CPUs, l \in Lines : StateOf(c, l)' = LineIn(tags'[c], l)
<1>1. \A c \in CPUs, l \in Lines : StateOf(c, l) = LineIn(tags[c], l)
  BY DEF StateOf, CacheSearch, WayOf, WaysOf, LineIn, Places, OneOf
<1>2. \A c \in CPUs, l \in Lines : StateOf(c, l)' = LineIn(tags'[c], l)
  BY DEF StateOf, CacheSearch, WayOf, WaysOf, LineIn, Places, OneOf
<1> QED BY <1>1, <1>2

\* A tag array has the line of a way in the state of that way.
LEMMA LineAt ==
  ASSUME NEW t, ExactTags(t), NEW w \in Ways, t[w].tag # None
  PROVE  LineIn(t, t[w].tag) = t[w].state
<1>1. Places(t, t[w].tag) = {w}
  BY DEF Places, ExactTags
<1>2. OneOf({w}) = w
  BY DEF OneOf
<1> QED BY <1>1, <1>2 DEF LineIn

\* A present line is found.
LEMMA Found ==
  ASSUME NEW c, NEW l, CacheSearch(c, l) # 2
  PROVE  WayOf(c, l) \in Ways /\ tags[c][WayOf(c, l)].tag = l
BY DEF CacheSearch, WayOf, WaysOf

\* A line that a total miss looked for has no way.
LEMMA NotFound ==
  ASSUME NEW c, NEW l, CacheSearch(c, l) = 2
  PROVE  WaysOf(c, l) = {}
BY DEF CacheSearch

\* One entry of the tag array changes.
MayEnter(t, w, e) ==
  /\ e.tag # None => \A v \in Ways : v # w => t[v].tag # e.tag
  /\ e.state # "INVALID" => e.tag # None
TagsTake(c, w, e) == tags' = [tags EXCEPT ![c] = [tags[c] EXCEPT ![w] = e]]
Enters(c, w, e)   == TagsTake(c, w, e) /\ MayEnter(tags[c], w, e)
LineAfter(t, w, e, l) == IF e.tag = l THEN e.state
                         ELSE IF t[w].tag = l THEN "INVALID" ELSE LineIn(t, l)
Entered(c, w, e) ==
  [r \in Request |-> IF r[1] # c THEN LineOf[r]
                     ELSE IF e.tag = r[2] THEN e.state
                     ELSE IF tags[c][w].tag = r[2] THEN "INVALID" ELSE LineOf[r]]

EntryIsSet(t, w, e, u) == u = [t EXCEPT ![w] = e]

\* One entry changes the line that comes, the line that goes, and no other.
LEMMA EntryChanges ==
  ASSUME NEW t \in [Ways -> TagEntry], ExactTags(t), NEW w \in Ways, NEW e \in TagEntry,
         MayEnter(t, w, e), NEW u \in [Ways -> TagEntry], EntryIsSet(t, w, e, u),
         NEW l \in Lines
  PROVE  /\ ExactTags(u)
         /\ LineIn(u, l) = LineAfter(t, w, e, l)
<1>1. /\ u[w] = e /\ \A v \in Ways : v # w => u[v] = t[v]
      /\ e.tag # None => \A v \in Ways : v # w => t[v].tag # e.tag
      /\ e.state # "INVALID" => e.tag # None
      /\ l # None
  BY Names DEF MayEnter, EntryIsSet
<1>2. ExactTags(u)
  BY <1>1 DEF ExactTags
<1>3. CASE e.tag = l
  <2>1. Places(u, l) = {w}
    BY <1>1, <1>3 DEF Places
  <2>2. OneOf({w}) = w
    BY DEF OneOf
  <2> QED BY <1>1, <1>2, <1>3, <2>1, <2>2 DEF LineIn, LineAfter
<1>4. CASE e.tag # l /\ t[w].tag = l
  <2>1. Places(u, l) = {}
    BY <1>1, <1>4 DEF Places, ExactTags
  <2> QED BY <1>2, <1>4, <2>1 DEF LineIn, LineAfter
<1>5. CASE e.tag # l /\ t[w].tag # l
  <2>1. Places(u, l) = Places(t, l)
    BY <1>1, <1>5 DEF Places
  <2>2. \A v \in Places(t, l) : u[v] = t[v]
    BY <1>1, <1>5 DEF Places
  <2>3. Places(t, l) # {} => OneOf(Places(t, l)) \in Places(t, l)
    BY DEF OneOf
  <2>4. CASE Places(t, l) = {}
    BY <1>2, <1>5, <2>1, <2>4 DEF LineIn, LineAfter
  <2>5. CASE Places(t, l) # {}
    <3> DEFINE v == OneOf(Places(t, l))
    <3>1. u[v] = t[v]
      BY <2>2, <2>3, <2>5
    <3>2. LineIn(t, l) = t[v].state
      BY <2>5 DEF LineIn
    <3>3. LineIn(u, l) = u[v].state
      BY <2>1, <2>5 DEF LineIn
    <3> HIDE DEF v
    <3> QED BY <1>2, <1>5, <3>1, <3>2, <3>3 DEF LineAfter
  <2> QED BY <2>4, <2>5
<1> QED BY <1>3, <1>4, <1>5

\* ... and so do the tags of one cache.
LEMMA TagsAfter ==
  ASSUME Types, TagsAreExact, NEW c \in CPUs, NEW w \in Ways, NEW e \in TagEntry,
         Enters(c, w, e)
  PROVE  /\ tags' \in [CPUs -> [Ways -> TagEntry]] /\ TagsAreExact'
         /\ LineOf' = Entered(c, w, e)
         /\ tags'[c][w] = e /\ \A v \in Ways : v # w => tags'[c][v] = tags[c][v]
         /\ \A d \in CPUs : d # c => tags'[d] = tags[d]
<1>1. tags \in [CPUs -> [Ways -> TagEntry]] /\ tags[c] \in [Ways -> TagEntry]
  BY DEF Types
<1>2. /\ tags'[c] = [tags[c] EXCEPT ![w] = e] /\ tags'[c] \in [Ways -> TagEntry]
      /\ \A d \in CPUs : d # c => tags'[d] = tags[d]
      /\ tags'[c][w] = e /\ \A v \in Ways : v # w => tags'[c][v] = tags[c][v]
      /\ tags' \in [CPUs -> [Ways -> TagEntry]]
      /\ MayEnter(tags[c], w, e)
  BY <1>1 DEF Enters, TagsTake
<1>3. ExactTags(tags[c]) /\ ExactTags(tags'[c])
  BY <1>2 DEF TagsAreExact, ExactTags, MayEnter
<1>4. TagsAreExact'
  BY <1>2, <1>3 DEF TagsAreExact, ExactTags
<1>5. ASSUME NEW l \in Lines
      PROVE  LineIn(tags'[c], l) = IF e.tag = l THEN e.state
                                   ELSE IF tags[c][w].tag = l THEN "INVALID" ELSE LineIn(tags[c], l)
  <2> DEFINE t == tags[c]
             u == tags'[c]
  <2>1. t \in [Ways -> TagEntry] /\ ExactTags(t) /\ u \in [Ways -> TagEntry] /\ EntryIsSet(t, w, e, u)
        /\ MayEnter(t, w, e)
    BY <1>1, <1>2, <1>3, Names DEF EntryIsSet
  <2> HIDE DEF t, u
  <2>2. LineIn(u, l) = LineAfter(t, w, e, l)
    BY <2>1, EntryChanges
  <2> QED BY <2>2 DEF t, u, LineAfter
<1>6. LineOf' = Entered(c, w, e)
  <2>1. ASSUME NEW r \in Request PROVE LineOf'[r] = Entered(c, w, e)[r]
    <3>1. r[1] \in CPUs /\ r[2] \in Lines
      BY Names
    <3>2. LineOf[r] = LineIn(tags[r[1]], r[2]) /\ LineOf'[r] = LineIn(tags'[r[1]], r[2])
      BY <3>1, LinesAreStates DEF LineOf
    <3>3. CASE r[1] = c
      BY <1>5, <3>1, <3>2, <3>3 DEF Entered
    <3>4. CASE r[1] # c
      BY <1>2, <3>1, <3>2, <3>4 DEF Entered
    <3> QED BY <3>3, <3>4
  <2> QED BY <2>1 DEF LineOf, Entered
<1> QED BY <1>2, <1>4, <1>6

\* What has to stay of the tags for an MSHR to find its way.
LEMMA WayStaysKnown ==
  ASSUME NEW r \in Request, WayIsKnown(r),
         mshr[r].valid /\ ToFill(r) /\ mshr[r].misscache = 0
           => tags'[r[1]][mshr[r].way].tag = r[2] /\ tags'[r[1]][mshr[r].way].mshr_out,
         mshr'[r].valid => mshr[r].valid,
         mshr'[r].misscache = mshr[r].misscache, mshr'[r].way = mshr[r].way,
         ToFill(r)' <=> ToFill(r),
         mshr[r].valid => \A w \in Ways : tags'[r[1]][w].tag = r[2] => tags[r[1]][w].tag = r[2]
  PROVE  WayIsKnown(r)'
<1>1. mshr[r].valid => WaysOf(r[1], r[2])' \subseteq WaysOf(r[1], r[2])
  BY DEF WaysOf
<1> QED BY <1>1 DEF WayIsKnown

\* A write hits: nobody else has the line.
LEMMA HitWrites ==
  ASSUME CInv, NEW c \in CPUs, TagRequestHit(c)
  PROVE  CInv' /\ (Stutters \/ \E r \in Request : Abstract!Write(r))
<1>1. /\ UNCHANGED <<wbuf, mshr, coheq, replyq, dcp, sif, mmcq, bus>>
      /\ ToDataPipe(c, "HIT") /\ reqq[c] # <<>>
      /\ CacheSearch(c, Head(reqq[c]).line) = 0
      /\ \/ Head(reqq[c]).op = "READ"
         \/ tags[c][WayOf(c, Head(reqq[c]).line)].state # "SH_CL"
      /\ tags' = IF Head(reqq[c]).op = "WRITE"
                 THEN [tags EXCEPT ![c][WayOf(c, Head(reqq[c]).line)].state = "PR_DY"] ELSE tags
  BY DEF TagRequestHit, RequestAtTag
<1>2. /\ reqq' \in [CPUs -> Seq(InputItem)] /\ dpipe' \in [CPUs -> Seq(PipeItem)]
      /\ PipesAreQuiet
  BY <1>1, GoesToDataPipe
<1>3. Types /\ TagsAreExact /\ InterfacesAreOrderly
  BY DEF CInv
<1>4. CASE Head(reqq[c]).op # "WRITE"
  <2>1. tags' = tags
    BY <1>1, <1>4
  <2>2. Types'
    BY <1>1, <1>2, <1>3, <2>1 DEF Types
  <2> QED BY <1>1, <1>2, <1>3, <2>1, <2>2, QuietStep, SameTags, SameMSHRs, SameInterfaces,
             SameTransfers DEF CInv
<1>5. CASE Head(reqq[c]).op = "WRITE"
  <2>1. Head(reqq[c]).line \in Lines
    <3>1. reqq[c] \in Seq(InputItem)
      BY <1>3 DEF Types
    <3>2. Head(reqq[c]) \in InputItem
      BY <1>1, <3>1, QueueTypes
    <3> QED BY <3>2 DEF InputItem
  <2>2. PICK l \in Lines, w \in Ways : l = Head(reqq[c]).line /\ w = WayOf(c, l)
    BY <1>1, <2>1, Found
  <2>3. tags[c][w].tag = l /\ tags[c][w].state \in {"PR_CL", "PR_DY"}
        /\ tags[c][w] \in TagEntry /\ StateOf(c, l) = tags[c][w].state
    <3>1. tags[c][w].tag = l
      BY <1>1, <2>2, Found
    <3>2. tags[c][w] \in TagEntry
      BY <1>3 DEF Types
    <3>3. tags[c][w].state # "SH_CL" /\ tags[c][w].state # "INVALID"
      BY <1>1, <1>5, <2>2, <3>1 DEF CacheSearch, WaysOf
    <3>4. StateOf(c, l) = tags[c][w].state
      BY <1>1, <2>2, <3>1 DEF StateOf
    <3>5. tags[c][w].state \in LineState
      BY <3>2 DEF TagEntry
    <3> QED BY <3>1, <3>2, <3>3, <3>4, <3>5 DEF LineState
  <2>4. PICK e \in TagEntry : /\ e = [tags[c][w] EXCEPT !.state = "PR_DY"]
                              /\ e.tag = l /\ e.state = "PR_DY" /\ e.mshr_out = tags[c][w].mshr_out
    <3>1. [tags[c][w] EXCEPT !.state = "PR_DY"] \in TagEntry
      BY <2>3 DEF TagEntry, LineState
    <3> QED BY <2>3, <3>1 DEF TagEntry
  <2>5. tags' = [tags EXCEPT ![c] = [tags[c] EXCEPT ![w] = e]]
    BY <1>1, <1>5, <1>3, <2>2, <2>4 DEF Types
  <2>6. \A v \in Ways : v # w => tags[c][v].tag # l
    BY <1>3, <2>3, Names DEF TagsAreExact
  <2>7. /\ tags' \in [CPUs -> [Ways -> TagEntry]] /\ TagsAreExact' /\ LineOf' = Entered(c, w, e)
        /\ tags'[c][w] = e /\ \A v \in Ways : v # w => tags'[c][v] = tags[c][v]
        /\ \A d \in CPUs : d # c => tags'[d] = tags[d]
    <3>1. MayEnter(tags[c], w, e)
      BY <2>4, <2>6, Names DEF MayEnter
    <3>2. Enters(c, w, e)
      BY <2>5, <3>1 DEF Enters, TagsTake
    <3> QED BY <1>3, <3>2, TagsAfter
  <2>8. \A d \in CPUs : SameWays(d)
    BY <2>3, <2>4, <2>7 DEF SameWays
  <2>9. Types'
    BY <1>1, <1>2, <1>3, <2>7 DEF Types
  <2>10. CInv' /\ coheq' = coheq /\ RequestOf' = RequestOf
    BY <1>1, <1>2, <1>3, <2>7, <2>8, <2>9, QuietLine, SameMSHRs, SameInterfaces, SameTransfers DEF CInv
  <2>11. /\ LineOf' = [LineOf EXCEPT ![<<c, l>>] = "PR_DY"]
         /\ <<c, l>> \in Request /\ LineOf[<<c, l>>] \in {"PR_CL", "PR_DY"}
    <3>1. <<c, l>> \in Request /\ <<c, l>>[1] = c /\ <<c, l>>[2] = l
      BY Names
    <3>2. LineOf[<<c, l>>] = tags[c][w].state
      BY <2>3, <3>1 DEF LineOf
    <3>3. \A r \in Request : r[1] = c /\ r[2] = l => r = <<c, l>>
      BY Names
    <3>4. \A r \in Request : LineOf'[r] = IF r = <<c, l>> THEN "PR_DY" ELSE LineOf[r]
      BY <2>3, <2>4, <2>7, <3>1, <3>3 DEF Entered
    <3>5. LineOf' = [LineOf EXCEPT ![<<c, l>>] = "PR_DY"]
      BY <3>4 DEF LineOf
    <3> QED BY <2>3, <3>1, <3>2, <3>5
  <2> QED BY <2>10, <2>11 DEF Abstract!Write, Abstract!Private
<1> QED BY <1>4, <1>5

\* A step that leaves the requests alone, and every MSHR's way known.
LEMMA QuietTags ==
  ASSUME CInv, Types', coheq' = coheq, replyq' = replyq, dcp' = dcp,
         TagsAreExact', \A r \in Request : WayIsKnown(r)',
         PipesAreQuiet, InterfacesAreQuiet, BusIsQuiet, \A r \in Request : SameMSHR(r)
  PROVE  CInv' /\ RequestOf' = RequestOf
<1>1. ContainersAreOrderly'
  BY DEF ContainersAreOrderly, CInv, PipesAreQuiet, InterfacesAreQuiet, RepliesAreOrderly
<1>2. ASSUME NEW r \in Request PROVE RequestIsSound(r)' /\ RequestOf'[r] = RequestOf[r]
  <2>1. SameFill(r) /\ SameSnoops(r)
    BY DEF PipesAreQuiet, SameItems, SameFill, InReplyq, ToInstall, SameSnoops, Snoops
  <2>2. SameTokens(r) /\ SamePending(r)
    BY DEF InterfacesAreQuiet, BusIsQuiet, SameTokens
  <2>3. SameCopies(r)
    BY DEF PipesAreQuiet, InterfacesAreQuiet, SameItems, SameCopies, SetAside
  <2>4. SameRequest(r)
    BY <2>1, <2>2, <2>3 DEF SameRequest
  <2> QED BY <2>4, SameRequestIsSound DEF CInv
<1> QED BY <1>1, <1>2, AllSound

\* A flush or purge of a line without an MSHR takes it out of the cache.
LEMMA FlushGivesUp ==
  ASSUME CInv, NEW c \in CPUs, FlushPurge(c), ~mshr[<<c, Head(reqq[c]).line>>].valid
  PROVE  CInv' /\ (Stutters \/ Abstract!Flush(c))
<1>0. Types /\ TagsAreExact /\ InterfacesAreOrderly /\ PipesAreOrderly /\ reqq[c] # <<>>
  BY DEF CInv, FlushPurge, RequestAtTag
<1>1. reqq[c] \in Seq(InputItem)
  BY <1>0 DEF Types
<1>2. Head(reqq[c]) \in InputItem /\ Tail(reqq[c]) \in Seq(InputItem)
  BY <1>0, <1>1, QueueTypes
<1>3. PICK l \in Lines : l = Head(reqq[c]).line
  BY <1>2 DEF InputItem
<1>4. /\ UNCHANGED <<wbuf, mshr, coheq, replyq, dcp, sif, mmcq, bus>>
      /\ ~mshr[<<c, l>>].valid
      /\ tags' = IF CacheSearch(c, l) = 0
                 THEN [tags EXCEPT ![c][WayOf(c, l)].state = "INVALID",
                                   ![c][WayOf(c, l)].tag = None]
                 ELSE tags
      /\ \/ ToDataPipe(c, "WB")
         \/ reqq' = [reqq EXCEPT ![c] = Tail(@)] /\ dpipe' = dpipe
  BY <1>3 DEF FlushPurge
<1>5. /\ reqq' \in [CPUs -> Seq(InputItem)] /\ dpipe' \in [CPUs -> Seq(PipeItem)]
      /\ PipesAreQuiet
  <2>1. CASE ToDataPipe(c, "WB")
    BY <1>0, <2>1, GoesToDataPipe
  <2>2. CASE reqq' = [reqq EXCEPT ![c] = Tail(@)] /\ dpipe' = dpipe
    BY <1>0, <1>2, <2>2, SamePipes DEF Types
  <2> QED BY <1>4, <2>1, <2>2
<1>6. CASE CacheSearch(c, l) # 0
  <2>1. tags' = tags
    BY <1>4, <1>6
  <2>2. Types'
    BY <1>0, <1>4, <1>5, <2>1 DEF Types
  <2> QED BY <1>0, <1>4, <1>5, <2>1, <2>2, QuietStep, SameTags, SameMSHRs, SameInterfaces, SameTransfers
<1>7. CASE CacheSearch(c, l) = 0
  <2>1. PICK w \in Ways : w = WayOf(c, l) /\ tags[c][w].tag = l
    BY <1>7, Found
  <2>2. tags[c][w] \in TagEntry
    BY <1>0 DEF Types
  <2>3. PICK e \in TagEntry : /\ e = [[tags[c][w] EXCEPT !.state = "INVALID"] EXCEPT !.tag = None]
                              /\ e.tag = None /\ e.state = "INVALID" /\ e.mshr_out = tags[c][w].mshr_out
    <3>1. [[tags[c][w] EXCEPT !.state = "INVALID"] EXCEPT !.tag = None] \in TagEntry
      BY <2>2 DEF TagEntry, LineState
    <3> QED BY <2>2, <3>1 DEF TagEntry
  <2>4. tags' = [tags EXCEPT ![c] = [tags[c] EXCEPT ![w] = e]]
    <3>1. tags' = [tags EXCEPT ![c][w].state = "INVALID", ![c][w].tag = None]
      BY <1>4, <1>7, <2>1
    <3> QED BY <1>0, <2>3, <3>1 DEF Types
  <2>5. MayEnter(tags[c], w, e)
    BY <2>3 DEF MayEnter
  <2>6. /\ tags' \in [CPUs -> [Ways -> TagEntry]] /\ TagsAreExact' /\ LineOf' = Entered(c, w, e)
        /\ tags'[c][w] = e /\ \A v \in Ways : v # w => tags'[c][v] = tags[c][v]
        /\ \A d \in CPUs : d # c => tags'[d] = tags[d]
    <3>1. Enters(c, w, e)
      BY <2>4, <2>5 DEF Enters, TagsTake
    <3> QED BY <1>0, <3>1, TagsAfter
  <2>7. Types'
    BY <1>0, <1>4, <1>5, <2>6 DEF Types
  <2>8. ASSUME NEW q \in Request PROVE WayIsKnown(q)'
    <3>1. WayIsKnown(q) /\ q[1] \in CPUs /\ q[2] \in Lines /\ q = <<q[1], q[2]>>
      BY Names DEF CInv
    <3>2. mshr' = mshr /\ (ToFill(q)' <=> ToFill(q))
      BY <1>4 DEF ToFill, ToInstall
    <3>3. ASSUME mshr[q].valid, NEW v \in Ways, tags[q[1]][v].tag = q[2]
          PROVE  tags'[q[1]][v] = tags[q[1]][v]
      <4>1. q[1] = c => v # w
        BY <1>4, <2>1, <3>1, <3>3
      <4> QED BY <2>6, <3>1, <4>1
    <3>4. ASSUME mshr[q].valid, NEW v \in Ways, tags'[q[1]][v].tag = q[2]
          PROVE  tags[q[1]][v].tag = q[2]
      <4>1. q[1] = c => v # w
        <5>1. q[2] # None
          BY <3>1, Names
        <5>2. tags'[c][w].tag = None
          BY <2>3, <2>6
        <5> QED BY <3>4, <5>1, <5>2
      <4> QED BY <2>6, <3>1, <3>4, <4>1
    <3>5. mshr[q].valid /\ mshr[q].misscache = 0 => mshr[q].way \in Ways
      BY <3>1 DEF WayIsKnown
    <3>6. mshr[q].valid /\ ToFill(q) /\ mshr[q].misscache = 0
            => tags'[q[1]][mshr[q].way].tag = q[2] /\ tags'[q[1]][mshr[q].way].mshr_out
      BY <3>1, <3>3, <3>5 DEF WayIsKnown
    <3> QED BY <3>1, <3>2, <3>4, <3>6, WayStaysKnown
  <2>9. CInv' /\ coheq' = coheq /\ RequestOf' = RequestOf
    BY <1>0, <1>4, <1>5, <2>6, <2>7, <2>8, QuietTags, SameMSHRs, SameInterfaces, SameTransfers
  <2>10. LineOf' = Abstract!Without(c, {l})
    <3>1. \A r \in Request : LineOf'[r] = IF r[1] = c /\ r[2] \in {l} THEN "INVALID" ELSE LineOf[r]
      <4>1. \A r \in Request : r[2] # None
        BY Names
      <4> QED BY <2>1, <2>3, <2>6, <4>1 DEF Entered
    <3>2. LineOf' = [r \in Request |-> LineOf'[r]]
      BY DEF LineOf
    <3>3. Abstract!Request = Request
      BY DEF Abstract!Request, Request
    <3> QED BY <3>1, <3>2, <3>3 DEF Abstract!Without
  <2>11. Abstract!Flush(c)
    BY <2>9, <2>10 DEF Abstract!Flush
  <2> QED BY <2>9, <2>11
<1> QED BY <1>6, <1>7

\* The request of a free MSHR is nowhere.
LEMMA FreeIsQuiet ==
  ASSUME NEW r \in Request, RequestIsSound(r), ~mshr[r].valid
  PROVE  /\ Stage(r) = "idle" /\ mshr[r].memtrans # "reading"
         /\ ~InReplyq(r) /\ ~Leaving(r) /\ ~ToInstall(r)
         /\ \A m \in Masters : ~Pending(m, r) /\ \A t \in TokensOf(r) : ~At(m, t)
         /\ \A c \in CPUs : ~Holds(c, r)
<1>1. Stage(r) = "idle" /\ mshr[r].memtrans # "reading"
  BY DEF Stage, RequestIsSound, ReadIsOpen
<1>2. ~InReplyq(r) /\ ~Leaving(r) /\ ~ToInstall(r)
  BY DEF RequestIsSound, LineFillsOnce, ToInstall, InReplyq
<1>3. \A c \in CPUs : ~Holds(c, r)
  BY DEF RequestIsSound, CopyGoesOnce
<1>4. \A m \in Masters : ~Pending(m, r) /\ ~At(m, REQ(r)) /\ ~At(m, REP(r))
  BY DEF RequestIsSound, RequestGoesOnce, ReplyGoesOnce
<1>5. \A m \in Masters : ~At(m, COPY(r))
  BY <1>3 DEF RequestIsSound, CopyGoesOnce, Holds
<1> QED BY <1>1, <1>2, <1>3, <1>4, <1>5 DEF TokensOf

\* A new entry for the same line in the same state.
LEMMA SameLine ==
  ASSUME Types, TagsAreExact, NEW c \in CPUs, NEW w \in Ways, NEW e \in TagEntry,
         TagsTake(c, w, e), e.tag = tags[c][w].tag, e.state = tags[c][w].state, e.tag # None
  PROVE  /\ tags' \in [CPUs -> [Ways -> TagEntry]] /\ TagsAreExact' /\ LineOf' = LineOf
         /\ tags'[c][w] = e /\ \A v \in Ways : v # w => tags'[c][v] = tags[c][v]
         /\ \A d \in CPUs : d # c => tags'[d] = tags[d]
<1>1. Enters(c, w, e)
  BY DEF Enters, MayEnter, TagsAreExact
<1>2. /\ tags' \in [CPUs -> [Ways -> TagEntry]] /\ TagsAreExact' /\ LineOf' = Entered(c, w, e)
      /\ tags'[c][w] = e /\ \A v \in Ways : v # w => tags'[c][v] = tags[c][v]
      /\ \A d \in CPUs : d # c => tags'[d] = tags[d]
  BY <1>1, TagsAfter
<1>3. ExactTags(tags[c])
  BY DEF TagsAreExact, ExactTags
<1>4. LineIn(tags[c], e.tag) = e.state
  <2> DEFINE t == tags[c]
  <2>1. ExactTags(t) /\ t[w].tag # None /\ e.tag = t[w].tag /\ e.state = t[w].state
    BY <1>3
  <2> HIDE DEF t
  <2>2. LineIn(t, t[w].tag) = t[w].state
    BY <2>1, LineAt
  <2> QED BY <2>1, <2>2 DEF t
<1>5. \A r \in Request : r[1] = c /\ r[2] = e.tag => LineOf[r] = e.state
  <2> SUFFICES ASSUME NEW r \in Request, r[1] = c, r[2] = e.tag PROVE LineOf[r] = e.state
    OBVIOUS
  <2>1. r[2] \in Lines
    BY Names
  <2>2. LineOf[r] = StateOf(c, e.tag) /\ e.tag \in Lines
    BY <2>1 DEF LineOf
  <2> QED BY <2>2, <1>4, LinesAreStates
<1>6. \A r \in Request : Entered(c, w, e)[r] = LineOf[r]
  BY <1>5 DEF Entered
<1>7. Entered(c, w, e) = [r \in Request |-> Entered(c, w, e)[r]] /\ LineOf = [r \in Request |-> LineOf[r]]
  BY DEF Entered, LineOf
<1> QED BY <1>2, <1>6, <1>7

\* What a miss leaves in its MSHR.
LEMMA Misses ==
  ASSUME Types, TagsAreExact, NEW c \in CPUs, NEW l \in Lines, NEW op \in {"READ", "WRITE"},
         CacheSearch(c, l) = 0 => op = "WRITE"
  PROVE  \E m \in MSHR :
           /\ NewMSHR(c, op, l) = m
           /\ m.valid /\ m.phase = "arb" /\ m.cohe_type = "REPLY_EXCL" /\ m.memtrans = "none"
           /\ m.type \in RequestType
           /\ m.has_writes \/ m.misscache = 0 => m.type # "READ_SH"
           /\ m.misscache = CacheSearch(c, l)
           /\ m.misscache = 2 => m.way = None
           /\ m.misscache # 2 => m.way = WayOf(c, l) /\ m.way \in Ways
<1> DEFINE miss == CacheSearch(c, l)
           way  == IF miss = 2 THEN None ELSE WayOf(c, l)
           type == IF miss = 0 THEN "UPGRADE" ELSE IF op = "READ" THEN "READ_SH" ELSE "READ_OWN"
           hw   == op # "READ"
           m    == [FreeMSHR EXCEPT !.valid = TRUE, !.main = op, !.misscache = miss, !.way = way,
                                    !.has_writes = hw, !.type = type]
<1>1. NewMSHR(c, op, l) = m
  BY DEF NewMSHR
<1>2. miss \in 0 .. 2
  BY DEF CacheSearch
<1>3. way \in Ways \cup {None} /\ (miss = 2 => way = None)
      /\ (miss # 2 => way = WayOf(c, l) /\ way \in Ways)
  BY Found
<1>4. type \in RequestType /\ (hw \/ miss = 0 => type # "READ_SH") /\ hw \in BOOLEAN
  BY DEF RequestType
<1> HIDE DEF miss, way, type, hw
<1>5. FreeMSHR \in MSHR /\ FreeMSHR.phase = "arb" /\ FreeMSHR.cohe_type = "REPLY_EXCL"
      /\ FreeMSHR.memtrans = "none"
  <2>1. << >> \in Seq(Op)
    OBVIOUS
  <2> QED BY <2>1 DEF FreeMSHR, MSHR, RequestType, ReplyType, Phase, Op
<1>6. m \in MSHR
  BY <1>2, <1>3, <1>4, <1>5 DEF MSHR, Op
<1>7. /\ m.valid /\ m.phase = "arb" /\ m.cohe_type = "REPLY_EXCL" /\ m.memtrans = "none"
      /\ m.type = type /\ m.misscache = miss /\ m.way = way /\ m.has_writes = hw
  BY <1>5 DEF MSHR
<1> HIDE DEF m
<1> QED BY <1>1, <1>3, <1>4, <1>6, <1>7 DEF miss

\* The request of a new MSHR enters the system interface.
LEMMA NewRequest ==
  ASSUME Types, InterfacesAreOrderly, NEW c \in CPUs, NEW r \in Request, r[1] = c,
         ~Has(sif[c], REQ(r)), sif[c].pending_request # r,
         sif' = [sif EXCEPT ![c] = StartRequest(@, r)], mmcq' = mmcq
  PROVE  /\ sif' \in [CPUs -> Interface] /\ InterfacesAreOrderly'
         /\ \A d \in CPUs : sif'[d].cohe_reply = sif[d].cohe_reply
         /\ \A q \in Request : q # r =>
              /\ SamePending(q)
              /\ \A m \in Masters, t \in TokensOf(q) : Waits(m, t)' <=> Waits(m, t)
         /\ \A m \in Masters : Waits(m, REP(r))' \/ Waits(m, COPY(r))'
                                 => Waits(m, REP(r)) \/ Waits(m, COPY(r))
         /\ \A m \in Masters : m # c =>
              /\ Pending(m, r)' => Pending(m, r)
              /\ Waits(m, REQ(r))' => Waits(m, REQ(r))
         /\ ~(Pending(c, r)' /\ Waits(c, REQ(r))')
<1> DEFINE a == StartRequest(sif[c], r)
<1>1. sif[c] \in Interface /\ Once(sif[c])
  BY DEF Types, InterfacesAreOrderly
<1>2. /\ a \in Interface /\ Once(a) /\ a.cohe_reply = sif[c].cohe_reply
      /\ \/ /\ a.pending_request = r
            /\ \A x \in Items : Has(a, x) <=> Has(sif[c], x)
         \/ /\ a.pending_request = sif[c].pending_request
            /\ \A x \in Items : Has(a, x) <=> Has(sif[c], x) \/ x = REQ(r)
  BY <1>1, StartsRequest
<1>3. sif' = [sif EXCEPT ![c] = a]
  OBVIOUS
<1> HIDE DEF a
<1>4. sif' \in [CPUs -> Interface] /\ sif'[c] = a /\ \A d \in CPUs : d # c => sif'[d] = sif[d]
  BY <1>2, <1>3 DEF Types
<1>5. InterfacesAreOrderly'
  BY <1>2, <1>4 DEF InterfacesAreOrderly
<1>6. \A d \in CPUs : sif'[d].cohe_reply = sif[d].cohe_reply
  BY <1>2, <1>4
<1>7. ASSUME NEW q \in Request, q # r
      PROVE  /\ SamePending(q)
             /\ \A m \in Masters, t \in TokensOf(q) : Waits(m, t)' <=> Waits(m, t)
  <2>1. \A t \in TokensOf(q) : t \in Items /\ t # REQ(r)
    BY <1>7, Transactions DEF TokensOf
  <2>2. SamePending(q)
    BY <1>2, <1>4, <1>7 DEF SamePending, Pending
  <2> QED BY <1>2, <1>4, <2>1, <2>2 DEF Waits, Masters
<1>8. /\ REQ(r) \in Items /\ REP(r) \in Items /\ COPY(r) \in Items
      /\ REP(r) # REQ(r) /\ COPY(r) # REQ(r)
  <2>1. REQ(r).type = "REQUEST" /\ REP(r).type = "REPLY" /\ COPY(r).type = "COHE_REPLY"
    BY Transactions
  <2> QED BY <2>1, Transactions
<1>9. c # MMC
  BY Names
<1>10. \A m \in Masters : Waits(m, REP(r))' \/ Waits(m, COPY(r))'
                            => Waits(m, REP(r)) \/ Waits(m, COPY(r))
  BY <1>2, <1>4, <1>8 DEF Waits, Masters
<1>11. \A m \in Masters : m # c => /\ Pending(m, r)' => Pending(m, r)
                                   /\ Waits(m, REQ(r))' => Waits(m, REQ(r))
  BY <1>4 DEF Pending, Waits, Masters
<1>12. ~(Pending(c, r)' /\ Waits(c, REQ(r))')
  BY <1>2, <1>4, <1>8, <1>9 DEF Pending, Waits
<1> QED BY <1>4, <1>5, <1>6, <1>7, <1>10, <1>11, <1>12

\* L2Cache_check_mshr, a miss: a fresh MSHR, and a request that is not on the bus
\* yet.
LEMMA QuietMiss ==
  ASSUME CInv, NEW c \in CPUs, TagRequestMiss(c)
  PROVE  CInv' /\ Stutters
<1>0. Types /\ TagsAreExact /\ InterfacesAreOrderly /\ PipesAreOrderly /\ RepliesAreOrderly
      /\ reqq[c] # <<>>
  BY DEF CInv, TagRequestMiss, RequestAtTag
<1>1. reqq[c] \in Seq(InputItem)
  BY <1>0 DEF Types
<1>2. Head(reqq[c]) \in InputItem /\ Tail(reqq[c]) \in Seq(InputItem)
  BY <1>0, <1>1, QueueTypes
<1>3. PICK l \in Lines, op \in {"READ", "WRITE"} : l = Head(reqq[c]).line /\ op = Head(reqq[c]).op
  BY <1>2 DEF InputItem, TagRequestMiss
<1>4. PICK r \in Request : r = <<c, l>> /\ r[1] = c /\ r[2] = l
  BY Names
<1>5. /\ UNCHANGED <<wbuf, coheq, replyq, dpipe, dcp, mmcq, bus>>
      /\ reqq' = [reqq EXCEPT ![c] = Tail(@)]
      /\ ~mshr[r].valid
      /\ CacheSearch(c, l) = 0 => op = "WRITE"
      /\ mshr' = [mshr EXCEPT ![r] = NewMSHR(c, op, l)]
      /\ tags' = IF CacheSearch(c, l) = 0
                 THEN [tags EXCEPT ![c][WayOf(c, l)].mshr_out = TRUE] ELSE tags
      /\ sif' = [sif EXCEPT ![c] = StartRequest(@, r)]
  BY <1>3, <1>4 DEF TagRequestMiss
<1>6. PICK k \in MSHR :
           /\ NewMSHR(c, op, l) = k
           /\ k.valid /\ k.phase = "arb" /\ k.cohe_type = "REPLY_EXCL" /\ k.memtrans = "none"
           /\ k.type \in RequestType
           /\ k.has_writes \/ k.misscache = 0 => k.type # "READ_SH"
           /\ k.misscache = CacheSearch(c, l)
           /\ k.misscache = 2 => k.way = None
           /\ k.misscache # 2 => k.way = WayOf(c, l) /\ k.way \in Ways
  BY <1>0, <1>5, Misses
<1>7. mshr' \in [Request -> MSHR] /\ mshr'[r] = k /\ \A q \in Request : q # r => mshr'[q] = mshr[q]
  BY <1>0, <1>5, <1>6 DEF Types
<1>8. /\ tags' \in [CPUs -> [Ways -> TagEntry]] /\ TagsAreExact' /\ LineOf' = LineOf
      /\ \A d \in CPUs : SameWays(d)
      /\ CacheSearch(c, l) = 0 => tags'[c][WayOf(c, l)].mshr_out
  <2>1. CASE CacheSearch(c, l) # 0
    BY <1>0, <1>5, <2>1, SameTags DEF Types
  <2>2. CASE CacheSearch(c, l) = 0
    <3>1. PICK w \in Ways : w = WayOf(c, l) /\ tags[c][w].tag = l
      BY <2>2, Found
    <3>2. tags[c][w] \in TagEntry
      BY <1>0 DEF Types
    <3>3. PICK e \in TagEntry : /\ e = [tags[c][w] EXCEPT !.mshr_out = TRUE]
                                /\ e.tag = tags[c][w].tag /\ e.state = tags[c][w].state /\ e.mshr_out
      <4>1. [tags[c][w] EXCEPT !.mshr_out = TRUE] \in TagEntry
        BY <3>2 DEF TagEntry
      <4> QED BY <3>2, <4>1 DEF TagEntry
    <3>4. TagsTake(c, w, e)
      BY <1>0, <1>5, <2>2, <3>1, <3>3 DEF Types, TagsTake
    <3>5. e.tag # None
      BY <3>1, <3>3, Names
    <3>6. /\ tags' \in [CPUs -> [Ways -> TagEntry]] /\ TagsAreExact' /\ LineOf' = LineOf
          /\ tags'[c][w] = e /\ \A v \in Ways : v # w => tags'[c][v] = tags[c][v]
          /\ \A d \in CPUs : d # c => tags'[d] = tags[d]
      BY <1>0, <3>3, <3>4, <3>5, SameLine
    <3>7. \A d \in CPUs : SameWays(d)
      BY <3>3, <3>6 DEF SameWays
    <3> QED BY <3>1, <3>3, <3>6, <3>7
  <2> QED BY <2>1, <2>2
<1>9. RequestIsSound(r)
  BY DEF CInv
<1>10. /\ Stage(r) = "idle" /\ mshr[r].memtrans # "reading"
       /\ ~InReplyq(r) /\ ~Leaving(r) /\ ~ToInstall(r)
       /\ \A m \in Masters : ~Pending(m, r) /\ \A t \in TokensOf(r) : ~At(m, t)
       /\ \A d \in CPUs : ~Holds(d, r)
  BY <1>5, <1>9, FreeIsQuiet
<1>11. c \in Masters /\ REQ(r) \in TokensOf(r) /\ REP(r) \in TokensOf(r) /\ COPY(r) \in TokensOf(r)
       /\ c # MMC
  BY Tokens, Names DEF Masters
<1>12. ~Has(sif[c], REQ(r)) /\ sif[c].pending_request # r
  BY <1>10, <1>11 DEF At, Waits, Pending
<1>13. /\ sif' \in [CPUs -> Interface] /\ InterfacesAreOrderly'
       /\ \A d \in CPUs : sif'[d].cohe_reply = sif[d].cohe_reply
       /\ \A q \in Request : q # r =>
            /\ SamePending(q)
            /\ \A m \in Masters, t \in TokensOf(q) : Waits(m, t)' <=> Waits(m, t)
       /\ \A m \in Masters : Waits(m, REP(r))' \/ Waits(m, COPY(r))'
                               => Waits(m, REP(r)) \/ Waits(m, COPY(r))
       /\ \A m \in Masters : m # c =>
            /\ Pending(m, r)' => Pending(m, r)
            /\ Waits(m, REQ(r))' => Waits(m, REQ(r))
       /\ ~(Pending(c, r)' /\ Waits(c, REQ(r))')
  BY <1>0, <1>4, <1>5, <1>12, NewRequest
<1>14. Types'
  BY <1>0, <1>2, <1>5, <1>7, <1>8, <1>13 DEF Types
<1>15. ContainersAreOrderly'
  BY <1>0, <1>5, <1>8, <1>13, <1>14 DEF ContainersAreOrderly, PipesAreOrderly, RepliesAreOrderly
<1>16. ASSUME NEW q \in Request, q # r
       PROVE  WayIsKnown(q)' /\ RequestIsSound(q)' /\ RequestOf'[q] = RequestOf[q]
  <2>1. SameMSHR(q)
    BY <1>7, <1>16 DEF SameMSHR
  <2>2. SamePending(q) /\ \A m \in Masters, t \in TokensOf(q) : Waits(m, t)' <=> Waits(m, t)
    BY <1>13, <1>16
  <2>3. SameTokens(q)
    BY <1>5, <2>2 DEF SameTokens, Won, Runs
  <2>4. SameFill(q) /\ SameSnoops(q) /\ SameCopies(q)
    BY <1>5, <1>13 DEF SameFill, SameSnoops, SameCopies, InReplyq, ToInstall, Leaving, Snoops,
                       InPipe, SetAside, AtTheBus
  <2>5. SameRequest(q)
    BY <2>1, <2>2, <2>3, <2>4 DEF SameRequest
  <2>6. WayIsKnown(q) /\ RequestIsSound(q) /\ SameWays(q[1])
    BY <1>8, Names DEF CInv
  <2> QED BY <1>0, <1>14, <2>1, <2>4, <2>5, <2>6, SameRequestIsSound, SameWaysAreKnown
<1>17. ~InReplyq(r)' /\ ~Leaving(r)' /\ ~ToInstall(r)' /\ \A d \in CPUs : ~Holds(d, r)'
  BY <1>5, <1>10, <1>13 DEF InReplyq, Leaving, ToInstall, Holds, InPipe, SetAside, AtTheBus
<1>18. \A m \in Masters, t \in TokensOf(r) : ~Won(m, t)' /\ ~Runs(m, t)'
  BY <1>5, <1>10 DEF At, Won, Runs
<1>19. \A m \in Masters : ~At(m, REP(r))' /\ ~At(m, COPY(r))'
  <2>1. \A m \in Masters : ~Waits(m, REP(r))' /\ ~Waits(m, COPY(r))'
    BY <1>10, <1>11, <1>13 DEF At
  <2> QED BY <2>1, <1>11, <1>18 DEF At
<1>20. \A m \in Masters : /\ Pending(m, r)' => ~At(m, REQ(r))'
                          /\ Pending(m, r)' \/ At(m, REQ(r))' => m = c
  BY <1>10, <1>11, <1>13, <1>18 DEF At
<1>21. Stage(r)' = "idle" /\ Unanswered(r)'
  BY <1>6, <1>7 DEF Stage, Unanswered, RequestType
<1>22. RequestIsSound(r)'
  <2>1. WritesAreExclusive(r)'
    BY <1>6, <1>7, <1>21 DEF WritesAreExclusive, RequestType
  <2>2. SentOnce(r)'
    BY <1>18 DEF SentOnce
  <2>3. RequestGoesOnce(r)'
    BY <1>4, <1>6, <1>7, <1>11, <1>18, <1>20 DEF RequestGoesOnce
  <2>4. ReplyGoesOnce(r)' /\ LineFillsOnce(r)' /\ CopyGoesOnce(r)'
    BY <1>17, <1>19 DEF ReplyGoesOnce, LineFillsOnce, CopyGoesOnce, Holds
  <2>5. CountIsExact(r)' /\ IssuedIsSeen(r)'
    BY <1>21 DEF CountIsExact, IssuedIsSeen
  <2>6. ReadIsOpen(r)'
    BY <1>6, <1>7 DEF ReadIsOpen
  <2> QED BY <2>1, <2>2, <2>3, <2>4, <2>5, <2>6 DEF RequestIsSound
<1>23. WayIsKnown(r)'
  <2>1. ToFill(r)'
    BY <1>6, <1>7 DEF ToFill
  <2>2. WaysOf(c, l)' = WaysOf(c, l)
    BY <1>8 DEF WaysOf, SameWays
  <2>3. WaysOf(c, l) \subseteq {k.way}
    <3>1. CASE k.misscache = 2
      BY <1>6, <3>1, NotFound
    <3>2. CASE k.misscache # 2
      <4>1. WayOf(c, l) \in Ways /\ tags[c][WayOf(c, l)].tag = l /\ l # None
        BY <1>6, <3>2, Found, Names
      <4> QED BY <1>0, <1>6, <3>2, <4>1 DEF TagsAreExact, WaysOf
    <3> QED BY <3>1, <3>2
  <2>4. k.misscache = 0 => tags'[c][k.way].tag = l /\ tags'[c][k.way].mshr_out
    <3>1. ASSUME k.misscache = 0 PROVE tags'[c][k.way].tag = l /\ tags'[c][k.way].mshr_out
      <4>1. k.way = WayOf(c, l) /\ k.way \in Ways /\ CacheSearch(c, l) = 0
        BY <1>6, <3>1
      <4>2. tags[c][k.way].tag = l
        BY <4>1, Found
      <4> QED BY <1>8, <4>1, <4>2 DEF SameWays
    <3> QED BY <3>1
  <2> QED BY <1>4, <1>6, <1>7, <2>1, <2>2, <2>3, <2>4 DEF WayIsKnown
<1>24. RequestOf'[r] = RequestOf[r]
  BY <1>10, <1>21 DEF RequestOf
<1>25. \A q \in Request : WayIsKnown(q)' /\ RequestIsSound(q)' /\ RequestOf'[q] = RequestOf[q]
  BY <1>16, <1>22, <1>23, <1>24
<1>26. CInv' /\ RequestOf' = RequestOf
  BY <1>15, <1>25, AllSound
<1> QED BY <1>5, <1>8, <1>26 DEF Stutters

-----------------------------------------------------------------------------
(* The reply queue *)

\* The head of a queue is marked.
LEMMA HeadIsMarked ==
  ASSUME Types, RepliesAreOrderly, NEW c \in CPUs, replyq[c] # <<>>,
         NEW x \in Lines \cup {"reply"}, replyq' = [replyq EXCEPT ![c][1].todo = x]
  PROVE  /\ replyq' \in [CPUs -> Seq(ReplyItem)]
         /\ \A d \in CPUs : OneEach(replyq'[d])
         /\ \A r \in Request : InReplyq(r)' <=> InReplyq(r)
         /\ \A r \in Request : ToInstall(r)'
              <=> ToInstall(r) /\ ~(r[1] = c /\ r[2] = Head(replyq[c]).line)
<1> DEFINE q == replyq[c]
           j == [q[1] EXCEPT !.todo = x]
           p == [q EXCEPT ![1] = j]
<1>1. q \in Seq(ReplyItem) /\ q # <<>> /\ OneEach(q)
  BY DEF Types, RepliesAreOrderly
<1>2. replyq' = [replyq EXCEPT ![c] = p]
  OBVIOUS
<1> HIDE DEF q
<1>3. /\ Len(q) \in Nat /\ 1 \in 1 .. Len(q) /\ Head(q) = q[1] /\ Head(q) \in ReplyItem
      /\ q \in [1 .. Len(q) -> ReplyItem]
  BY <1>1, TailFacts
<1>4. j \in ReplyItem /\ j.line = q[1].line /\ j.todo = x
  BY <1>3 DEF ReplyItem
<1> HIDE DEF j
<1>5. p \in [1 .. Len(q) -> ReplyItem] /\ p[1] = j /\ \A n \in 1 .. Len(q) : n # 1 => p[n] = q[n]
  BY <1>3, <1>4
<1> HIDE DEF p
<1>6. p \in Seq(ReplyItem) /\ Len(p) = Len(q)
  BY <1>3, <1>5
<1>7. \A n \in 1 .. Len(q) : p[n].line = q[n].line
  BY <1>4, <1>5
<1>8. OneEach(p)
  BY <1>1, <1>6, <1>7 DEF OneEach
<1>9. replyq' \in [CPUs -> Seq(ReplyItem)] /\ replyq'[c] = p /\ \A d \in CPUs : d # c => replyq'[d] = replyq[d]
  BY <1>2, <1>6 DEF Types
<1>10. \A d \in CPUs : OneEach(replyq'[d])
  BY <1>8, <1>9 DEF RepliesAreOrderly
<1>11. \A r \in Request : InReplyq(r)' <=> InReplyq(r)
  <2> SUFFICES ASSUME NEW r \in Request PROVE InReplyq(r)' <=> InReplyq(r)
    OBVIOUS
  <2>1. r[1] \in CPUs
    BY Names
  <2>2. CASE r[1] # c
    BY <1>9, <2>1, <2>2 DEF InReplyq
  <2>3. CASE r[1] = c
    BY <1>6, <1>7, <1>9, <2>1, <2>3 DEF InReplyq, q
  <2> QED BY <2>2, <2>3
<1>12. ASSUME NEW r \in Request
       PROVE  ToInstall(r)' <=> ToInstall(r) /\ ~(r[1] = c /\ r[2] = Head(replyq[c]).line)
  <2>1. r[1] \in CPUs /\ x # "install"
    BY Names
  <2>2. CASE r[1] # c
    BY <1>9, <2>1, <2>2 DEF ToInstall
  <2>3. CASE r[1] = c /\ r[2] = q[1].line
    <3>1. \A n \in 1 .. Len(p) : p[n].line = r[2] => n = 1
      BY <1>3, <1>6, <1>7, <1>1, <2>3 DEF OneEach
    <3>2. ~ToInstall(r)'
      BY <1>4, <1>5, <1>9, <2>1, <2>3, <3>1 DEF ToInstall
    <3> QED BY <1>3, <2>3, <3>2 DEF q
  <2>4. CASE r[1] = c /\ r[2] # q[1].line
    <3>1. ToInstall(r)' <=> \E n \in 1 .. Len(q) : p[n].line = r[2] /\ p[n].todo = "install"
      BY <1>6, <1>9, <2>4 DEF ToInstall
    <3>2. ToInstall(r) <=> \E n \in 1 .. Len(q) : q[n].line = r[2] /\ q[n].todo = "install"
      BY <2>4 DEF ToInstall, q
    <3>3. \A n \in 1 .. Len(q) : p[n].line = r[2] \/ q[n].line = r[2] => n # 1
      BY <1>7, <2>4
    <3>4. ToInstall(r)' <=> ToInstall(r)
      BY <1>5, <3>1, <3>2, <3>3
    <3> QED BY <1>3, <2>4, <3>4 DEF q
  <2> QED BY <2>2, <2>3, <2>4
<1> QED BY <1>9, <1>10, <1>11, <1>12

\* A head that is not to be installed says so of its line.
LEMMA HeadIsInstalled ==
  ASSUME Types, RepliesAreOrderly, NEW r \in Request, replyq[r[1]] # <<>>,
         Head(replyq[r[1]]).line = r[2]
  PROVE  InReplyq(r) /\ (ToInstall(r) <=> Head(replyq[r[1]]).todo = "install")
<1> DEFINE q == replyq[r[1]]
<1>1. q \in Seq(ReplyItem) /\ q # <<>> /\ OneEach(q)
  BY Names DEF Types, RepliesAreOrderly
<1>2. 1 \in 1 .. Len(q) /\ Head(q) = q[1]
  <2> HIDE DEF q
  <2> QED BY <1>1, TailFacts
<1> QED BY <1>1, <1>2 DEF OneEach, InReplyq, ToInstall

\* A step that leaves the requests alone and what is to be installed.
LEMMA QuietReplies ==
  ASSUME CInv, Types', LineOf' = LineOf, coheq' = coheq, dcp' = dcp,
         RepliesAreOrderly',
         \A r \in Request : (InReplyq(r)' <=> InReplyq(r)) /\ (ToInstall(r)' <=> ToInstall(r)),
         TagsAreExact', \A c \in CPUs : SameWays(c),
         PipesAreQuiet, InterfacesAreQuiet, BusIsQuiet, \A r \in Request : SameMSHR(r)
  PROVE  CInv' /\ Stutters
<1>1. ContainersAreOrderly'
  BY DEF ContainersAreOrderly, CInv, PipesAreQuiet, InterfacesAreQuiet
<1>2. RequestsAreSame
  <2> SUFFICES ASSUME NEW r \in Request PROVE SameRequest(r)
    BY DEF RequestsAreSame
  <2>1. SameFill(r) /\ SameSnoops(r)
    BY DEF PipesAreQuiet, SameItems, SameFill, SameSnoops, Snoops
  <2>2. SameTokens(r) /\ SamePending(r)
    BY DEF InterfacesAreQuiet, BusIsQuiet, SameTokens
  <2>3. SameCopies(r)
    BY DEF PipesAreQuiet, InterfacesAreQuiet, SameItems, SameCopies, SetAside
  <2> QED BY <2>1, <2>2, <2>3 DEF SameRequest
<1> QED BY <1>1, <1>2, SameRequests DEF Stutters

\* L2ProcessTagReply, the victim's write-back.
LEMMA QuietReplyWriteback ==
  ASSUME CInv, NEW c \in CPUs, TagReplyWriteback(c)
  PROVE  CInv' /\ Stutters
<1>1. PICK l \in Lines : /\ ReplyAtTag(c, l)
                         /\ dpipe' = [dpipe EXCEPT ![c] = Append(@, DataItem("WB", l, None))]
  BY DEF TagReplyWriteback
<1>2. /\ UNCHANGED <<wbuf, reqq, tags, mshr, coheq, dcp, sif, mmcq, bus>>
      /\ replyq' = [replyq EXCEPT ![c][1].todo = "reply"]
  BY DEF TagReplyWriteback
<1>3. Types /\ TagsAreExact /\ InterfacesAreOrderly /\ PipesAreOrderly /\ RepliesAreOrderly
  BY DEF CInv
<1>4. replyq[c] # <<>> /\ Head(replyq[c]).todo = l /\ l # "install"
  BY <1>1, Names DEF ReplyAtTag
<1>5. /\ replyq' \in [CPUs -> Seq(ReplyItem)]
      /\ \A d \in CPUs : OneEach(replyq'[d])
      /\ \A r \in Request : InReplyq(r)' <=> InReplyq(r)
      /\ \A r \in Request : ToInstall(r)'
           <=> ToInstall(r) /\ ~(r[1] = c /\ r[2] = Head(replyq[c]).line)
  BY <1>2, <1>3, <1>4, HeadIsMarked
<1>6. ASSUME NEW r \in Request PROVE ToInstall(r)' <=> ToInstall(r)
  <2>1. r[1] = c /\ r[2] = Head(replyq[c]).line => ~ToInstall(r)
    BY <1>3, <1>4, HeadIsInstalled
  <2> QED BY <1>5, <2>1
<1>7. DataItem("WB", l, None) \in PipeItem /\ DataItem("WB", l, None).kind \notin {"REPLY", "C2C"}
  BY DEF DataItem, PipeItem
<1>8. dpipe' \in [CPUs -> Seq(PipeItem)] /\ PipesAreQuiet
  BY <1>1, <1>3, <1>7, QuietAppend DEF PipesAreQuiet
<1>9. Types' /\ RepliesAreOrderly'
  BY <1>2, <1>3, <1>5, <1>8 DEF Types, RepliesAreOrderly
<1> QED BY <1>2, <1>3, <1>5, <1>6, <1>8, <1>9, QuietReplies, SameTags, SameMSHRs, SameInterfaces, SameTransfers

\* The head leaves the reply queue.
LEMMA HeadIsReleased ==
  ASSUME Types, RepliesAreOrderly, NEW c \in CPUs, replyq[c] # <<>>,
         replyq' = [replyq EXCEPT ![c] = Tail(@)]
  PROVE  /\ replyq' \in [CPUs -> Seq(ReplyItem)]
         /\ \A d \in CPUs : OneEach(replyq'[d])
         /\ \A r \in Request : InReplyq(r)'
              <=> InReplyq(r) /\ ~(r[1] = c /\ r[2] = Head(replyq[c]).line)
         /\ \A r \in Request : ToInstall(r)'
              <=> ToInstall(r) /\ ~(r[1] = c /\ r[2] = Head(replyq[c]).line)
<1> DEFINE q == replyq[c]
           p == Tail(q)
<1>1. q \in Seq(ReplyItem) /\ q # <<>> /\ OneEach(q)
  BY DEF Types, RepliesAreOrderly
<1>2. replyq' = [replyq EXCEPT ![c] = p]
  OBVIOUS
<1> HIDE DEF q
<1>3. /\ Len(q) \in Nat \ {0} /\ Len(p) = Len(q) - 1 /\ p \in Seq(ReplyItem)
      /\ \A n \in 1 .. Len(p) : p[n] = q[n + 1] /\ n + 1 \in 1 .. Len(q)
      /\ \A n \in 1 .. Len(q) : n # 1 => n - 1 \in 1 .. Len(p) /\ p[n - 1] = q[n]
      /\ Head(q) = q[1] /\ 1 \in 1 .. Len(q)
  BY <1>1, TailFacts
<1> HIDE DEF p
<1>4. \A n \in 1 .. Len(p) : p[n].line # q[1].line
  <2> SUFFICES ASSUME NEW n \in 1 .. Len(p), p[n].line = q[1].line PROVE FALSE
    OBVIOUS
  <2>1. n + 1 \in 1 .. Len(q) /\ q[n + 1].line = q[1].line /\ n \in Nat \ {0}
    BY <1>3
  <2>2. n + 1 = 1
    BY <1>1, <1>3, <2>1 DEF OneEach
  <2> QED BY <2>1, <2>2
<1>5. OneEach(p)
  <2> SUFFICES ASSUME NEW n \in 1 .. Len(p), NEW k \in 1 .. Len(p), p[n].line = p[k].line
               PROVE  n = k
    BY DEF OneEach
  <2>1. q[n + 1].line = q[k + 1].line /\ n + 1 \in 1 .. Len(q) /\ k + 1 \in 1 .. Len(q)
    BY <1>3
  <2>2. n + 1 = k + 1
    BY <1>1, <2>1 DEF OneEach
  <2> QED BY <2>2
<1>6. replyq' \in [CPUs -> Seq(ReplyItem)] /\ replyq'[c] = p /\ \A d \in CPUs : d # c => replyq'[d] = replyq[d]
  BY <1>2, <1>3 DEF Types
<1>7. \A d \in CPUs : OneEach(replyq'[d])
  BY <1>5, <1>6 DEF RepliesAreOrderly
<1>8. ASSUME NEW r \in Request
      PROVE  /\ InReplyq(r)' <=> InReplyq(r) /\ ~(r[1] = c /\ r[2] = Head(replyq[c]).line)
             /\ ToInstall(r)' <=> ToInstall(r) /\ ~(r[1] = c /\ r[2] = Head(replyq[c]).line)
  <2>1. CASE r[1] # c
    <3>1. replyq'[r[1]] = replyq[r[1]]
      BY <1>6, <2>1, Names
    <3> QED BY <2>1, <3>1 DEF InReplyq, ToInstall
  <2>2. CASE r[1] = c
    <3>1. /\ InReplyq(r)' <=> \E n \in 1 .. Len(p) : p[n].line = r[2]
          /\ ToInstall(r)' <=> \E n \in 1 .. Len(p) : p[n].line = r[2] /\ p[n].todo = "install"
      BY <1>6, <2>2 DEF InReplyq, ToInstall
    <3>2. /\ InReplyq(r) <=> \E n \in 1 .. Len(q) : q[n].line = r[2]
          /\ ToInstall(r) <=> \E n \in 1 .. Len(q) : q[n].line = r[2] /\ q[n].todo = "install"
      BY <2>2 DEF InReplyq, ToInstall, q
    <3>3. Head(replyq[c]).line = q[1].line
      BY <1>3 DEF q
    <3>4. CASE r[2] = q[1].line
      BY <1>4, <2>2, <3>1, <3>3, <3>4
    <3>5. CASE r[2] # q[1].line
      <4>1. \A n \in 1 .. Len(q) : q[n].line = r[2] => n # 1
        BY <3>5
      <4>2. InReplyq(r)' <=> InReplyq(r)
        BY <1>3, <3>1, <3>2, <4>1, SMTT(30)
      <4>3. ToInstall(r)' <=> ToInstall(r)
        BY <1>3, <3>1, <3>2, <4>1
      <4> QED BY <3>3, <3>5, <4>2, <4>3
    <3> QED BY <3>4, <3>5
  <2> QED BY <2>1, <2>2
<1> QED BY <1>6, <1>7, <1>8

\* L2ProcessTagReply, the reply enters the data pipe.
LEMMA QuietRelease ==
  ASSUME CInv, NEW c \in CPUs, TagReplyRelease(c)
  PROVE  CInv' /\ Stutters
<1>1. Types /\ TagsAreExact /\ InterfacesAreOrderly /\ PipesAreOrderly /\ RepliesAreOrderly
  BY DEF CInv
<1>2. replyq[c] # <<>> /\ replyq[c] \in Seq(ReplyItem) /\ Head(replyq[c]).todo = "reply"
  BY <1>1 DEF TagReplyRelease, ReplyAtTag, Types
<1>3. Head(replyq[c]) \in ReplyItem
  BY <1>2, QueueTypes
<1>4. PICK l \in Lines : l = Head(replyq[c]).line
  BY <1>3 DEF ReplyItem
<1>5. PICK r \in Request : r = <<c, l>> /\ r[1] = c /\ r[2] = l
  BY Names
<1>6. /\ UNCHANGED <<wbuf, reqq, tags, coheq, dcp, sif, mmcq, bus>>
      /\ dpipe' = [dpipe EXCEPT ![c] = Append(@, Fill(r))]
      /\ mshr' = [mshr EXCEPT ![r].releasing = TRUE]
      /\ replyq' = [replyq EXCEPT ![c] = Tail(@)]
  BY <1>4, <1>5 DEF TagReplyRelease, Fill
<1>7. /\ replyq' \in [CPUs -> Seq(ReplyItem)]
      /\ \A d \in CPUs : OneEach(replyq'[d])
      /\ \A q \in Request : InReplyq(q)'
           <=> InReplyq(q) /\ ~(q[1] = c /\ q[2] = Head(replyq[c]).line)
      /\ \A q \in Request : ToInstall(q)'
           <=> ToInstall(q) /\ ~(q[1] = c /\ q[2] = Head(replyq[c]).line)
  BY <1>1, <1>2, <1>6, HeadIsReleased
<1>8. InReplyq(r) /\ ~ToInstall(r) /\ ~InReplyq(r)'
  <2>1. InReplyq(r) /\ (ToInstall(r) <=> Head(replyq[r[1]]).todo = "install")
    BY <1>1, <1>2, <1>4, <1>5, HeadIsInstalled
  <2> QED BY <1>2, <1>4, <1>5, <1>7, <2>1
<1>9. \A q \in Request : q # r => ~(q[1] = c /\ q[2] = Head(replyq[c]).line)
  BY <1>4, <1>5, Names
<1>10. ~Leaving(r) /\ mshr[r].valid /\ mshr[r].phase = "done"
  BY <1>8 DEF CInv, RequestIsSound, LineFillsOnce
<1>11. /\ Fill(r) \in PipeItem /\ Fill(r).kind = "REPLY" /\ Fill(r).to = None
       /\ \A q \in Request : Copy(q) # Fill(r)
       /\ \A q \in Request : q # r /\ q[1] = c => Fill(q) # Fill(r)
  <2>1. \A q \in Request : Copy(q).kind = "C2C"
    BY PipeKinds
  <2>2. Fill(r) \in PipeItem /\ Fill(r).kind = "REPLY" /\ Fill(r).to = None
    BY PipeKinds
  <2>3. \A q \in Request : Fill(q) = Fill(r) => q[2] = r[2]
    BY PipeKinds
  <2> QED BY <1>5, <2>1, <2>2, <2>3, Names
<1>12. dpipe[c] \in Seq(PipeItem) /\ SingleItems(dpipe[c]) /\ FillItems(dpipe[c]) /\ CopyItems(dpipe[c])
  BY <1>1 DEF Types, PipesAreOrderly
<1>13. ~Among(Fill(r), dpipe[c])
  BY <1>5, <1>10 DEF Leaving
<1> DEFINE p == Append(dpipe[c], Fill(r))
<1>14. /\ SingleItems(p) /\ FillItems(p) /\ CopyItems(p) /\ p \in Seq(PipeItem)
       /\ \A x : Among(x, p) <=> Among(x, dpipe[c]) \/ x = Fill(r)
  BY <1>11, <1>12, <1>13, PipeGrows
<1>15. dpipe' = [dpipe EXCEPT ![c] = p]
  BY <1>6
<1> HIDE DEF p
<1>16. dpipe' \in [CPUs -> Seq(PipeItem)] /\ dpipe'[c] = p /\ \A d \in CPUs : d # c => dpipe'[d] = dpipe[d]
  BY <1>1, <1>14, <1>15 DEF Types
<1>17. PipesAreOrderly'
  BY <1>1, <1>14, <1>16 DEF PipesAreOrderly
<1>18. mshr[r] \in MSHR
  BY <1>1 DEF Types
<1>19. PICK m \in MSHR : /\ mshr' = [mshr EXCEPT ![r] = m]
                         /\ m.valid = mshr[r].valid /\ m.phase = mshr[r].phase
                         /\ m.type = mshr[r].type /\ m.cohe_type = mshr[r].cohe_type
                         /\ m.misscache = mshr[r].misscache /\ m.way = mshr[r].way
                         /\ m.cohe_count = mshr[r].cohe_count /\ m.c2c_copy = mshr[r].c2c_copy
                         /\ m.data_rtn = mshr[r].data_rtn /\ m.memtrans = mshr[r].memtrans
                         /\ m.has_writes = mshr[r].has_writes /\ m.issued = mshr[r].issued
  <2> DEFINE n == [mshr[r] EXCEPT !.releasing = TRUE]
  <2>1. /\ n \in MSHR
        /\ n.valid = mshr[r].valid /\ n.phase = mshr[r].phase
        /\ n.type = mshr[r].type /\ n.cohe_type = mshr[r].cohe_type
        /\ n.misscache = mshr[r].misscache /\ n.way = mshr[r].way
        /\ n.cohe_count = mshr[r].cohe_count /\ n.c2c_copy = mshr[r].c2c_copy
        /\ n.data_rtn = mshr[r].data_rtn /\ n.memtrans = mshr[r].memtrans
        /\ n.has_writes = mshr[r].has_writes /\ n.issued = mshr[r].issued
    BY <1>18 DEF MSHR
  <2>2. mshr' = [mshr EXCEPT ![r] = n]
    BY <1>6
  <2> HIDE DEF n
  <2> QED BY <2>1, <2>2
<1>20. mshr' \in [Request -> MSHR] /\ \A q \in Request : SameMSHR(q)
  BY <1>19, QuietMSHR
<1>21. Types'
  BY <1>1, <1>6, <1>7, <1>16, <1>20 DEF Types
<1>22. ContainersAreOrderly'
  BY <1>1, <1>6, <1>7, <1>17, <1>21 DEF ContainersAreOrderly, TagsAreExact, InterfacesAreOrderly, RepliesAreOrderly
<1>23. ASSUME NEW q \in Request
       PROVE  WayIsKnown(q)' /\ RequestIsSound(q)' /\ RequestOf'[q] = RequestOf[q]
  <2>1. SameMSHR(q) /\ SameTokens(q) /\ SamePending(q) /\ SameSnoops(q) /\ SameWays(q[1])
    BY <1>6, <1>20 DEF SameTokens, SamePending, SameSnoops, SameWays, Waits, Won, Runs, Pending, Snoops
  <2>2. \A d \in CPUs : InPipe(d, q)' <=> InPipe(d, q)
    BY <1>11, <1>14, <1>16 DEF InPipe
  <2>3. SameCopies(q)
    BY <1>6, <2>2 DEF SameCopies, SetAside, AtTheBus
  <2>4. ToInstall(q)' <=> ToInstall(q)
    BY <1>7, <1>8, <1>9
  <2>5. CASE q # r
    <3>1. InReplyq(q)' <=> InReplyq(q)
      BY <1>7, <1>9, <2>5
    <3>2. Leaving(q)' <=> Leaving(q)
      BY <1>11, <1>14, <1>16, <2>5, Names DEF Leaving
    <3>3. SameFill(q) /\ SameRequest(q)
      BY <2>1, <2>3, <2>4, <3>1, <3>2 DEF SameFill, SameRequest
    <3>4. WayIsKnown(q) /\ RequestIsSound(q)
      BY DEF CInv
    <3> QED BY <1>1, <1>21, <2>1, <3>3, <3>4, SameRequestIsSound, SameWaysAreKnown
  <2>6. CASE q = r
    <3>1. WayIsKnown(q) /\ RequestIsSound(q)
      BY DEF CInv
    <3>2. \A x \in Masters, t \in TokensOf(q) : (At(x, t)' <=> At(x, t)) /\ (Runs(x, t)' <=> Runs(x, t))
      BY <2>1 DEF At, SameTokens
    <3>3. OnItsWay(q)' <=> OnItsWay(q)
      BY <1>6 DEF OnItsWay
    <3>4. SentOnce(q)'
      BY <2>1, <3>1 DEF RequestIsSound, SentOnce, SameTokens
    <3>5. RequestGoesOnce(q)' /\ ReplyGoesOnce(q)'
      BY <2>1, <3>1, <3>2, Tokens DEF RequestIsSound, RequestGoesOnce, ReplyGoesOnce, SamePending, SameMSHR
    <3>6. LineFillsOnce(q)'
      BY <1>8, <1>10, <2>1, <2>6 DEF LineFillsOnce, SameMSHR
    <3>7. CopyGoesOnce(q)'
      <4>1. \A d \in CPUs : Holds(d, q)' => Holds(d, q)
        BY <2>3 DEF SameCopies, Holds
      <4> QED BY <2>1, <2>3, <3>1, <3>2, <3>3, <4>1, Tokens DEF RequestIsSound, CopyGoesOnce, SameMSHR, SameCopies
    <3>8. RequestIsSound(q)' /\ RequestOf'[q] = RequestOf[q]
      BY <1>1, <1>21, <2>1, <2>4, <3>1, <3>3, <3>4, <3>5, <3>6, <3>7, MovedRequestIsSound
    <3>9. WayIsKnown(q)'
      <4>1. mshr'[q].valid = mshr[q].valid /\ mshr'[q].misscache = mshr[q].misscache /\ mshr'[q].way = mshr[q].way
            /\ mshr'[q].phase = mshr[q].phase
        BY <2>1 DEF SameMSHR
      <4>2. ToFill(q)' <=> ToFill(q)
        BY <2>4, <4>1 DEF ToFill
      <4> QED BY <1>6, <3>1, <4>1, <4>2 DEF WayIsKnown, WaysOf
    <3> QED BY <3>8, <3>9
  <2> QED BY <2>5, <2>6
<1>24. CInv' /\ RequestOf' = RequestOf
  BY <1>22, <1>23, AllSound
<1> QED BY <1>6, <1>24, SameTags DEF Stutters

\* The request as the other caches see it.
View == [stage : {"idle", "ordered", "answered", "filled"},
         exclusive : BOOLEAN, shared : BOOLEAN, copied : BOOLEAN]

\* A request is filled when nothing but its stage says so.
LEMMA Refills ==
  ASSUME NEW x \in View, NEW y \in View, y.stage = "filled", y.exclusive = x.exclusive,
         y.shared = x.shared, y.copied = x.copied
  PROVE  y = [x EXCEPT !.stage = "filled"]
<1>1. [x EXCEPT !.stage = "filled"] \in View
  BY DEF View
<1> QED BY DEF View

\* The transactions of a request whose MSHR keeps its phase.
LEMMA TokensStay ==
  ASSUME NEW r \in Request, RequestIsSound(r), SameTokens(r), SamePending(r),
         mshr'[r].valid = mshr[r].valid, mshr'[r].phase = mshr[r].phase
  PROVE  SentOnce(r)' /\ RequestGoesOnce(r)' /\ ReplyGoesOnce(r)'
<1>1. \A m \in Masters, t \in TokensOf(r) : (At(m, t)' <=> At(m, t)) /\ (Runs(m, t)' <=> Runs(m, t))
  BY DEF At, SameTokens
<1>2. SentOnce(r)'
  BY DEF RequestIsSound, SentOnce, SameTokens
<1>3. RequestGoesOnce(r)' /\ ReplyGoesOnce(r)'
  BY <1>1, Tokens DEF RequestIsSound, RequestGoesOnce, ReplyGoesOnce, SamePending
<1> QED BY <1>2, <1>3

\* What is known of a request that waits to be installed.
LEMMA WaitsToInstall ==
  ASSUME NEW r \in Request, Types, RequestIsSound(r), ToInstall(r)
  PROVE  /\ mshr[r].valid /\ mshr[r].phase = "done" /\ ~Unanswered(r) /\ ~OnItsWay(r)
         /\ mshr[r].type = mshr[r].cohe_type /\ Stage(r) = "answered"
         /\ mshr[r].has_writes \/ mshr[r].misscache = 0 => mshr[r].cohe_type = "REPLY_EXCL"
<1>1. mshr[r].valid /\ mshr[r].phase = "done"
  BY DEF RequestIsSound, LineFillsOnce, ToInstall, InReplyq
<1>2. ~Unanswered(r) /\ mshr[r].type = mshr[r].cohe_type
      /\ (mshr[r].has_writes \/ mshr[r].misscache = 0 => mshr[r].cohe_type = "REPLY_EXCL")
  BY <1>1 DEF RequestIsSound, WritesAreExclusive
<1>3. ~OnItsWay(r)
  BY <1>1, <1>2 DEF RequestIsSound, WritesAreExclusive
<1> QED BY <1>1, <1>2, <1>3 DEF Stage

\* A request whose line is installed stays sound.
LEMMA InstalledIsSound ==
  ASSUME NEW r \in Request, Types, RequestIsSound(r), ToInstall(r), ~ToInstall(r)',
         InReplyq(r)' <=> InReplyq(r),
         UNCHANGED <<coheq, dpipe, dcp, sif, mmcq, bus>>,
         NEW k \in MSHR, mshr'[r] = k, k \in {[mshr[r] EXCEPT !.way = w] : w \in Ways} \cup {mshr[r]}
  PROVE  /\ RequestIsSound(r)'
         /\ RequestOf[r].stage = "answered" /\ RequestOf'[r] = [RequestOf[r] EXCEPT !.stage = "filled"]
         /\ RequestOf[r].shared = (mshr[r].type = "REPLY_SH")
<1>1. mshr[r] \in MSHR
  BY DEF Types
<1>2. /\ k.valid = mshr[r].valid /\ k.phase = mshr[r].phase /\ k.type = mshr[r].type
      /\ k.cohe_type = mshr[r].cohe_type /\ k.misscache = mshr[r].misscache
      /\ k.has_writes = mshr[r].has_writes /\ k.memtrans = mshr[r].memtrans
      /\ k.c2c_copy = mshr[r].c2c_copy /\ k.issued = mshr[r].issued
  BY <1>1 DEF MSHR
<1>3. /\ mshr[r].valid /\ mshr[r].phase = "done" /\ ~Unanswered(r) /\ ~OnItsWay(r)
      /\ mshr[r].type = mshr[r].cohe_type /\ Stage(r) = "answered"
      /\ mshr[r].has_writes \/ mshr[r].misscache = 0 => mshr[r].cohe_type = "REPLY_EXCL"
  BY WaitsToInstall
<1>4. /\ ~Unanswered(r)' /\ ~OnItsWay(r)' /\ Stage(r)' = "filled"
  BY <1>2, <1>3 DEF Stage, Unanswered, OnItsWay
<1>5. SameTokens(r) /\ SamePending(r)
  BY DEF SameTokens, SamePending, Waits, Won, Runs, Pending
<1>6. SentOnce(r)' /\ RequestGoesOnce(r)' /\ ReplyGoesOnce(r)'
  BY <1>2, <1>5, TokensStay
<1>7. WritesAreExclusive(r)'
  BY <1>2, <1>3, <1>4 DEF RequestIsSound, WritesAreExclusive
<1>8. LineFillsOnce(r)'
  BY <1>2, <1>3 DEF RequestIsSound, LineFillsOnce, Leaving
<1>9. CopyGoesOnce(r)'
  BY <1>2, <1>3, <1>4 DEF RequestIsSound, CopyGoesOnce, Holds, InPipe, SetAside, AtTheBus, At, Waits, Won, Runs
<1>10. CountIsExact(r)' /\ IssuedIsSeen(r)' /\ ReadIsOpen(r)'
  BY <1>2, <1>3, <1>4 DEF RequestIsSound, CountIsExact, IssuedIsSeen, ReadIsOpen, Snoops
<1>11. RequestIsSound(r)'
  BY <1>6, <1>7, <1>8, <1>9, <1>10 DEF RequestIsSound
<1>12. /\ RequestOf[r] = [stage |-> "answered", exclusive |-> FALSE,
                          shared |-> mshr[r].cohe_type = "REPLY_SH", copied |-> FALSE]
       /\ RequestOf'[r] = [stage |-> "filled", exclusive |-> FALSE,
                           shared |-> mshr[r].cohe_type = "REPLY_SH", copied |-> FALSE]
  BY <1>2, <1>3, <1>4 DEF RequestOf
<1>13. /\ RequestOf[r] \in View /\ RequestOf'[r] \in View
       /\ RequestOf[r].stage = "answered" /\ RequestOf'[r].stage = "filled"
       /\ RequestOf[r].exclusive = FALSE /\ RequestOf'[r].exclusive = FALSE
       /\ RequestOf[r].copied = FALSE /\ RequestOf'[r].copied = FALSE
       /\ RequestOf[r].shared = (mshr[r].cohe_type = "REPLY_SH")
       /\ RequestOf'[r].shared = (mshr[r].cohe_type = "REPLY_SH")
  BY <1>12 DEF View
<1>14. RequestOf'[r] = [RequestOf[r] EXCEPT !.stage = "filled"]
  BY <1>13, Refills
<1> QED BY <1>3, <1>11, <1>13, <1>14

\* The line comes in, the old one of its way goes out.
LEMMA LineComesIn ==
  ASSUME NEW c \in CPUs, NEW w \in Ways, NEW e \in TagEntry, NEW r \in Request, r[1] = c,
         e.tag = r[2], LineOf' = Entered(c, w, e)
  PROVE  \E S \in SUBSET Lines : LineOf' = [Abstract!Without(r[1], S) EXCEPT ![r] = e.state]
<1> DEFINE S == {tags[c][w].tag} \cap Lines
           W == Abstract!Without(r[1], S)
<1>1. Abstract!Request = Request
  BY DEF Abstract!Request, Request
<1>2. W = [q \in Request |-> IF q[1] = r[1] /\ q[2] \in S THEN "INVALID" ELSE LineOf[q]]
  BY <1>1 DEF Abstract!Without
<1>3. \A q \in Request : q # r => ~(q[1] = c /\ q[2] = e.tag)
  BY Names
<1>4. \A q \in Request : q[2] \in Lines
  BY Names
<1>5. \A q \in Request : LineOf'[q] = IF q = r THEN e.state ELSE W[q]
  BY <1>2, <1>3, <1>4 DEF Entered
<1>6. LineOf' = [q \in Request |-> LineOf'[q]]
  BY DEF LineOf
<1>7. W \in [Request -> {W[q] : q \in Request}]
  BY <1>2
<1> HIDE DEF W
<1>8. LineOf' = [W EXCEPT ![r] = e.state]
  BY <1>5, <1>6, <1>7
<1>9. S \in SUBSET Lines
  OBVIOUS
<1> HIDE DEF S
<1> QED BY <1>8, <1>9 DEF W

\* The step leaves the lines that UPGRADEs have locked where they are.
LockedWaysStay ==
  \A c \in CPUs, w \in Ways : tags[c][w].mshr_out => tags'[c][w].tag = tags[c][w].tag

\* No cache has two MSHRs in use, so none fills a way that another has locked.
OneMSHR == \A q, r \in Request : mshr[q].valid /\ mshr[r].valid /\ q[1] = r[1] => q = r

\* The line of request r goes to way w of cache c, as entry e.
InstalledAs(c, r, w, e, k, x) ==
  /\ Enters(c, w, e) /\ e.tag = r[2]
  /\ e.state = "PR_DY" \/ e.state = InstalledState(mshr[r])
  /\ mshr[r].misscache = 0 => e.state = "PR_DY"
  /\ mshr[r].misscache # 0 => e.state = InstalledState(mshr[r])
  /\ mshr' = [mshr EXCEPT ![r] = k] /\ k = [mshr[r] EXCEPT !.way = w]
  /\ k.valid = mshr[r].valid /\ k.phase = mshr[r].phase /\ k.misscache = mshr[r].misscache
  /\ k.way = w
  /\ replyq' = [replyq EXCEPT ![c][1].todo = x]
  /\ \A q \in Request : q # r => mshr'[q] = mshr[q]
  /\ \A q \in Request :
       q # r /\ mshr[q].valid /\ ToFill(q) /\ mshr[q].misscache = 0 /\ q[1] = c
         => mshr[q].way # w

\* L2ProcessTagReply, the line comes in: Install.
LEMMA LineIsInstalled ==
  ASSUME CInv, NEW c \in CPUs, TagReplyInstall(c), LockedWaysStay \/ OneMSHR
  PROVE  CInv' /\ \E r \in Request : Abstract!Install(r)
<1>1. Types /\ TagsAreExact /\ InterfacesAreOrderly /\ PipesAreOrderly /\ RepliesAreOrderly
  BY DEF CInv
<1>2. replyq[c] # <<>> /\ replyq[c] \in Seq(ReplyItem) /\ Head(replyq[c]).todo = "install"
  BY <1>1 DEF TagReplyInstall, ReplyAtTag, Types
<1>3. Head(replyq[c]) \in ReplyItem
  BY <1>2, QueueTypes
<1>4. PICK l \in Lines : l = Head(replyq[c]).line
  BY <1>3 DEF ReplyItem
<1>5. PICK r \in Request : r = <<c, l>> /\ r[1] = c /\ r[2] = l
  BY Names
<1>6. InReplyq(r) /\ ToInstall(r)
  BY <1>1, <1>2, <1>4, <1>5, HeadIsInstalled
<1>7. RequestIsSound(r) /\ WayIsKnown(r)
  BY DEF CInv
<1>8. /\ mshr[r].valid /\ mshr[r].phase = "done" /\ ~Unanswered(r) /\ ~OnItsWay(r)
      /\ mshr[r].type = mshr[r].cohe_type /\ Stage(r) = "answered"
      /\ mshr[r].has_writes \/ mshr[r].misscache = 0 => mshr[r].cohe_type = "REPLY_EXCL"
  BY <1>1, <1>6, <1>7, WaitsToInstall
<1>9. ToFill(r)
  BY <1>6 DEF ToFill
<1>10. mshr[r] \in MSHR
  BY <1>1 DEF Types
<1>11. UNCHANGED <<wbuf, reqq, coheq, dpipe, dcp, sif, mmcq, bus>>
  BY DEF TagReplyInstall
<1>12. \E w \in Ways, e \in TagEntry, k \in MSHR, x \in Lines \cup {"reply"} :
         InstalledAs(c, r, w, e, k, x)
  <2>1. CASE mshr[r].misscache = 0
    <3>1. PICK w \in Ways : w = mshr[r].way /\ tags[c][w].tag = l
      BY <1>5, <1>7, <1>8, <1>9, <2>1 DEF WayIsKnown
    <3>2. tags[c][w] \in TagEntry
      BY <1>1 DEF Types
    <3>3. /\ tags' = [tags EXCEPT ![c][w].state = "PR_DY", ![c][w].mshr_out = FALSE]
          /\ replyq' = [replyq EXCEPT ![c][1].todo = "reply"] /\ mshr' = mshr
      BY <1>4, <1>5, <2>1, <3>1 DEF TagReplyInstall
    <3>4. PICK e \in TagEntry :
            /\ e = [[tags[c][w] EXCEPT !.state = "PR_DY"] EXCEPT !.mshr_out = FALSE]
            /\ e.tag = tags[c][w].tag /\ e.state = "PR_DY"
      <4>1. [[tags[c][w] EXCEPT !.state = "PR_DY"] EXCEPT !.mshr_out = FALSE] \in TagEntry
        BY <3>2 DEF TagEntry, LineState
      <4> QED BY <3>2, <4>1 DEF TagEntry
    <3>5. TagsTake(c, w, e)
      BY <1>1, <3>3, <3>4 DEF Types, TagsTake
    <3>6. MayEnter(tags[c], w, e)
      BY <1>1, <3>1, <3>4, Names DEF MayEnter, TagsAreExact
    <3>7. mshr' = [mshr EXCEPT ![r] = mshr[r]] /\ mshr[r] = [mshr[r] EXCEPT !.way = w]
      <4>1. mshr[r] = [mshr[r] EXCEPT !.way = w]
        BY <1>10, <3>1 DEF MSHR
      <4> QED BY <1>1, <3>3, <4>1 DEF Types
    <3>8. \A q \in Request :
              q # r /\ mshr[q].valid /\ ToFill(q) /\ mshr[q].misscache = 0 /\ q[1] = c
                => mshr[q].way # w
      <4> SUFFICES ASSUME NEW q \in Request, q # r, mshr[q].valid, ToFill(q),
                          mshr[q].misscache = 0, q[1] = c, mshr[q].way = w
                   PROVE  FALSE
        OBVIOUS
      <4>1. tags[c][w].tag = q[2]
        BY DEF CInv, WayIsKnown
      <4> QED BY <3>1, <4>1, <1>5, Names
    <3>9. InstalledAs(c, r, w, e, mshr[r], "reply")
      BY <1>5, <2>1, <3>1, <3>3, <3>4, <3>5, <3>6, <3>7, <3>8 DEF InstalledAs, Enters
    <3> QED BY <1>10, <3>9
  <2>2. CASE mshr[r].misscache # 0
    <3>1. PICK w \in FillWays(c, mshr[r]) :
            /\ tags' = [tags EXCEPT ![c][w].tag = l, ![c][w].state = InstalledState(mshr[r])]
            /\ mshr' = [mshr EXCEPT ![r].way = w]
            /\ replyq' = [replyq EXCEPT ![c][1].todo =
                 IF tags[c][w].state = "PR_DY" THEN tags[c][w].tag ELSE "reply"]
      BY <1>4, <1>5, <2>2 DEF TagReplyInstall
    <3>2. w \in Ways /\ (mshr[r].misscache # 1 => ~tags[c][w].mshr_out)
      BY <1>7, <1>8, <1>10, <2>2, <3>1 DEF FillWays, Victims, Unlocked, WayIsKnown
    <3>3. tags[c][w] \in TagEntry
      BY <1>1, <3>2 DEF Types
    <3>4. InstalledState(mshr[r]) \in LineState \ {"INVALID"}
      BY DEF InstalledState, LineState
    <3>5. PICK e \in TagEntry :
            /\ e = [[tags[c][w] EXCEPT !.tag = l] EXCEPT !.state = InstalledState(mshr[r])]
            /\ e.tag = l /\ e.state = InstalledState(mshr[r])
      <4>1. [[tags[c][w] EXCEPT !.tag = l] EXCEPT !.state = InstalledState(mshr[r])] \in TagEntry
        BY <3>3, <3>4 DEF TagEntry
      <4> QED BY <3>3, <4>1 DEF TagEntry
    <3>6. TagsTake(c, w, e)
      BY <1>1, <3>1, <3>2, <3>5 DEF Types, TagsTake
    <3>7. \A v \in Ways : tags[c][v].tag = l => v = w
      <4>1. WaysOf(c, l) \subseteq {mshr[r].way}
        BY <1>5, <1>7, <1>8 DEF WayIsKnown
      <4>2. CASE mshr[r].misscache = 1
        BY <3>1, <4>1, <4>2 DEF FillWays, WaysOf
      <4>3. CASE mshr[r].misscache = 2
        <5>1. mshr[r].way = None
          BY <1>7, <1>8, <1>9, <4>3 DEF WayIsKnown
        <5> QED BY <4>1, <5>1, Names DEF WaysOf
      <4>4. mshr[r].misscache \in {0, 1, 2}
        BY <1>10 DEF MSHR
      <4> QED BY <2>2, <4>2, <4>3, <4>4
    <3>8. MayEnter(tags[c], w, e)
      BY <3>5, <3>7, Names DEF MayEnter
    <3>9. PICK k \in MSHR : k = [mshr[r] EXCEPT !.way = w] /\ k.way = w
               /\ k.valid = mshr[r].valid /\ k.phase = mshr[r].phase /\ k.misscache = mshr[r].misscache
      <4>1. [mshr[r] EXCEPT !.way = w] \in MSHR
        BY <1>10, <3>2 DEF MSHR
      <4> QED BY <1>10, <4>1 DEF MSHR
    <3>10. mshr' = [mshr EXCEPT ![r] = k] /\ \A q \in Request : q # r => mshr'[q] = mshr[q]
      BY <1>1, <3>1, <3>9 DEF Types
    <3>11. PICK x \in Lines \cup {"reply"} :
              x = IF tags[c][w].state = "PR_DY" THEN tags[c][w].tag ELSE "reply"
      <4>1. tags[c][w].state = "PR_DY" => tags[c][w].tag \in Lines
        BY <1>1, <3>2, <3>3 DEF TagEntry, TagsAreExact
      <4> QED BY <4>1
    <3>12. \A q \in Request :
              q # r /\ mshr[q].valid /\ ToFill(q) /\ mshr[q].misscache = 0 /\ q[1] = c
                => mshr[q].way # w
      <4> SUFFICES ASSUME NEW q \in Request, q # r, mshr[q].valid, ToFill(q),
                          mshr[q].misscache = 0, q[1] = c, mshr[q].way = w
                   PROVE  FALSE
        OBVIOUS
      <4>1. tags[c][w].tag = q[2] /\ tags[c][w].mshr_out
        BY DEF CInv, WayIsKnown
      <4>2. tags'[c][w].tag = l
        BY <1>1, <3>2, <3>5, <3>6 DEF Types, TagsTake
      <4>3. q[2] # l
        BY <1>5, Names
      <4>4. LockedWaysStay
        BY <1>5, <1>8 DEF OneMSHR
      <4> QED BY <3>2, <4>1, <4>2, <4>3, <4>4 DEF LockedWaysStay
    <3>13. Enters(c, w, e) /\ e.tag = l
      BY <3>5, <3>6, <3>8 DEF Enters
    <3>14. InstalledAs(c, r, w, e, k, x)
      BY <1>5, <2>2, <3>1, <3>5, <3>9, <3>10, <3>11, <3>12, <3>13 DEF InstalledAs
    <3> QED BY <3>2, <3>14
  <2> QED BY <2>1, <2>2
<1>13. PICK w \in Ways, e \in TagEntry, k \in MSHR, x \in Lines \cup {"reply"} :
         InstalledAs(c, r, w, e, k, x)
  BY <1>12
<1>13a. /\ Enters(c, w, e) /\ e.tag = l
        /\ e.state = "PR_DY" \/ e.state = InstalledState(mshr[r])
        /\ mshr[r].misscache = 0 => e.state = "PR_DY"
        /\ mshr[r].misscache # 0 => e.state = InstalledState(mshr[r])
        /\ mshr' = [mshr EXCEPT ![r] = k] /\ k = [mshr[r] EXCEPT !.way = w]
        /\ k.valid = mshr[r].valid /\ k.phase = mshr[r].phase /\ k.misscache = mshr[r].misscache
        /\ k.way = w
        /\ replyq' = [replyq EXCEPT ![c][1].todo = x]
        /\ \A q \in Request : q # r => mshr'[q] = mshr[q]
        /\ \A q \in Request :
               q # r /\ mshr[q].valid /\ ToFill(q) /\ mshr[q].misscache = 0 /\ q[1] = c
                 => mshr[q].way # w
  BY <1>5, <1>13 DEF InstalledAs
<1>14. /\ tags' \in [CPUs -> [Ways -> TagEntry]] /\ TagsAreExact' /\ LineOf' = Entered(c, w, e)
       /\ tags'[c][w] = e /\ \A v \in Ways : v # w => tags'[c][v] = tags[c][v]
       /\ \A d \in CPUs : d # c => tags'[d] = tags[d]
  BY <1>1, <1>13a, TagsAfter
<1>15. /\ replyq' \in [CPUs -> Seq(ReplyItem)]
       /\ \A d \in CPUs : OneEach(replyq'[d])
       /\ \A q \in Request : InReplyq(q)' <=> InReplyq(q)
       /\ \A q \in Request : ToInstall(q)'
            <=> ToInstall(q) /\ ~(q[1] = c /\ q[2] = Head(replyq[c]).line)
  BY <1>1, <1>2, <1>13a, HeadIsMarked
<1>16. ~ToInstall(r)' /\ \A q \in Request : q # r => (ToInstall(q)' <=> ToInstall(q))
  BY <1>4, <1>5, <1>15, Names
<1>17. mshr' \in [Request -> MSHR] /\ mshr'[r] = k
  BY <1>1, <1>13a DEF Types
<1>18. Types'
  BY <1>1, <1>11, <1>14, <1>15, <1>17 DEF Types
<1>19. ContainersAreOrderly'
  BY <1>1, <1>11, <1>14, <1>15, <1>18 DEF ContainersAreOrderly, InterfacesAreOrderly, PipesAreOrderly, RepliesAreOrderly
<1>20. /\ RequestIsSound(r)'
       /\ RequestOf[r].stage = "answered" /\ RequestOf'[r] = [RequestOf[r] EXCEPT !.stage = "filled"]
       /\ RequestOf[r].shared = (mshr[r].type = "REPLY_SH")
  BY <1>1, <1>6, <1>7, <1>11, <1>13a, <1>15, <1>16, <1>17, InstalledIsSound
<1>21. WayIsKnown(r)'
  <2>1. ~ToFill(r)'
    BY <1>8, <1>13a, <1>16, <1>17 DEF ToFill
  <2>2. \A v \in Ways : tags'[c][v].tag = l => v = w
    BY <1>13a, <1>14, Names DEF TagsAreExact
  <2> QED BY <1>5, <1>13a, <1>17, <2>1, <2>2 DEF WayIsKnown, WaysOf
<1>22. ASSUME NEW q \in Request, q # r
       PROVE  WayIsKnown(q)' /\ RequestIsSound(q)' /\ RequestOf'[q] = RequestOf[q]
  <2>1. SameMSHR(q)
    BY <1>13a, <1>22 DEF SameMSHR
  <2>2. SameFill(q)
    BY <1>11, <1>15, <1>16, <1>22 DEF SameFill, Leaving
  <2>3. SameTokens(q) /\ SamePending(q) /\ SameCopies(q) /\ SameSnoops(q)
    BY <1>11 DEF SameTokens, SamePending, SameCopies, SameSnoops, Waits, Won, Runs, Pending,
                 InPipe, SetAside, AtTheBus, Snoops
  <2>4. SameRequest(q)
    BY <2>1, <2>2, <2>3 DEF SameRequest
  <2>5. WayIsKnown(q) /\ RequestIsSound(q) /\ q[1] \in CPUs
    BY Names DEF CInv
  <2>6. WayIsKnown(q)'
    <3>1. mshr'[q].valid = mshr[q].valid /\ mshr'[q].misscache = mshr[q].misscache /\ mshr'[q].way = mshr[q].way
          /\ mshr'[q].phase = mshr[q].phase
      BY <2>1 DEF SameMSHR
    <3>2. ToFill(q)' <=> ToFill(q)
      BY <3>1, <1>16, <1>22 DEF ToFill
    <3>3. mshr[q].valid /\ ToFill(q) /\ mshr[q].misscache = 0
            => tags'[q[1]][mshr[q].way].tag = q[2] /\ tags'[q[1]][mshr[q].way].mshr_out
      <4> SUFFICES ASSUME mshr[q].valid, ToFill(q), mshr[q].misscache = 0
                   PROVE  tags'[q[1]][mshr[q].way] = tags[q[1]][mshr[q].way]
        BY <2>5 DEF WayIsKnown
      <4>1. mshr[q].way \in Ways
        BY <2>5 DEF WayIsKnown
      <4>2. q[1] = c => mshr[q].way # w
        BY <1>13a, <1>22
      <4> QED BY <1>14, <2>5, <4>1, <4>2
    <3>4. \A v \in Ways : tags'[q[1]][v].tag = q[2] => tags[q[1]][v].tag = q[2]
      <4> SUFFICES ASSUME NEW v \in Ways, tags'[q[1]][v].tag = q[2]
                   PROVE  tags[q[1]][v].tag = q[2]
        OBVIOUS
      <4>1. q[1] = c => q[2] # l
        BY <1>5, <1>22, <2>5, Names
      <4>2. q[1] = c => v # w
        BY <1>13a, <1>14, <4>1
      <4> QED BY <1>14, <2>5, <4>2
    <3> QED BY <2>5, <3>1, <3>2, <3>3, <3>4, WayStaysKnown
  <2> QED BY <1>1, <1>18, <2>4, <2>5, <2>6, SameRequestIsSound
<1>23. \A q \in Request : WayIsKnown(q)' /\ RequestIsSound(q)'
  BY <1>20, <1>21, <1>22
<1>24. CInv'
  BY <1>19, <1>23 DEF CInv, ContainersAreOrderly
<1>25. RequestOf' = [RequestOf EXCEPT ![r].stage = "filled"]
  <2>1. RequestOf = [q \in Request |-> RequestOf[q]] /\ RequestOf' = [q \in Request |-> RequestOf'[q]]
    BY DEF RequestOf
  <2> QED BY <1>20, <1>22, <2>1
<1>26. PICK S \in SUBSET Lines : LineOf' = [Abstract!Without(r[1], S) EXCEPT ![r] = e.state]
  <2>1. e.tag = r[2] /\ r[1] = c /\ LineOf' = Entered(c, w, e)
    BY <1>5, <1>13a, <1>14
  <2> QED BY <2>1, LineComesIn
<1>27. e.state \in IF RequestOf[r].shared THEN {"SH_CL"} ELSE {"PR_CL", "PR_DY"}
  <2>1. CASE mshr[r].misscache = 0
    BY <1>8, <1>13a, <1>20, <2>1
  <2>2. CASE mshr[r].misscache # 0
    BY <1>8, <1>13a, <1>20, <2>2 DEF InstalledState
  <2> QED BY <2>1, <2>2
<1>28. Abstract!Install(r)
  BY <1>11, <1>20, <1>25, <1>26, <1>27 DEF Abstract!Install, Abstract!Private
<1> QED BY <1>24, <1>28

-----------------------------------------------------------------------------
(* The data pipe *)

\* A function on 1 .. n is a sequence.
LEMMA SequenceOf ==
  ASSUME NEW S, NEW n \in Nat, NEW o \in [1 .. n -> S]
  PROVE  o \in Seq(S) /\ Len(o) = n
OBVIOUS

\* The pipe without its head, or with another head.
LEMMA HeadIsReplaced ==
  ASSUME NEW p \in Seq(PipeItem), p # <<>>, SingleItems(p), FillItems(p), CopyItems(p),
         NEW i \in PipeItem, i.kind \notin {"REPLY", "C2C"}, Head(p).kind \in {"REPLY", "C2C"},
         NEW o, o \in {Tail(p), [p EXCEPT ![1] = i]}
  PROVE  /\ o \in Seq(PipeItem) /\ SingleItems(o) /\ FillItems(o) /\ CopyItems(o)
         /\ \A x \in PipeItem : x.kind \in {"REPLY", "C2C"}
              => (Among(x, o) <=> Among(x, p) /\ x # Head(p))
<1>1. CASE o = Tail(p)
  <2>1. /\ SingleItems(Tail(p)) /\ FillItems(Tail(p)) /\ CopyItems(Tail(p))
        /\ Tail(p) \in Seq(PipeItem)
        /\ \A x : Among(x, Tail(p)) => Among(x, p)
        /\ \A x : Among(x, p) /\ x # Head(p) => Among(x, Tail(p))
        /\ ~Among(Head(p), Tail(p))
    BY PipeShrinks
  <2>2. ASSUME NEW x PROVE Among(x, o) <=> Among(x, p) /\ x # Head(p)
    BY <1>1, <2>1
  <2> QED BY <1>1, <2>1, <2>2
<1>2. CASE o = [p EXCEPT ![1] = i]
  <2>1. Len(p) \in Nat /\ 1 \in 1 .. Len(p) /\ Head(p) = p[1] /\ p \in [1 .. Len(p) -> PipeItem]
    BY TailFacts
  <2>2. o \in [1 .. Len(p) -> PipeItem] /\ o[1] = i /\ \A n \in 1 .. Len(p) : n # 1 => o[n] = p[n]
    BY <1>2, <2>1
  <2>3. o \in Seq(PipeItem) /\ Len(o) = Len(p)
    <3> DEFINE n == Len(p)
    <3>1. n \in Nat /\ o \in [1 .. n -> PipeItem]
      BY <2>1, <2>2
    <3> HIDE DEF n
    <3>2. o \in Seq(PipeItem) /\ Len(o) = n
      BY <3>1, SequenceOf
    <3> QED BY <3>2 DEF n
  <2>4. SingleItems(o)
    <3>1. SUFFICES ASSUME NEW n \in 1 .. Len(o), NEW k \in 1 .. Len(o),
                          o[n].kind \in {"REPLY", "C2C"}, o[n] = o[k]
                   PROVE  n = k
      BY DEF SingleItems
    <3>2. n # 1 /\ k # 1
      BY <2>2, <3>1
    <3>3. o[n] = p[n] /\ o[k] = p[k] /\ n \in 1 .. Len(p) /\ k \in 1 .. Len(p)
      BY <2>2, <2>3, <3>2
    <3> QED BY <3>1, <3>3 DEF SingleItems
  <2>5. FillItems(o) /\ CopyItems(o)
    BY <2>2, <2>3 DEF FillItems, CopyItems
  <2>6. ASSUME NEW x \in PipeItem, x.kind \in {"REPLY", "C2C"}
        PROVE  Among(x, o) <=> Among(x, p) /\ x # Head(p)
    <3>1. Among(x, o) => Among(x, p) /\ x # Head(p)
      BY <2>1, <2>2, <2>3, <2>6 DEF Among, SingleItems
    <3>2. Among(x, p) /\ x # Head(p) => Among(x, o)
      BY <2>1, <2>2, <2>3 DEF Among
    <3> QED BY <3>1, <3>2
  <2> QED BY <2>3, <2>4, <2>5, <2>6
<1> QED BY <1>1, <1>2

\* A fill leaves the pipe.
LEMMA FillLeaves ==
  ASSUME Types, PipesAreOrderly, NEW r \in Request, NEW c \in CPUs, r[1] = c,
         dpipe[c] # <<>>, Head(dpipe[c]) = Fill(r), NEW i \in PipeItem, i.kind = "WB",
         dpipe' \in {[dpipe EXCEPT ![c] = Tail(@)], [dpipe EXCEPT ![c][1] = i]}
  PROVE  /\ dpipe' \in [CPUs -> Seq(PipeItem)] /\ PipesAreOrderly'
         /\ ~Leaving(r)'
         /\ \A q \in Request : q # r => (Leaving(q)' <=> Leaving(q))
         /\ \A q \in Request, d \in CPUs : InPipe(d, q)' <=> InPipe(d, q)
<1> DEFINE p == dpipe[c]
<1>1. PICK o : o \in {Tail(p), [p EXCEPT ![1] = i]} /\ dpipe' = [dpipe EXCEPT ![c] = o]
  OBVIOUS
<1>2. p \in Seq(PipeItem) /\ SingleItems(p) /\ FillItems(p) /\ CopyItems(p) /\ p # <<>>
  BY DEF Types, PipesAreOrderly
<1>3. \A q \in Request : /\ Copy(q) \in PipeItem /\ Fill(q) \in PipeItem
                         /\ Copy(q).kind = "C2C" /\ Fill(q).kind = "REPLY"
                         /\ Copy(q) # Fill(r) /\ (Fill(q) = Fill(r) => q[2] = r[2])
  <2>1. \A q \in Request : Copy(q).kind = "C2C" /\ Fill(q).kind = "REPLY"
    BY PipeKinds
  <2> QED BY <2>1, PipeKinds
<1> HIDE DEF p
<1>4. /\ o \in Seq(PipeItem) /\ SingleItems(o) /\ FillItems(o) /\ CopyItems(o)
      /\ \A x \in PipeItem : x.kind \in {"REPLY", "C2C"}
           => (Among(x, o) <=> Among(x, p) /\ x # Head(p))
  <2>1. Head(p).kind \in {"REPLY", "C2C"}
    BY <1>3 DEF p
  <2> QED BY <1>1, <1>2, <2>1, HeadIsReplaced
<1>5. dpipe' \in [CPUs -> Seq(PipeItem)] /\ dpipe'[c] = o /\ \A d \in CPUs : d # c => dpipe'[d] = dpipe[d]
  BY <1>1, <1>4 DEF Types
<1>6. PipesAreOrderly'
  BY <1>4, <1>5 DEF PipesAreOrderly
<1>7. ~Leaving(r)'
  BY <1>3, <1>4, <1>5 DEF Leaving, p
<1>8. ASSUME NEW q \in Request, q # r PROVE Leaving(q)' <=> Leaving(q)
  <2>1. q[1] \in CPUs /\ (q[1] = c => Fill(q) # Fill(r))
    BY <1>3, <1>8, Names
  <2> QED BY <1>3, <1>4, <1>5, <2>1 DEF Leaving, p
<1>9. \A q \in Request, d \in CPUs : InPipe(d, q)' <=> InPipe(d, q)
  BY <1>3, <1>4, <1>5 DEF InPipe, p
<1> QED BY <1>5, <1>6, <1>7, <1>8, <1>9

\* Once a request is done, nothing of it is under way on the bus.
LEMMA DoneIsQuiet ==
  ASSUME NEW r \in Request, Types, RequestIsSound(r), mshr[r].valid, mshr[r].phase = "done"
  PROVE  /\ ~OnItsWay(r) /\ mshr[r].memtrans # "reading" /\ ~Unanswered(r)
         /\ \A m \in Masters : ~Pending(m, r) /\ \A t \in TokensOf(r) : ~At(m, t)
         /\ \A c \in CPUs : ~Holds(c, r)
<1>1. \A c \in CPUs : ~Holds(c, r)
  BY DEF RequestIsSound, CopyGoesOnce
<1>2. \A m \in Masters : ~Pending(m, r) /\ ~At(m, REQ(r)) /\ ~At(m, REP(r))
  BY DEF RequestIsSound, RequestGoesOnce, ReplyGoesOnce
<1>3. \A m \in Masters : ~At(m, COPY(r))
  BY <1>1 DEF RequestIsSound, CopyGoesOnce, Holds
<1>4. ~OnItsWay(r)
  <2>1. \A m \in Masters : ~Runs(m, REQ(r))
    BY <1>2 DEF At
  <2> QED BY <2>1, OnTheWay DEF Types, OnItsWay, Runs, REQ
<1>5. ~Unanswered(r) /\ mshr[r].memtrans # "reading"
  BY DEF RequestIsSound, WritesAreExclusive, ReadIsOpen
<1> QED BY <1>1, <1>2, <1>3, <1>4, <1>5 DEF TokensOf

\* The MSHR is freed after its line has gone to L1.
LEMMA FreedIsSound ==
  ASSUME NEW r \in Request, Types, RequestIsSound(r), mshr[r].valid, mshr[r].phase = "done",
         mshr'[r] = FreeMSHR, SameTokens(r), SamePending(r), SameCopies(r),
         ~InReplyq(r)', ~Leaving(r)'
  PROVE  RequestIsSound(r)' /\ WayIsKnown(r)' /\ RequestOf'[r] = Abstract!Idle
<1>1. /\ \A m \in Masters : ~Pending(m, r) /\ \A t \in TokensOf(r) : ~At(m, t)
      /\ \A c \in CPUs : ~Holds(c, r)
  BY DoneIsQuiet
<1>2. /\ ~mshr'[r].valid /\ mshr'[r].memtrans = "none" /\ mshr'[r].cohe_type = "REPLY_EXCL"
  BY DEF FreeMSHR
<1>3. Stage(r)' = "idle"
  BY <1>2 DEF Stage
<1>4. \A m \in Masters : ~Pending(m, r)' /\ \A t \in TokensOf(r) : ~At(m, t)'
  BY <1>1 DEF SameTokens, SamePending, At
<1>5. \A c \in CPUs : ~Holds(c, r)'
  BY <1>1 DEF SameCopies, Holds
<1>6. /\ \A m \in Masters : ~At(m, REQ(r))' /\ ~At(m, REP(r))' /\ ~At(m, COPY(r))'
  BY <1>4, Tokens
<1>7. SentOnce(r)'
  BY <1>4 DEF SentOnce, At
<1>8. RequestGoesOnce(r)' /\ ReplyGoesOnce(r)'
  BY <1>4, <1>6 DEF RequestGoesOnce, ReplyGoesOnce
<1>9. CopyGoesOnce(r)'
  BY <1>5, <1>6 DEF CopyGoesOnce, Holds
<1>10. LineFillsOnce(r)'
  BY DEF LineFillsOnce
<1>11. WritesAreExclusive(r)' /\ WayIsKnown(r)'
  BY <1>2 DEF WritesAreExclusive, WayIsKnown
<1>12. CountIsExact(r)' /\ IssuedIsSeen(r)' /\ ReadIsOpen(r)'
  BY <1>2, <1>3 DEF CountIsExact, IssuedIsSeen, ReadIsOpen
<1>13. RequestIsSound(r)'
  BY <1>7, <1>8, <1>9, <1>10, <1>11, <1>12 DEF RequestIsSound
<1>14. RequestOf'[r] = Abstract!Idle
  BY <1>2, <1>3 DEF RequestOf, Abstract!Idle
<1> QED BY <1>11, <1>13, <1>14

\* A way is given up, or nothing happens to the tags.
GivesUp(c, w) ==
  \/ tags' = tags
  \/ \E e \in TagEntry : TagsTake(c, w, e) /\ e.tag = None /\ e.state = "INVALID"

\* A way loses its line, as far as the other caches can see.
LEMMA WayGivenUp ==
  ASSUME Types, TagsAreExact, NEW c \in CPUs, NEW w \in Ways, GivesUp(c, w)
  PROVE  /\ tags' \in [CPUs -> [Ways -> TagEntry]] /\ TagsAreExact'
         /\ \E S \in SUBSET Lines : LineOf' = Abstract!Without(c, S)
         /\ \A v \in Ways : v # w => tags'[c][v] = tags[c][v]
         /\ \A d \in CPUs : d # c => tags'[d] = tags[d]
         /\ \A d \in CPUs, v \in Ways, l \in Lines : tags'[d][v].tag = l => tags[d][v].tag = l
<1>0. Abstract!Request = Request
  BY DEF Abstract!Request, Request
<1>1. CASE tags' = tags
  <2>1. LineOf' = LineOf
    BY <1>1, SameTags
  <2>2. LineOf = Abstract!Without(c, {})
    BY <1>0 DEF Abstract!Without, LineOf
  <2> QED BY <1>1, <2>1, <2>2, SameTags DEF Types
<1>2. CASE \E e \in TagEntry : TagsTake(c, w, e) /\ e.tag = None /\ e.state = "INVALID"
  <2>1. PICK e \in TagEntry : TagsTake(c, w, e) /\ e.tag = None /\ e.state = "INVALID"
    BY <1>2
  <2>2. Enters(c, w, e)
    BY <2>1 DEF Enters, MayEnter
  <2>3. /\ tags' \in [CPUs -> [Ways -> TagEntry]] /\ TagsAreExact' /\ LineOf' = Entered(c, w, e)
        /\ tags'[c][w] = e /\ \A v \in Ways : v # w => tags'[c][v] = tags[c][v]
        /\ \A d \in CPUs : d # c => tags'[d] = tags[d]
    BY <2>2, TagsAfter
  <2> DEFINE S == {tags[c][w].tag} \cap Lines
  <2>4. LineOf' = Abstract!Without(c, S)
    <3>1. \A r \in Request : LineOf'[r] = IF r[1] = c /\ r[2] \in S THEN "INVALID" ELSE LineOf[r]
      <4>1. \A r \in Request : r[2] # None /\ r[2] \in Lines
        BY Names
      <4> QED BY <2>1, <2>3, <4>1 DEF Entered
    <3>2. LineOf' = [r \in Request |-> LineOf'[r]]
      BY DEF LineOf
    <3> QED BY <1>0, <3>1, <3>2 DEF Abstract!Without
  <2>5. S \in SUBSET Lines
    OBVIOUS
  <2> HIDE DEF S
  <2>6. \A d \in CPUs, v \in Ways, l \in Lines : tags'[d][v].tag = l => tags[d][v].tag = l
    <3>1. \A l \in Lines : l # None
      BY Names
    <3>2. \A d \in CPUs, v \in Ways : d # c \/ v # w => tags'[d][v] = tags[d][v]
      BY <2>3
    <3> QED BY <2>1, <2>3, <3>1, <3>2
  <2> QED BY <2>3, <2>4, <2>5, <2>6
<1> QED BY <1>1, <1>2 DEF GivesUp

\* L2ProcessDataReq, the MSHR is freed: Release.
LEMMA LineIsReleased ==
  ASSUME CInv, NEW c \in CPUs, DataReply(c), LockedWaysStay \/ OneMSHR
  PROVE  CInv' /\ \E r \in Request : Abstract!Release(r)
<1>1. Types /\ TagsAreExact /\ InterfacesAreOrderly /\ PipesAreOrderly /\ RepliesAreOrderly
  BY DEF CInv
<1>2. dpipe[c] # <<>> /\ dpipe[c] \in Seq(PipeItem) /\ Head(dpipe[c]).kind = "REPLY"
  BY <1>1 DEF DataReply, DataHead, Types
<1>3. Head(dpipe[c]) \in PipeItem /\ Head(dpipe[c]).to = None /\ Among(Head(dpipe[c]), dpipe[c])
  BY <1>1, <1>2, PipeShrinks DEF PipesAreOrderly
<1>4. PICK l \in Lines : l = Head(dpipe[c]).line
  BY <1>3 DEF PipeItem
<1>5. PICK r \in Request : r = <<c, l>> /\ r[1] = c /\ r[2] = l
  BY Names
<1>6. Head(dpipe[c]) = Fill(r)
  BY <1>2, <1>3, <1>4, <1>5 DEF Fill, DataItem, PipeItem
<1>7. Leaving(r)
  BY <1>3, <1>5, <1>6 DEF Leaving
<1>8. RequestIsSound(r) /\ WayIsKnown(r)
  BY DEF CInv
<1>9. mshr[r].valid /\ mshr[r].phase = "done" /\ ~InReplyq(r) /\ ~ToInstall(r)
  BY <1>7, <1>8 DEF RequestIsSound, LineFillsOnce, ToInstall, InReplyq
<1>10. PICK w \in Ways : w = mshr[r].way
  BY <1>8, <1>9 DEF WayIsKnown, ToFill
<1>11. ~OnItsWay(r) /\ ~Unanswered(r)
  BY <1>1, <1>8, <1>9, DoneIsQuiet
<1>12. Stage(r) = "filled"
  BY <1>9, <1>11 DEF Stage
<1>13. /\ UNCHANGED <<wbuf, reqq, coheq, replyq, dcp, mmcq, bus>>
       /\ mshr' = [mshr EXCEPT ![r] = FreeMSHR]
       /\ tags' = IF mshr[r].pend_opers # None /\ tags[c][w].state # "INVALID"
                  THEN [tags EXCEPT ![c][w].state = "INVALID", ![c][w].tag = None]
                  ELSE tags
  BY <1>4, <1>5, <1>10 DEF DataReply
<1>14. GivesUp(c, w)
  <2>1. CASE mshr[r].pend_opers # None /\ tags[c][w].state # "INVALID"
    <3>1. tags[c][w] \in TagEntry
      BY <1>1 DEF Types
    <3>2. PICK e \in TagEntry : /\ e = [[tags[c][w] EXCEPT !.state = "INVALID"] EXCEPT !.tag = None]
                                /\ e.tag = None /\ e.state = "INVALID"
      <4>1. [[tags[c][w] EXCEPT !.state = "INVALID"] EXCEPT !.tag = None] \in TagEntry
        BY <3>1 DEF TagEntry, LineState
      <4> QED BY <3>1, <4>1 DEF TagEntry
    <3>3. TagsTake(c, w, e)
      BY <1>1, <1>13, <2>1, <3>2 DEF Types, TagsTake
    <3> QED BY <3>2, <3>3 DEF GivesUp
  <2>2. CASE ~(mshr[r].pend_opers # None /\ tags[c][w].state # "INVALID")
    BY <1>13, <2>2 DEF GivesUp
  <2> QED BY <2>1, <2>2
<1>15. /\ tags' \in [CPUs -> [Ways -> TagEntry]] /\ TagsAreExact'
       /\ \E S \in SUBSET Lines : LineOf' = Abstract!Without(c, S)
       /\ \A v \in Ways : v # w => tags'[c][v] = tags[c][v]
       /\ \A d \in CPUs : d # c => tags'[d] = tags[d]
       /\ \A d \in CPUs, v \in Ways, k \in Lines : tags'[d][v].tag = k => tags[d][v].tag = k
  BY <1>1, <1>14, WayGivenUp
<1>16. \A d \in CPUs, v \in Ways : tags'[d][v].mshr_out = tags[d][v].mshr_out
  BY <1>1, <1>13 DEF Types, TagEntry
<1>17. /\ sif' \in [CPUs -> Interface] /\ InterfacesAreQuiet
       /\ \E i \in PipeItem : /\ i.kind = "WB"
            /\ dpipe' \in {[dpipe EXCEPT ![c] = Tail(@)], [dpipe EXCEPT ![c][1] = i]}
  <2> DEFINE dirty == mshr[r].pend_opers = "FLUSHC" /\ tags[c][w].state = "PR_DY"
             stuck == Len(sif[c].outbuffer) = OUT_BUFFER /\ sif[c].pending_writeback # None
             wb    == tags[c][w].tag
             a     == StartWriteback(sif[c], c, wb)
  <2>1. IF dirty /\ stuck
        THEN dpipe' = [dpipe EXCEPT ![c][1] = DataItem("WB", wb, None)] /\ UNCHANGED sif
        ELSE dpipe' = [dpipe EXCEPT ![c] = Tail(@)]
             /\ sif' = IF dirty THEN [sif EXCEPT ![c] = a] ELSE sif
    BY <1>4, <1>5, <1>10 DEF DataReply, PopData
  <2>2. dirty => wb \in Lines
    <3>1. tags[c][w] \in TagEntry
      BY <1>1 DEF Types
    <3> QED BY <1>1, <3>1 DEF TagEntry, TagsAreExact
  <2>3. ASSUME wb \in Lines PROVE DataItem("WB", wb, None) \in PipeItem
    BY <2>3 DEF DataItem, PipeItem
  <2>4. \E i \in PipeItem : i.kind = "WB"
    <3>1. DataItem("WB", l, None) \in PipeItem /\ DataItem("WB", l, None).kind = "WB"
      BY DEF DataItem, PipeItem
    <3> QED BY <3>1
  <2>5. sif' = sif \/ (wb \in Lines /\ sif' = [sif EXCEPT ![c] = a])
    BY <2>1, <2>2
  <2>6. sif' \in [CPUs -> Interface] /\ InterfacesAreQuiet
    <3>1. CASE sif' = sif
      BY <1>1, <1>13, <3>1, SameInterfaces DEF Types
    <3>2. CASE wb \in Lines /\ sif' = [sif EXCEPT ![c] = a]
      <4>1. sif[c] \in Interface /\ Once(sif[c])
        BY <1>1 DEF Types, InterfacesAreOrderly
      <4>2. /\ a \in Interface /\ Once(a) /\ a.cohe_reply = sif[c].cohe_reply
            /\ a.pending_request = sif[c].pending_request
            /\ \A x \in Items : x.type # "WRITEBACK" => (Has(a, x) <=> Has(sif[c], x))
        BY <3>2, <4>1, StartsWriteback
      <4> HIDE DEF a
      <4> QED BY <1>1, <1>13, <3>2, <4>2, QuietInterface DEF InterfacesAreQuiet
    <3> QED BY <2>5, <3>1, <3>2
  <2>7. \E i \in PipeItem : /\ i.kind = "WB"
            /\ dpipe' \in {[dpipe EXCEPT ![c] = Tail(@)], [dpipe EXCEPT ![c][1] = i]}
    <3>1. CASE dirty /\ stuck
      <4>1. DataItem("WB", wb, None) \in PipeItem /\ DataItem("WB", wb, None).kind = "WB"
        BY <2>2, <2>3, <3>1 DEF DataItem
      <4> QED BY <2>1, <3>1, <4>1
    <3>2. CASE ~(dirty /\ stuck)
      BY <2>1, <2>4, <3>2
    <3> QED BY <3>1, <3>2
  <2> QED BY <2>6, <2>7
<1>18. /\ dpipe' \in [CPUs -> Seq(PipeItem)] /\ PipesAreOrderly'
       /\ ~Leaving(r)'
       /\ \A q \in Request : q # r => (Leaving(q)' <=> Leaving(q))
       /\ \A q \in Request, d \in CPUs : InPipe(d, q)' <=> InPipe(d, q)
  BY <1>1, <1>2, <1>5, <1>6, <1>17, FillLeaves
<1>19. mshr' \in [Request -> MSHR] /\ mshr'[r] = FreeMSHR /\ \A q \in Request : q # r => mshr'[q] = mshr[q]
  <2>1. FreeMSHR \in MSHR
    BY DEF FreeMSHR, MSHR, Phase, ReplyType, RequestType, Op
  <2> QED BY <1>1, <1>13, <2>1 DEF Types
<1>20. Types'
  BY <1>1, <1>13, <1>15, <1>17, <1>18, <1>19 DEF Types
<1>21. ContainersAreOrderly'
  BY <1>1, <1>13, <1>15, <1>17, <1>18, <1>20 DEF ContainersAreOrderly, RepliesAreOrderly, InterfacesAreQuiet
<1>22. ASSUME NEW q \in Request
       PROVE  /\ SameTokens(q) /\ SamePending(q) /\ SameCopies(q) /\ SameSnoops(q)
              /\ (InReplyq(q)' <=> InReplyq(q)) /\ (ToInstall(q)' <=> ToInstall(q))
  <2>1. SameTokens(q) /\ SamePending(q)
    BY <1>13, <1>17, SameTransfers DEF SameTokens, InterfacesAreQuiet, BusIsQuiet
  <2>2. SameCopies(q)
    BY <1>13, <1>17, <1>18 DEF SameCopies, SetAside, InterfacesAreQuiet
  <2> QED BY <1>13, <2>1, <2>2 DEF SameSnoops, Snoops, InReplyq, ToInstall
<1>23. RequestIsSound(r)' /\ WayIsKnown(r)' /\ RequestOf'[r] = Abstract!Idle
  BY <1>1, <1>8, <1>9, <1>18, <1>19, <1>22, FreedIsSound
<1>24. ASSUME NEW q \in Request, q # r
       PROVE  WayIsKnown(q)' /\ RequestIsSound(q)' /\ RequestOf'[q] = RequestOf[q]
  <2>1. SameMSHR(q)
    BY <1>19, <1>24 DEF SameMSHR
  <2>2. SameRequest(q)
    BY <1>18, <1>22, <1>24, <2>1 DEF SameRequest, SameFill
  <2>3. WayIsKnown(q) /\ RequestIsSound(q) /\ q[1] \in CPUs /\ q[2] \in Lines
    BY Names DEF CInv
  <2>4. WayIsKnown(q)'
    <3>1. mshr'[q].valid = mshr[q].valid /\ mshr'[q].misscache = mshr[q].misscache /\ mshr'[q].way = mshr[q].way
          /\ mshr'[q].phase = mshr[q].phase
      BY <2>1 DEF SameMSHR
    <3>2. ToFill(q)' <=> ToFill(q)
      BY <3>1, <1>22 DEF ToFill
    <3>3. mshr[q].valid /\ ToFill(q) /\ mshr[q].misscache = 0
            => tags'[q[1]][mshr[q].way].tag = q[2] /\ tags'[q[1]][mshr[q].way].mshr_out
      <4> SUFFICES ASSUME mshr[q].valid, ToFill(q), mshr[q].misscache = 0
                   PROVE  tags'[q[1]][mshr[q].way].tag = q[2] /\ tags'[q[1]][mshr[q].way].mshr_out
        OBVIOUS
      <4>1. PICK v \in Ways : v = mshr[q].way
        BY <2>3 DEF WayIsKnown
      <4>2. tags[q[1]][v].tag = q[2] /\ tags[q[1]][v].mshr_out
        BY <2>3, <4>1 DEF WayIsKnown
      <4>3. CASE LockedWaysStay
        BY <1>16, <2>3, <4>1, <4>2, <4>3 DEF LockedWaysStay
      <4>4. CASE OneMSHR
        <5>1. q[1] # c
          BY <1>5, <1>9, <1>24, <4>4 DEF OneMSHR
        <5> QED BY <1>15, <2>3, <4>1, <4>2, <5>1
      <4> QED BY <4>3, <4>4
    <3>4. \A v \in Ways : tags'[q[1]][v].tag = q[2] => tags[q[1]][v].tag = q[2]
      BY <1>15, <2>3
    <3> QED BY <2>3, <3>1, <3>2, <3>3, <3>4, WayStaysKnown
  <2> QED BY <1>1, <1>20, <2>2, <2>3, <2>4, SameRequestIsSound
<1>25. CInv'
  <2>1. \A q \in Request : WayIsKnown(q)' /\ RequestIsSound(q)'
    BY <1>23, <1>24
  <2> QED BY <1>21, <2>1 DEF CInv, ContainersAreOrderly
<1>26. RequestOf' = [RequestOf EXCEPT ![r] = Abstract!Idle]
  <2>1. RequestOf = [q \in Request |-> RequestOf[q]] /\ RequestOf' = [q \in Request |-> RequestOf'[q]]
    BY DEF RequestOf
  <2> QED BY <1>23, <1>24, <2>1
<1>27. RequestOf[r].stage = "filled"
  BY <1>12 DEF RequestOf
<1>28. Abstract!Release(r)
  BY <1>5, <1>13, <1>15, <1>26, <1>27 DEF Abstract!Release
<1> QED BY <1>25, <1>28

-----------------------------------------------------------------------------
(* A copy on its way *)

\* A copy leaves the data pipe it was in.
LEMMA CopyLeavesPipe ==
  ASSUME Types, PipesAreOrderly, NEW c \in CPUs, NEW q \in Request, dpipe[c] # <<>>,
         Head(dpipe[c]) = Copy(q), dpipe' = [dpipe EXCEPT ![c] = Tail(@)]
  PROVE  /\ dpipe' \in [CPUs -> Seq(PipeItem)] /\ PipesAreOrderly'
         /\ InPipe(c, q) /\ ~InPipe(c, q)'
         /\ \A x \in Request, d \in CPUs : x # q \/ d # c => (InPipe(d, x)' <=> InPipe(d, x))
         /\ \A x \in Request : Leaving(x)' <=> Leaving(x)
<1>1. dpipe[c] \in Seq(PipeItem) /\ SingleItems(dpipe[c]) /\ FillItems(dpipe[c]) /\ CopyItems(dpipe[c])
  BY DEF Types, PipesAreOrderly
<1> DEFINE p == Tail(dpipe[c])
<1>2. /\ SingleItems(p) /\ FillItems(p) /\ CopyItems(p) /\ p \in Seq(PipeItem)
      /\ Among(Copy(q), dpipe[c])
      /\ \A x : Among(x, p) => Among(x, dpipe[c])
      /\ \A x : Among(x, dpipe[c]) /\ x # Copy(q) => Among(x, p)
      /\ Copy(q).kind = "C2C" => ~Among(Copy(q), p)
  BY <1>1, PipeShrinks
<1>3. dpipe' = [dpipe EXCEPT ![c] = p]
  OBVIOUS
<1> HIDE DEF p
<1>4. dpipe'[c] = p /\ \A d \in CPUs : d # c => dpipe'[d] = dpipe[d]
  BY <1>3 DEF Types
<1>5. dpipe' \in [CPUs -> Seq(PipeItem)]
  BY <1>2, <1>3 DEF Types
<1>6. PipesAreOrderly'
  BY <1>2, <1>4 DEF PipesAreOrderly
<1>7. InPipe(c, q) /\ ~InPipe(c, q)'
  BY <1>2, <1>4, PipeKinds DEF InPipe
<1>8. ASSUME NEW x \in Request, NEW d \in CPUs, x # q \/ d # c
      PROVE  InPipe(d, x)' <=> InPipe(d, x)
  <2>1. x # q => Copy(x) # Copy(q)
    BY PipeKinds
  <2> QED BY <1>2, <1>4, <1>8, <2>1 DEF InPipe
<1>9. ASSUME NEW x \in Request PROVE Leaving(x)' <=> Leaving(x)
  <2>1. Fill(x) # Copy(q) /\ x[1] \in CPUs
    <3>1. Fill(x).kind = "REPLY" /\ Copy(q).kind = "C2C"
      BY PipeKinds
    <3> QED BY <3>1, Names
  <2> QED BY <1>2, <1>4, <2>1 DEF Leaving
<1> QED BY <1>5, <1>6, <1>7, <1>8, <1>9

\* A copy enters a data pipe.
LEMMA CopyEntersPipe ==
  ASSUME Types, PipesAreOrderly, NEW c \in CPUs, NEW q \in Request, ~InPipe(c, q),
         dpipe' = [dpipe EXCEPT ![c] = Append(@, Copy(q))]
  PROVE  /\ dpipe' \in [CPUs -> Seq(PipeItem)] /\ PipesAreOrderly'
         /\ InPipe(c, q)'
         /\ \A x \in Request, d \in CPUs : x # q \/ d # c => (InPipe(d, x)' <=> InPipe(d, x))
         /\ \A x \in Request : Leaving(x)' <=> Leaving(x)
<1>1. dpipe[c] \in Seq(PipeItem) /\ SingleItems(dpipe[c]) /\ FillItems(dpipe[c]) /\ CopyItems(dpipe[c])
  BY DEF Types, PipesAreOrderly
<1>2. Copy(q) \in PipeItem /\ Copy(q).kind = "C2C" /\ Copy(q).to # None /\ Copy(q).kind # "REPLY"
  BY PipeKinds, Names
<1> DEFINE p == Append(dpipe[c], Copy(q))
<1>3. /\ SingleItems(p) /\ FillItems(p) /\ CopyItems(p) /\ p \in Seq(PipeItem)
      /\ \A x : Among(x, p) <=> Among(x, dpipe[c]) \/ x = Copy(q)
  BY <1>1, <1>2, PipeGrows DEF InPipe
<1>4. dpipe' = [dpipe EXCEPT ![c] = p]
  OBVIOUS
<1> HIDE DEF p
<1>5. dpipe'[c] = p /\ \A d \in CPUs : d # c => dpipe'[d] = dpipe[d]
  BY <1>4 DEF Types
<1>6. dpipe' \in [CPUs -> Seq(PipeItem)]
  BY <1>3, <1>4 DEF Types
<1>7. PipesAreOrderly'
  BY <1>3, <1>5 DEF PipesAreOrderly
<1>8. InPipe(c, q)'
  BY <1>3, <1>5 DEF InPipe
<1>9. ASSUME NEW x \in Request, NEW d \in CPUs, x # q \/ d # c
      PROVE  InPipe(d, x)' <=> InPipe(d, x)
  <2>1. x # q => Copy(x) # Copy(q)
    BY PipeKinds
  <2> QED BY <1>3, <1>5, <1>9, <2>1 DEF InPipe
<1>10. ASSUME NEW x \in Request PROVE Leaving(x)' <=> Leaving(x)
  <2>1. Fill(x) # Copy(q) /\ x[1] \in CPUs
    <3>1. Fill(x).kind = "REPLY" /\ Copy(q).kind = "C2C"
      BY PipeKinds
    <3> QED BY <3>1, Names
  <2> QED BY <1>3, <1>5, <2>1 DEF Leaving
<1> QED BY <1>6, <1>7, <1>8, <1>9, <1>10

\* A copy goes from the data pipe to the bus interface.
LEMMA CopyStarts ==
  ASSUME Types, InterfacesAreOrderly, NEW c \in CPUs, NEW q \in Request, ~Has(sif[c], COPY(q)),
         sif' = [sif EXCEPT ![c] = StartCoheReply(@, c, q)], mmcq' = mmcq
  PROVE  /\ sif' \in [CPUs -> Interface] /\ InterfacesAreOrderly'
         /\ sif'[c].cohe_reply = q /\ \A d \in CPUs : d # c => sif'[d].cohe_reply = sif[d].cohe_reply
         /\ \A x \in Request :
              /\ SamePending(x)
              /\ \A m \in Masters, t \in TokensOf(x) :
                   Waits(m, t)' <=> Waits(m, t) \/ (m = c /\ t = COPY(q))
<1> DEFINE a == StartCoheReply(sif[c], c, q)
<1>1. sif[c] \in Interface /\ Once(sif[c])
  BY DEF Types, InterfacesAreOrderly
<1>2. /\ a \in Interface /\ Once(a) /\ a.cohe_reply = q
      /\ a.pending_request = sif[c].pending_request
      /\ \A x \in Items : Has(a, x) <=> Has(sif[c], x) \/ x = COPY(q)
  BY <1>1, StartsCoheReply
<1>3. sif' = [sif EXCEPT ![c] = a]
  OBVIOUS
<1> HIDE DEF a
<1>4. sif' \in [CPUs -> Interface] /\ sif'[c] = a /\ \A d \in CPUs : d # c => sif'[d] = sif[d]
  BY <1>2, <1>3 DEF Types
<1>5. InterfacesAreOrderly'
  BY <1>2, <1>4 DEF InterfacesAreOrderly
<1>6. ASSUME NEW x \in Request
      PROVE  /\ SamePending(x)
             /\ \A m \in Masters, t \in TokensOf(x) :
                  Waits(m, t)' <=> Waits(m, t) \/ (m = c /\ t = COPY(q))
  <2>1. \A t \in TokensOf(x) : t \in Items
    BY Transactions DEF TokensOf
  <2>2. SamePending(x)
    BY <1>2, <1>4 DEF SamePending, Pending
  <2>3. c # MMC
    BY Names
  <2> QED BY <1>2, <1>4, <2>1, <2>2, <2>3 DEF Waits, Masters
<1> QED BY <1>2, <1>4, <1>5, <1>6

\* L2ProcessDataReq, a copy to another cache.
LEMMA QuietCopy ==
  ASSUME CInv, NEW c \in CPUs, DataCacheToCache(c)
  PROVE  CInv' /\ Stutters
<1>1. Types /\ TagsAreExact /\ InterfacesAreOrderly /\ PipesAreOrderly /\ RepliesAreOrderly
  BY DEF CInv
<1>2. dpipe[c] # <<>> /\ dpipe[c] \in Seq(PipeItem) /\ Head(dpipe[c]).kind = "C2C" /\ sif[c].cohe_reply = None
  BY <1>1 DEF DataCacheToCache, DataHead, Types
<1>3. Head(dpipe[c]) \in PipeItem /\ Head(dpipe[c]).to # None
  BY <1>1, <1>2, PipeShrinks DEF PipesAreOrderly
<1>4. PICK q \in Request : q = <<Head(dpipe[c]).to, Head(dpipe[c]).line>> /\ q[1] = Head(dpipe[c]).to
                           /\ q[2] = Head(dpipe[c]).line
  <2>1. Head(dpipe[c]).to \in CPUs /\ Head(dpipe[c]).line \in Lines
    BY <1>3 DEF PipeItem
  <2>2. PICK e \in CPUs, l \in Lines : e = Head(dpipe[c]).to /\ l = Head(dpipe[c]).line
    BY <2>1
  <2>3. PICK x \in Request : x = <<e, l>> /\ x[1] = e /\ x[2] = l
    BY Names
  <2> QED BY <2>2, <2>3
<1>5. Head(dpipe[c]) = Copy(q)
  BY <1>2, <1>3, <1>4 DEF Copy, DataItem, PipeItem
<1>6. /\ UNCHANGED <<wbuf, reqq, tags, mshr, coheq, replyq, dcp, mmcq, bus>>
      /\ sif' = [sif EXCEPT ![c] = StartCoheReply(@, c, q)]
      /\ dpipe' = [dpipe EXCEPT ![c] = Tail(@)]
  BY <1>4 DEF DataCacheToCache, PopData
<1>7. /\ dpipe' \in [CPUs -> Seq(PipeItem)] /\ PipesAreOrderly'
      /\ InPipe(c, q) /\ ~InPipe(c, q)'
      /\ \A x \in Request, d \in CPUs : x # q \/ d # c => (InPipe(d, x)' <=> InPipe(d, x))
      /\ \A x \in Request : Leaving(x)' <=> Leaving(x)
  BY <1>1, <1>2, <1>5, <1>6, CopyLeavesPipe
<1>8. RequestIsSound(q)
  BY DEF CInv
<1>9. /\ \A d \in CPUs : Holds(d, q) => d = c
      /\ ~SetAside(c, q) /\ ~AtTheBus(c, q)
      /\ mshr[q].valid /\ mshr[q].phase = "out" /\ mshr[q].c2c_copy /\ ~OnItsWay(q)
      /\ \A m \in Masters : ~At(m, COPY(q))
  <2>1. Holds(c, q)
    BY <1>7 DEF Holds
  <2>2. /\ \A d \in CPUs : Holds(d, q) => d = c
        /\ ~SetAside(c, q) /\ ~AtTheBus(c, q)
        /\ mshr[q].valid /\ mshr[q].phase = "out" /\ mshr[q].c2c_copy /\ ~OnItsWay(q)
    BY <1>7, <1>8, <2>1 DEF RequestIsSound, CopyGoesOnce
  <2>3. \A m \in Masters : ~At(m, COPY(q))
    BY <1>8, <2>2 DEF RequestIsSound, CopyGoesOnce, Holds
  <2> QED BY <2>2, <2>3
<1>10. ~Has(sif[c], COPY(q))
  <2>1. ~Waits(c, COPY(q)) /\ c # MMC
    BY <1>9, Names DEF At, Masters
  <2> QED BY <2>1 DEF Waits
<1>11. /\ sif' \in [CPUs -> Interface] /\ InterfacesAreOrderly'
       /\ sif'[c].cohe_reply = q /\ \A d \in CPUs : d # c => sif'[d].cohe_reply = sif[d].cohe_reply
       /\ \A x \in Request :
            /\ SamePending(x)
            /\ \A m \in Masters, t \in TokensOf(x) :
                 Waits(m, t)' <=> Waits(m, t) \/ (m = c /\ t = COPY(q))
  BY <1>1, <1>6, <1>10, CopyStarts
<1>12. Types'
  BY <1>1, <1>6, <1>7, <1>11 DEF Types
<1>13. ContainersAreOrderly'
  BY <1>1, <1>6, <1>7, <1>11, <1>12, SameTags DEF ContainersAreOrderly, RepliesAreOrderly
<1>14. \A x \in Request : SameMSHR(x)
  BY <1>6, SameMSHRs
<1>15. \A x \in Request : SameFill(x) /\ SameSnoops(x)
  BY <1>6, <1>7 DEF SameFill, SameSnoops, InReplyq, ToInstall, Snoops
<1>16. BusIsQuiet
  BY <1>6, SameTransfers
<1>17. ASSUME NEW x \in Request PROVE WayIsKnown(x)'
  <2>1. WayIsKnown(x) /\ SameWays(x[1])
    BY <1>6, Names, SameTags DEF CInv
  <2> QED BY <1>1, <1>14, <1>15, <2>1, SameWaysAreKnown
<1>18. ASSUME NEW x \in Request, x # q PROVE RequestIsSound(x)' /\ RequestOf'[x] = RequestOf[x]
  <2>1. \A t \in TokensOf(x) : t # COPY(q)
    BY <1>18, Transactions DEF TokensOf
  <2>2. SameTokens(x) /\ SamePending(x)
    BY <1>11, <1>16, <2>1 DEF SameTokens, BusIsQuiet
  <2>3. SameCopies(x)
    <3>1. x # None
      BY Names
    <3>2. \A d \in CPUs : AtTheBus(d, x)' <=> AtTheBus(d, x)
      BY <1>2, <1>11, <1>18, <3>1 DEF AtTheBus
    <3> QED BY <1>6, <1>7, <1>18, <3>2 DEF SameCopies, SetAside
  <2>4. SameRequest(x) /\ RequestIsSound(x)
    BY <1>14, <1>15, <2>2, <2>3 DEF SameRequest, CInv
  <2> QED BY <1>1, <1>12, <2>4, SameRequestIsSound
<1>19. RequestIsSound(q)' /\ RequestOf'[q] = RequestOf[q]
  <2>1. \A m \in Masters, t \in TokensOf(q) : t # COPY(q) \/ m # c => (Waits(m, t)' <=> Waits(m, t))
    BY <1>11
  <2>2. \A m \in Masters, t \in TokensOf(q) : (Won(m, t)' <=> Won(m, t)) /\ (Runs(m, t)' <=> Runs(m, t))
    BY <1>16 DEF BusIsQuiet
  <2>3. \A m \in Masters : ~Won(m, COPY(q)) /\ ~Runs(m, COPY(q))
    BY <1>9 DEF At
  <2>4. SentOnce(q)'
    BY <1>8, <2>1, <2>2, <2>3 DEF RequestIsSound, SentOnce
  <2>5. REQ(q) # COPY(q) /\ REP(q) # COPY(q)
    <3>1. REQ(q).type = "REQUEST" /\ REP(q).type = "REPLY" /\ COPY(q).type = "COHE_REPLY"
      BY Transactions
    <3> QED BY <3>1
  <2>6. \A m \in Masters : /\ At(m, REQ(q))' <=> At(m, REQ(q))
                           /\ At(m, REP(q))' <=> At(m, REP(q))
                           /\ Runs(m, REQ(q))' <=> Runs(m, REQ(q))
    BY <2>1, <2>2, <2>5, Tokens DEF At
  <2>7. RequestGoesOnce(q)' /\ ReplyGoesOnce(q)'
    BY <1>6, <1>8, <1>11, <2>6 DEF RequestIsSound, RequestGoesOnce, ReplyGoesOnce, SamePending
  <2>8. LineFillsOnce(q)'
    BY <1>6, <1>8, <1>15 DEF RequestIsSound, LineFillsOnce, SameFill
  <2>9. (OnItsWay(q)' <=> OnItsWay(q)) /\ (ToInstall(q)' <=> ToInstall(q))
    BY <1>6, <1>15 DEF OnItsWay, SameFill
  <2>10. \A d \in CPUs : /\ AtTheBus(d, q)' <=> d = c
                         /\ ~InPipe(d, q)' /\ ~SetAside(d, q)'
    <3>1. \A d \in CPUs : d # c => ~InPipe(d, q) /\ ~SetAside(d, q) /\ ~AtTheBus(d, q)
      BY <1>9 DEF Holds
    <3> QED BY <1>6, <1>7, <1>9, <1>11, <3>1 DEF AtTheBus, SetAside
  <2>11. CopyGoesOnce(q)'
    <3>1. \A m \in Masters : At(m, COPY(q))' => m = c
      BY <1>9, <1>11, <2>2, Tokens DEF At
    <3> QED BY <1>6, <1>9, <2>9, <2>10, <3>1 DEF CopyGoesOnce, Holds
  <2> QED BY <1>1, <1>8, <1>12, <1>14, <1>15, <2>4, <2>7, <2>8, <2>9, <2>11, MovedRequestIsSound
<1>20. \A x \in Request : WayIsKnown(x)' /\ RequestIsSound(x)' /\ RequestOf'[x] = RequestOf[x]
  BY <1>17, <1>18, <1>19
<1> QED BY <1>6, <1>13, <1>20, AllSound, SameTags DEF Stutters

\* L2CacheInSim: the copy set aside enters the data pipe.
LEMMA QuietRetryCopy ==
  ASSUME CInv, NEW c \in CPUs, RetryDataCohePending(c)
  PROVE  CInv' /\ Stutters
<1>1. Types /\ TagsAreExact /\ InterfacesAreOrderly /\ PipesAreOrderly /\ RepliesAreOrderly
  BY DEF CInv
<1>2. PICK q \in Request : q = dcp[c]
  BY <1>1 DEF RetryDataCohePending, Types
<1>3. DataItem("C2C", dcp[c][2], dcp[c][1]) = Copy(q)
  BY <1>2 DEF Copy
<1>4. /\ UNCHANGED <<wbuf, reqq, tags, mshr, coheq, replyq, sif, mmcq, bus>>
      /\ dpipe' = [dpipe EXCEPT ![c] = Append(@, Copy(q))]
      /\ dcp' = [dcp EXCEPT ![c] = None]
  BY <1>3 DEF RetryDataCohePending
<1>5. RequestIsSound(q) /\ SetAside(c, q)
  BY <1>2 DEF CInv, SetAside
<1>6. /\ ~InPipe(c, q) /\ ~AtTheBus(c, q) /\ \A d \in CPUs : Holds(d, q) => d = c
      /\ mshr[q].valid /\ mshr[q].phase = "out" /\ mshr[q].c2c_copy /\ ~OnItsWay(q)
  BY <1>5 DEF RequestIsSound, CopyGoesOnce, Holds
<1>7. /\ dpipe' \in [CPUs -> Seq(PipeItem)] /\ PipesAreOrderly'
      /\ InPipe(c, q)'
      /\ \A x \in Request, d \in CPUs : x # q \/ d # c => (InPipe(d, x)' <=> InPipe(d, x))
      /\ \A x \in Request : Leaving(x)' <=> Leaving(x)
  BY <1>1, <1>4, <1>6, CopyEntersPipe
<1>8. /\ dcp' \in [CPUs -> Request \cup {None}] /\ dcp'[c] = None
      /\ \A d \in CPUs : d # c => dcp'[d] = dcp[d]
  BY <1>1, <1>4 DEF Types
<1>9. Types'
  BY <1>1, <1>4, <1>7, <1>8 DEF Types
<1>10. ContainersAreOrderly'
  BY <1>1, <1>4, <1>7, <1>9, SameTags DEF ContainersAreOrderly, RepliesAreOrderly, InterfacesAreOrderly
<1>11. \A x \in Request : SameMSHR(x)
  BY <1>4, SameMSHRs
<1>12. \A x \in Request : SameFill(x) /\ SameSnoops(x)
  BY <1>4, <1>7 DEF SameFill, SameSnoops, InReplyq, ToInstall, Snoops
<1>13. \A x \in Request : SameTokens(x) /\ SamePending(x) /\ \A d \in CPUs : AtTheBus(d, x)' <=> AtTheBus(d, x)
  BY <1>4, SameBus
<1>14. ASSUME NEW x \in Request PROVE WayIsKnown(x)'
  <2>1. WayIsKnown(x) /\ SameWays(x[1])
    BY <1>4, Names, SameTags DEF CInv
  <2> QED BY <1>1, <1>11, <1>12, <2>1, SameWaysAreKnown
<1>15. ASSUME NEW x \in Request, x # q PROVE RequestIsSound(x)' /\ RequestOf'[x] = RequestOf[x]
  <2>1. x # None
    BY Names
  <2>2. SameCopies(x)
    BY <1>7, <1>8, <1>13, <1>15, <2>1 DEF SameCopies, SetAside
  <2>3. SameRequest(x) /\ RequestIsSound(x)
    BY <1>11, <1>12, <1>13, <2>2 DEF SameRequest, CInv
  <2> QED BY <1>1, <1>9, <2>3, SameRequestIsSound
<1>16. RequestIsSound(q)' /\ RequestOf'[q] = RequestOf[q]
  <2>1. mshr'[q].valid = mshr[q].valid /\ mshr'[q].phase = mshr[q].phase
    BY <1>4
  <2>2. SentOnce(q)' /\ RequestGoesOnce(q)' /\ ReplyGoesOnce(q)'
    BY <1>5, <1>13, <2>1, TokensStay
  <2>3. LineFillsOnce(q)'
    BY <1>4, <1>5, <1>12 DEF RequestIsSound, LineFillsOnce, SameFill
  <2>4. (OnItsWay(q)' <=> OnItsWay(q)) /\ (ToInstall(q)' <=> ToInstall(q))
    BY <1>4, <1>12 DEF OnItsWay, SameFill
  <2>5. \A d \in CPUs : ~SetAside(d, q)' /\ ~AtTheBus(d, q)' /\ (d # c => ~InPipe(d, q)')
    <3>1. \A d \in CPUs : d # c => ~InPipe(d, q) /\ ~SetAside(d, q) /\ ~AtTheBus(d, q)
      BY <1>6 DEF Holds
    <3>2. q # None
      BY Names
    <3> QED BY <1>6, <1>7, <1>8, <1>13, <3>1, <3>2 DEF SetAside
  <2>6. \A m \in Masters : ~At(m, COPY(q))
    <3>1. \A d \in CPUs : ~AtTheBus(d, q)
      BY <1>6 DEF Holds
    <3> QED BY <1>5, <3>1 DEF RequestIsSound, CopyGoesOnce
  <2>7. \A m \in Masters : ~At(m, COPY(q))'
    BY <1>13, <2>6, Tokens DEF SameTokens, At
  <2>8. CopyGoesOnce(q)'
    BY <1>4, <1>6, <2>4, <2>5, <2>7 DEF CopyGoesOnce, Holds
  <2> QED BY <1>1, <1>5, <1>9, <1>11, <1>12, <2>2, <2>3, <2>4, <2>8, MovedRequestIsSound
<1>17. \A x \in Request : WayIsKnown(x)' /\ RequestIsSound(x)' /\ RequestOf'[x] = RequestOf[x]
  BY <1>14, <1>15, <1>16
<1> QED BY <1>4, <1>10, <1>17, AllSound, SameTags DEF Stutters
==============================================================================
