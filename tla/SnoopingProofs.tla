--------------------------- MODULE SnoopingProofs ---------------------------
(***************************************************************************)
(* What the snooping caches promise holds for any number of caches and     *)
(* lines.                                                                  *)
(*                                                                         *)
(* OneOwner is far from inductive: whether a cache may install a line      *)
(* depends on who has answered its request, and on who still has to answer *)
(* an earlier one.  The invariant says so in four steps:                   *)
(*   - the queues hold the requests in bus order, and a cache that let its *)
(*     own request pass has not answered a later one (Queued, Aligned,     *)
(*     LaterOnesWait);                                                     *)
(*   - so of two requests for one line, one is still in the queue of the   *)
(*     other's owner (OneWaits), and only the first can be complete;       *)
(*   - a cache that has answered has given the line up (AnsweredGivesUp);  *)
(*   - while the data of a dirty line are on their way to a request, nobody *)
(*     has the line private and every other request for it comes later     *)
(*     (CopyIsAlone, CopyIsNext), so the data are sent once.               *)
(***************************************************************************)
EXTENDS Snooping, TLAPS

Behind(q, x, y) == \E j, k \in 1 .. Len(q) : j < k /\ q[j] = x /\ q[k] = y
Distinct(q)     == \A j, k \in 1 .. Len(q) : q[j] = q[k] => j = k

-----------------------------------------------------------------------------
(* Queues *)

\* A request that enters a queue enters behind everything there.
LEMMA InAppend ==
  ASSUME NEW S, NEW q \in Seq(S), NEW r \in S, NEW x
  PROVE  In(x, Append(q, r)) <=> In(x, q) \/ x = r
<1>1. Len(Append(q, r)) = Len(q) + 1 /\ Len(q) \in Nat /\ Append(q, r)[Len(q) + 1] = r
  OBVIOUS
<1>2. \A n \in 1 .. Len(q) : Append(q, r)[n] = q[n]
  OBVIOUS
<1>3. 1 .. (Len(q) + 1) = (1 .. Len(q)) \cup {Len(q) + 1}
  BY <1>1
<1> QED BY <1>1, <1>2, <1>3 DEF In

LEMMA BehindAppend ==
  ASSUME NEW S, NEW q \in Seq(S), NEW r \in S, NEW x, NEW y
  PROVE  Behind(Append(q, r), x, y) <=> Behind(q, x, y) \/ (In(x, q) /\ y = r)
<1>1. Len(Append(q, r)) = Len(q) + 1 /\ Len(q) \in Nat /\ Append(q, r)[Len(q) + 1] = r
  OBVIOUS
<1>2. \A n \in 1 .. Len(q) : Append(q, r)[n] = q[n]
  OBVIOUS
<1>3. 1 .. (Len(q) + 1) = (1 .. Len(q)) \cup {Len(q) + 1}
  BY <1>1
<1>4. ASSUME Behind(Append(q, r), x, y) PROVE Behind(q, x, y) \/ (In(x, q) /\ y = r)
  <2>1. PICK j, k \in 1 .. (Len(q) + 1) : j < k /\ Append(q, r)[j] = x /\ Append(q, r)[k] = y
    BY <1>4, <1>1 DEF Behind
  <2>2. j \in 1 .. Len(q)
    BY <2>1, <1>1
  <2>3. CASE k = Len(q) + 1
    BY <2>1, <2>2, <2>3, <1>1, <1>2 DEF In
  <2>4. CASE k \in 1 .. Len(q)
    BY <2>1, <2>2, <2>4, <1>2 DEF Behind
  <2> QED BY <2>3, <2>4, <1>3
<1>5. ASSUME Behind(q, x, y) PROVE Behind(Append(q, r), x, y)
  BY <1>5, <1>1, <1>2, <1>3 DEF Behind
<1>6. ASSUME In(x, q), y = r PROVE Behind(Append(q, r), x, y)
  <2>1. PICK j \in 1 .. Len(q) : q[j] = x
    BY <1>6 DEF In
  <2>2. j < Len(q) + 1 /\ j \in 1 .. (Len(q) + 1) /\ Len(q) + 1 \in 1 .. (Len(q) + 1)
    BY <1>1
  <2>3. Append(q, r)[j] = x
    BY <1>2, <2>1
  <2> QED BY <2>2, <2>3, <1>1, <1>6 DEF Behind
<1> QED BY <1>4, <1>5, <1>6

LEMMA DistinctAppend ==
  ASSUME NEW S, NEW q \in Seq(S), NEW r \in S, Distinct(q), ~In(r, q)
  PROVE  Distinct(Append(q, r))
<1>1. Len(Append(q, r)) = Len(q) + 1 /\ Len(q) \in Nat /\ Append(q, r)[Len(q) + 1] = r
  OBVIOUS
<1>2. \A n \in 1 .. Len(q) : Append(q, r)[n] = q[n] /\ q[n] # r
  BY DEF In
<1>3. 1 .. (Len(q) + 1) = (1 .. Len(q)) \cup {Len(q) + 1}
  BY <1>1
<1> QED BY <1>1, <1>2, <1>3 DEF Distinct

\* The head of a queue is before everything else, and is what taking the tail
\* removes.
LEMMA TailFacts ==
  ASSUME NEW S, NEW q \in Seq(S), q # <<>>
  PROVE  /\ Len(q) \in Nat \ {0} /\ Len(Tail(q)) = Len(q) - 1 /\ Tail(q) \in Seq(S)
         /\ \A n \in 1 .. Len(Tail(q)) : Tail(q)[n] = q[n + 1] /\ n + 1 \in 1 .. Len(q)
         /\ \A n \in 1 .. Len(q) : n # 1 => n - 1 \in 1 .. Len(Tail(q)) /\ Tail(q)[n - 1] = q[n]
         /\ Head(q) = q[1] /\ Head(q) \in S
<1>1. Len(q) \in Nat /\ Len(q) # 0 /\ Tail(q) \in Seq(S) /\ Len(Tail(q)) = Len(q) - 1
  OBVIOUS
<1>2. \A n \in 1 .. Len(Tail(q)) : Tail(q)[n] = q[n + 1]
  OBVIOUS
<1>3. \A n \in 1 .. Len(Tail(q)) : n + 1 \in 1 .. Len(q)
  BY <1>1
<1>4. \A n \in 1 .. Len(q) : n # 1 => n - 1 \in 1 .. Len(Tail(q)) /\ (n - 1) + 1 = n
  BY <1>1
<1>5. Head(q) = q[1] /\ Head(q) \in S
  OBVIOUS
<1> QED BY <1>1, <1>2, <1>3, <1>4, <1>5

LEMMA QueueHead ==
  ASSUME NEW S, NEW q \in Seq(S), q # <<>>, Distinct(q)
  PROVE  /\ In(Head(q), q)
         /\ \A x : In(x, q) /\ x # Head(q) => Behind(q, Head(q), x)
         /\ \A x : ~Behind(q, x, Head(q))
<1>1. Len(q) \in Nat \ {0} /\ Head(q) = q[1] /\ 1 \in 1 .. Len(q)
  BY TailFacts
<1>2. \A n \in 1 .. Len(q) : n # 1 => 1 < n
  BY <1>1
<1>3. \A j, k \in 1 .. Len(q) : j < k => k # 1
  BY <1>1
<1> QED BY <1>1, <1>2, <1>3 DEF In, Behind, Distinct

\* A queue without repetitions loses just its head.
LEMMA InTail ==
  ASSUME NEW S, NEW q \in Seq(S), q # <<>>, Distinct(q), NEW x
  PROVE  In(x, Tail(q)) <=> In(x, q) /\ x # Head(q)
<1>1. Len(q) \in Nat \ {0} /\ 1 \in 1 .. Len(q)
  BY TailFacts
<1>2. ASSUME In(x, Tail(q)) PROVE In(x, q) /\ x # Head(q)
  <2>1. PICK n \in 1 .. Len(Tail(q)) : Tail(q)[n] = x
    BY <1>2 DEF In
  <2>2. q[n + 1] = x /\ n + 1 \in 1 .. Len(q) /\ Head(q) = q[1]
    BY <2>1, TailFacts
  <2>3. n + 1 # 1
    BY <2>1
  <2> QED BY <2>2, <2>3, <1>1 DEF In, Distinct
<1>3. ASSUME In(x, q), x # Head(q) PROVE In(x, Tail(q))
  <2>1. PICK n \in 1 .. Len(q) : q[n] = x
    BY <1>3 DEF In
  <2>2. n # 1
    BY <2>1, <1>3, TailFacts
  <2> QED BY <2>1, <2>2, TailFacts DEF In
<1> QED BY <1>2, <1>3

LEMMA BehindIn ==
  ASSUME NEW S, NEW q \in Seq(S), Distinct(q), NEW x, NEW y, Behind(q, x, y)
  PROVE  In(x, q) /\ In(y, q) /\ x # y
BY DEF Behind, In, Distinct

LEMMA BehindTail ==
  ASSUME NEW S, NEW q \in Seq(S), q # <<>>, Distinct(q), NEW x, NEW y
  PROVE  Behind(Tail(q), x, y) <=> Behind(q, x, y) /\ x # Head(q)
<1>1. Len(q) \in Nat \ {0} /\ 1 \in 1 .. Len(q)
  BY TailFacts
<1>2. ASSUME Behind(Tail(q), x, y) PROVE Behind(q, x, y) /\ x # Head(q)
  <2>1. PICK j, k \in 1 .. Len(Tail(q)) : j < k /\ Tail(q)[j] = x /\ Tail(q)[k] = y
    BY <1>2 DEF Behind
  <2>2. q[j + 1] = x /\ j + 1 \in 1 .. Len(q) /\ q[k + 1] = y /\ k + 1 \in 1 .. Len(q)
        /\ Head(q) = q[1]
    BY <2>1, TailFacts
  <2>3. j + 1 # 1 /\ j + 1 < k + 1
    BY <2>1
  <2> QED BY <2>2, <2>3, <1>1 DEF Behind, Distinct
<1>3. ASSUME Behind(q, x, y), x # Head(q) PROVE Behind(Tail(q), x, y)
  <2>1. PICK j, k \in 1 .. Len(q) : j < k /\ q[j] = x /\ q[k] = y
    BY <1>3 DEF Behind
  <2>2. j # 1 /\ k # 1
    BY <2>1, <1>3, TailFacts
  <2>3. j - 1 < k - 1
    BY <2>1
  <2> QED BY <2>1, <2>2, <2>3, TailFacts DEF Behind
<1> QED BY <1>2, <1>3

LEMMA DistinctTail ==
  ASSUME NEW S, NEW q \in Seq(S), q # <<>>, Distinct(q)
  PROVE  Distinct(Tail(q))
<1>1. SUFFICES ASSUME NEW j \in 1 .. Len(Tail(q)), NEW k \in 1 .. Len(Tail(q)),
                      Tail(q)[j] = Tail(q)[k]
               PROVE  j = k
  BY DEF Distinct
<1>3. q[j + 1] = q[k + 1] /\ j + 1 \in 1 .. Len(q) /\ k + 1 \in 1 .. Len(q)
  BY <1>1, TailFacts
<1>4. j + 1 = k + 1
  BY <1>3 DEF Distinct
<1> QED BY <1>4

-----------------------------------------------------------------------------
(* The invariant *)

Rivals(r, q) == r[1] # q[1] /\ r[2] = q[2]

\* Every variable holds what it may hold; only a request that is still being
\* answered is marked as copied.
TypeOK ==
  /\ line \in [Request -> LineState]
  /\ queue \in [CPUs -> Seq(Request)]
  /\ req \in [Request -> [stage : {"idle", "ordered", "answered", "filled"},
                        exclusive : BOOLEAN, shared : BOOLEAN, copied : BOOLEAN]]
  /\ \A r \in Request : req[r].copied => req[r].stage = "ordered"

\* A request waits in queues while it is being answered, once in each.
Queued ==
  \A c \in CPUs : /\ Distinct(queue[c])
                  /\ \A r \in Request : In(r, queue[c]) => req[r].stage = "ordered"

\* Every queue holds the requests in bus order, up to the same newest one.
Aligned ==
  \A c, d \in CPUs, r, q \in Request :
    Behind(queue[c], r, q) /\ In(r, queue[d]) => Behind(queue[d], r, q)

\* A cache that has seen its own request of a line pass has yet to answer every
\* later request for that line.
LaterOnesWait ==
  \A r, q \in Request, c \in CPUs :
    Active(r) /\ ~In(r, queue[r[1]]) /\ r[2] = q[2] /\ Behind(queue[c], r, q)
      => In(q, queue[r[1]])

\* Of two requests for one line, the owner of one has yet to answer the other.
OneWaits ==
  \A r, q \in Request :
    Rivals(r, q) /\ Active(r) /\ Active(q) => In(r, queue[q[1]]) \/ In(q, queue[r[1]])

\* A cache that has answered a request has no line, or one it shares.
AnsweredGivesUp ==
  \A r, q \in Request :
    Rivals(r, q) /\ Active(r) /\ ~In(r, queue[q[1]])
      => line[q] = "INVALID" \/ (line[q] = "SH_CL" /\ req[r].shared)

\* While the data of a dirty line are on their way, nobody has it private...
CopyIsAlone ==
  \A r, q \in Request : Rivals(r, q) /\ req[r].copied => line[q] \notin Private

\* ... and the requests for it come after the one the data are for.
CopyIsNext ==
  \A r, q \in Request :
    Rivals(r, q) /\ req[r].copied /\ Active(q)
      => /\ In(q, queue[r[1]])
         /\ In(r, queue[r[1]]) => Behind(queue[r[1]], r, q)

IInv == /\ TypeOK /\ Queued /\ Aligned /\ LaterOnesWait /\ OneWaits
        /\ AnsweredGivesUp /\ CopyIsAlone /\ CopyIsNext /\ OneOwner

-----------------------------------------------------------------------------
(* Requests and queues *)

LEMMA Requests ==
  \A c \in CPUs, l \in Lines : <<c, l>> \in Request /\ <<c, l>>[1] = c /\ <<c, l>>[2] = l
BY DEF Request

LEMMA Components ==
  \A r \in Request : r[1] \in CPUs /\ r[2] \in Lines /\ r = <<r[1], r[2]>>
BY DEF Request

\* What a step that takes the head of one queue does to all of them.
Popped(c) ==
  /\ queue' \in [CPUs -> Seq(Request)]
  /\ \A d \in CPUs : Distinct(queue'[d])
  /\ Head(queue[c]) \in Request
  /\ In(Head(queue[c]), queue[c])
  /\ ~In(Head(queue[c]), queue'[c])
  /\ \A x : In(x, queue[c]) /\ x # Head(queue[c]) => Behind(queue[c], Head(queue[c]), x)
  /\ \A x : ~Behind(queue[c], x, Head(queue[c]))
  /\ \A d \in CPUs : \A x :
       In(x, queue'[d]) <=> In(x, queue[d]) /\ (d = c => x # Head(queue[c]))
  /\ \A d \in CPUs : \A x, y :
       Behind(queue'[d], x, y) <=> Behind(queue[d], x, y) /\ (d = c => x # Head(queue[c]))
  /\ \A d \in CPUs : \A x, y : Behind(queue[d], x, y) => In(x, queue[d]) /\ In(y, queue[d]) /\ x # y

LEMMA PopQueue ==
  ASSUME TypeOK, Queued, NEW c \in CPUs, queue[c] # <<>>,
         queue' = [queue EXCEPT ![c] = Tail(@)]
  PROVE  Popped(c)
<1>1. queue[c] \in Seq(Request) /\ Distinct(queue[c])
  BY DEF TypeOK, Queued
<1>2. queue'[c] = Tail(queue[c]) /\ \A d \in CPUs : d # c => queue'[d] = queue[d]
  BY DEF TypeOK
<1>3. Tail(queue[c]) \in Seq(Request) /\ Distinct(Tail(queue[c])) /\ Head(queue[c]) \in Request
  BY <1>1, TailFacts, DistinctTail
<1>4. \A d \in CPUs : Distinct(queue'[d])
  BY <1>2, <1>3 DEF Queued
<1>5. \A d \in CPUs : \A x : In(x, queue'[d]) <=> In(x, queue[d]) /\ (d = c => x # Head(queue[c]))
  BY <1>1, <1>2, InTail
<1>6. \A d \in CPUs : \A x, y :
        Behind(queue'[d], x, y) <=> Behind(queue[d], x, y) /\ (d = c => x # Head(queue[c]))
  BY <1>1, <1>2, BehindTail
<1>7. \A d \in CPUs : \A x, y : Behind(queue[d], x, y) => In(x, queue[d]) /\ In(y, queue[d]) /\ x # y
  <2>1. \A d \in CPUs : queue[d] \in Seq(Request) /\ Distinct(queue[d])
    BY DEF TypeOK, Queued
  <2> QED BY <2>1, BehindIn
<1>8. queue' \in [CPUs -> Seq(Request)]
  BY <1>3 DEF TypeOK
<1>9. /\ In(Head(queue[c]), queue[c])
      /\ \A x : In(x, queue[c]) /\ x # Head(queue[c]) => Behind(queue[c], Head(queue[c]), x)
      /\ \A x : ~Behind(queue[c], x, Head(queue[c]))
  BY <1>1, QueueHead
<1> QED BY <1>3, <1>4, <1>5, <1>6, <1>7, <1>8, <1>9 DEF Popped

\* What a request does to the queues when it gets the bus.
Pushed(r) ==
  /\ queue' \in [CPUs -> Seq(Request)]
  /\ \A d \in CPUs : Distinct(queue'[d]) /\ ~In(r, queue[d])
  /\ \A d \in CPUs : \A x : In(x, queue'[d]) <=> In(x, queue[d]) \/ x = r
  /\ \A d \in CPUs : \A x, y :
       Behind(queue'[d], x, y) <=> Behind(queue[d], x, y) \/ (In(x, queue[d]) /\ y = r)
  /\ \A d \in CPUs : \A x, y : Behind(queue[d], x, y) => In(x, queue[d]) /\ In(y, queue[d]) /\ x # y

LEMMA PushQueues ==
  ASSUME TypeOK, Queued, NEW r \in Request, ~Active(r),
         queue' = [c \in CPUs |-> Append(queue[c], r)]
  PROVE  Pushed(r)
<1>1. \A d \in CPUs : queue[d] \in Seq(Request) /\ Distinct(queue[d]) /\ ~In(r, queue[d])
  BY DEF TypeOK, Queued, Active
<1>2. \A d \in CPUs : queue'[d] = Append(queue[d], r)
  OBVIOUS
<1>3. \A d \in CPUs : Distinct(queue'[d]) /\ queue'[d] \in Seq(Request)
  BY <1>1, <1>2, DistinctAppend
<1>4. \A d \in CPUs : \A x : In(x, queue'[d]) <=> In(x, queue[d]) \/ x = r
  BY <1>1, <1>2, InAppend
<1>5. \A d \in CPUs : \A x, y :
        Behind(queue'[d], x, y) <=> Behind(queue[d], x, y) \/ (In(x, queue[d]) /\ y = r)
  BY <1>1, <1>2, BehindAppend
<1>6. \A d \in CPUs : \A x, y : Behind(queue[d], x, y) => In(x, queue[d]) /\ In(y, queue[d]) /\ x # y
  BY <1>1, BehindIn
<1>7. queue' \in [CPUs -> Seq(Request)]
  BY <1>1
<1> QED BY <1>1, <1>3, <1>4, <1>5, <1>6, <1>7 DEF Pushed

-----------------------------------------------------------------------------
(* The steps *)

\* A request that gets its place is the newest in every queue.
LEMMA PlaceKeeps ==
  ASSUME IInv, NEW r \in Request, Place(r)
  PROVE  IInv'
<1>1. /\ TypeOK /\ Queued /\ Aligned /\ LaterOnesWait /\ OneWaits
      /\ AnsweredGivesUp /\ CopyIsAlone /\ CopyIsNext /\ OneOwner
  BY DEF IInv
<1>2. line' = line
  BY DEF Place
<1>3. Pushed(r)
  BY <1>1, PushQueues DEF Place
<1>4. PICK e \in BOOLEAN :
        req' = [req EXCEPT ![r] = [Idle EXCEPT !.stage = "ordered", !.exclusive = e]]
  BY DEF Place
<1>5. /\ ~Active(r)
      /\ \A q \in Request : q # r => req'[q] = req[q]
      /\ req'[r] = [stage |-> "ordered", exclusive |-> e, shared |-> FALSE, copied |-> FALSE]
  BY <1>1, <1>4 DEF TypeOK, Idle, Place
<1>6. /\ \A q \in Request : Active(q)' <=> Active(q) \/ q = r
      /\ \A q \in Request : req'[q].copied <=> req[q].copied
      /\ \A q \in Request : q # r => req'[q].shared = req[q].shared
  BY <1>1, <1>5 DEF Active, TypeOK
<1>7. TypeOK'
  <2>1. req' \in [Request -> [stage : {"idle", "ordered", "answered", "filled"},
                              exclusive : BOOLEAN, shared : BOOLEAN, copied : BOOLEAN]]
    BY <1>1, <1>4 DEF TypeOK, Idle
  <2>2. \A q \in Request : req'[q].copied => req'[q].stage = "ordered"
    BY <1>1, <1>5 DEF TypeOK
  <2> QED BY <2>1, <2>2, <1>1, <1>2, <1>3 DEF TypeOK, Pushed
<1>8. Queued'
  BY <1>1, <1>5, <1>3 DEF Queued, Pushed
<1>9. Aligned'
  <2>1. SUFFICES ASSUME NEW c \in CPUs, NEW d \in CPUs, NEW x \in Request, NEW y \in Request,
                        Behind(queue'[c], x, y), In(x, queue'[d])
                 PROVE  Behind(queue'[d], x, y)
    BY DEF Aligned
  <2>3. Behind(queue[c], x, y) \/ (In(x, queue[c]) /\ y = r)
    BY <2>1, <1>3 DEF Pushed
  <2>5. In(x, queue[c])
    BY <2>3, <1>3 DEF Pushed
  <2>6. x # r
    BY <2>5, <1>3 DEF Pushed
  <2>2. In(x, queue[d])
    BY <2>1, <2>6, <1>3 DEF Pushed
  <2>4. Behind(queue[c], x, y) => Behind(queue[d], x, y)
    BY <2>2, <1>1 DEF Aligned
  <2> QED BY <2>2, <2>3, <2>4, <1>3 DEF Pushed
<1>10. LaterOnesWait'
  BY <1>1, <1>6, <1>3, Components DEF LaterOnesWait, Pushed
<1>11. OneWaits'
  BY <1>1, <1>6, <1>3, Components DEF OneWaits, Pushed
<1>12. AnsweredGivesUp'
  BY <1>1, <1>2, <1>6, <1>3, Components DEF AnsweredGivesUp, Pushed, Rivals
<1>13. CopyIsAlone'
  BY <1>1, <1>2, <1>6 DEF CopyIsAlone
<1>14. CopyIsNext'
  <2>1. SUFFICES ASSUME NEW x \in Request, NEW y \in Request,
                        Rivals(x, y), req[x].copied, Active(y) \/ y = r
                 PROVE  /\ In(y, queue'[x[1]])
                        /\ In(x, queue'[x[1]]) => Behind(queue'[x[1]], x, y)
    BY <1>6 DEF CopyIsNext, Rivals
  <2>2. x[1] \in CPUs /\ x # r
    BY <2>1, <1>1, <1>5, Components DEF TypeOK, Active
  <2>3. CASE y = r
    BY <2>2, <2>3, <1>3 DEF Pushed
  <2>4. CASE y # r
    <3>1. In(y, queue[x[1]]) /\ (In(x, queue[x[1]]) => Behind(queue[x[1]], x, y))
      BY <2>1, <2>4, <1>1 DEF CopyIsNext
    <3> QED BY <3>1, <2>2, <1>3 DEF Pushed
  <2> QED BY <2>3, <2>4
<1>15. OneOwner'
  BY <1>1, <1>2 DEF OneOwner
<1> QED BY <1>7, <1>8, <1>9, <1>10, <1>11, <1>12, <1>13, <1>14, <1>15 DEF IInv

\* A request that every cache has answered may be complete.
LEMMA AnswerOrNot ==
  ASSUME NEW r \in Request, NEW m, m \in [stage : {"ordered"}, exclusive : BOOLEAN,
                                          shared : BOOLEAN, copied : BOOLEAN],
         NEW n \in AfterAnswer(m, r)
  PROVE  /\ n \in [stage : {"ordered", "answered"}, exclusive : BOOLEAN,
                   shared : BOOLEAN, copied : BOOLEAN]
         /\ n.shared = m.shared
         /\ n.copied => m.copied /\ n.stage = "ordered"
         /\ n.stage # "ordered" => \A c \in CPUs : ~In(r, queue'[c])
BY DEF AfterAnswer, Completed, Idle

\* A cache lets its own request pass: from now on it holds later ones back.
LEMMA PassOwnKeeps ==
  ASSUME IInv, NEW c \in CPUs, PassOwn(c)
  PROVE  IInv'
<1>1. /\ TypeOK /\ Queued /\ Aligned /\ LaterOnesWait /\ OneWaits
      /\ AnsweredGivesUp /\ CopyIsAlone /\ CopyIsNext /\ OneOwner
  BY DEF IInv
<1>2. line' = line
  BY DEF PassOwn
<1>3. Popped(c)
  BY <1>1, PopQueue DEF PassOwn
<1> DEFINE r == Head(queue[c])
<1>4. PICK n \in AfterAnswer(req[r], r) : req' = [req EXCEPT ![r] = n]
  BY DEF PassOwn
<1>5. r \in Request /\ r[1] = c /\ In(r, queue[c]) /\ req[r].stage = "ordered" /\ Active(r)
  BY <1>1, <1>3 DEF Queued, Active, Popped, PassOwn
<1>6. req[r] \in [stage : {"ordered"}, exclusive : BOOLEAN, shared : BOOLEAN, copied : BOOLEAN]
  BY <1>1, <1>5 DEF TypeOK
<1>7. /\ n \in [stage : {"ordered", "answered"}, exclusive : BOOLEAN,
                shared : BOOLEAN, copied : BOOLEAN]
      /\ n.shared = req[r].shared /\ (n.copied => req[r].copied /\ n.stage = "ordered")
      /\ n.stage # "ordered" => \A d \in CPUs : ~In(r, queue'[d])
  BY <1>4, <1>5, <1>6, AnswerOrNot
<1>8. /\ \A q \in Request : q # r => req'[q] = req[q]
      /\ req'[r] = n
  BY <1>1, <1>4, <1>5 DEF TypeOK
<1>9. /\ \A q \in Request : Active(q)' <=> Active(q)
      /\ \A q \in Request : req'[q].copied => req[q].copied
      /\ \A q \in Request : req'[q].shared = req[q].shared
  BY <1>5, <1>7, <1>8 DEF Active
<1>10. TypeOK'
  <2>1. req' \in [Request -> [stage : {"idle", "ordered", "answered", "filled"},
                              exclusive : BOOLEAN, shared : BOOLEAN, copied : BOOLEAN]]
    BY <1>1, <1>4, <1>7 DEF TypeOK
  <2>2. \A q \in Request : req'[q].copied => req'[q].stage = "ordered"
    BY <1>1, <1>7, <1>8 DEF TypeOK
  <2> QED BY <2>1, <2>2, <1>1, <1>2, <1>3 DEF TypeOK, Popped
<1>11. Queued'
  <2>1. \A d \in CPUs, q \in Request : In(q, queue'[d]) => req'[q].stage = "ordered"
    BY <1>1, <1>3, <1>7, <1>8 DEF Queued, Popped
  <2> QED BY <2>1, <1>3 DEF Queued, Popped
<1>12. Aligned'
  BY <1>1, <1>3 DEF Aligned, Popped
<1>13. LaterOnesWait'
  <2>1. SUFFICES ASSUME NEW x \in Request, NEW y \in Request, NEW d \in CPUs,
                        Active(x), ~In(x, queue'[x[1]]), x[2] = y[2], Behind(queue'[d], x, y)
                 PROVE  In(y, queue'[x[1]])
    BY <1>9 DEF LaterOnesWait
  <2>6. Behind(queue[d], x, y)
    BY <2>1, <1>3 DEF Popped
  <2>7. x # y
    BY <2>6, <1>3 DEF Popped
  <2>2. x[1] \in CPUs /\ Behind(queue[d], x, y) /\ x # y
    BY <2>6, <2>7, Components
  <2>5. x[1] = c => y # r
    BY <2>1, <2>2, <1>5, Components
  <2>3. CASE In(x, queue[x[1]])
    <3>1. Behind(queue[x[1]], x, y)
      BY <2>2, <2>3, <1>1 DEF Aligned
    <3> QED BY <3>1, <2>2, <2>5, <1>3 DEF Popped
  <2>4. CASE ~In(x, queue[x[1]])
    <3>1. In(y, queue[x[1]])
      BY <2>1, <2>2, <2>4, <1>1 DEF LaterOnesWait
    <3> QED BY <3>1, <2>2, <2>5, <1>3 DEF Popped
  <2> QED BY <2>3, <2>4
<1>14. OneWaits'
  BY <1>1, <1>3, <1>5, <1>9, Components DEF OneWaits, Rivals, Popped
<1>15. AnsweredGivesUp'
  BY <1>1, <1>2, <1>3, <1>5, <1>9, Components DEF AnsweredGivesUp, Rivals, Popped
<1>16. CopyIsAlone'
  BY <1>1, <1>2, <1>9 DEF CopyIsAlone
<1>17. CopyIsNext'
  BY <1>1, <1>3, <1>5, <1>9, Components DEF CopyIsNext, Rivals, Popped
<1>18. OneOwner'
  BY <1>1, <1>2 DEF OneOwner
<1> QED BY <1>10, <1>11, <1>12, <1>13, <1>14, <1>15, <1>16, <1>17, <1>18 DEF IInv

\* An answer takes the line away, or leaves it shared; the data of a dirty line
\* are on their way.
LEMMA AnswerKeeps ==
  ASSUME IInv, NEW c \in CPUs, Answer(c)
  PROVE  IInv'
<1>1. /\ TypeOK /\ Queued /\ Aligned /\ LaterOnesWait /\ OneWaits
      /\ AnsweredGivesUp /\ CopyIsAlone /\ CopyIsNext /\ OneOwner
  BY DEF IInv
<1> DEFINE r   == Head(queue[c])
           o   == <<c, r[2]>>
           had == line[o] # "INVALID"
           m   == [req[r] EXCEPT !.shared = @ \/ (had /\ ~req[r].exclusive),
                                 !.copied = @ \/ line[o] = "PR_DY"]
<1>2. Popped(c)
  BY <1>1, PopQueue DEF Answer
<1>3. PICK n \in AfterAnswer(m, r) : req' = [req EXCEPT ![r] = n]
  BY DEF Answer
<1>4. /\ r \in Request /\ r[1] # c /\ In(r, queue[c]) /\ req[r].stage = "ordered" /\ Active(r)
      /\ o \in Request /\ o[1] = c /\ o[2] = r[2] /\ o # r
      /\ \A q \in Request : q[1] = c /\ q[2] = r[2] => q = o
  BY <1>1, <1>2, Components, Requests DEF Queued, Active, Popped, Answer
<1>5. Active(o) => In(o, queue[c])
  BY DEF Answer, HoldsBack
<1>6. line' = [line EXCEPT ![o] = IF had /\ ~req[r].exclusive THEN "SH_CL" ELSE "INVALID"]
  BY DEF Answer
<1>7. req[r] \in [stage : {"ordered"}, exclusive : BOOLEAN, shared : BOOLEAN, copied : BOOLEAN]
  BY <1>1, <1>4 DEF TypeOK
<1>8. /\ m \in [stage : {"ordered"}, exclusive : BOOLEAN, shared : BOOLEAN, copied : BOOLEAN]
      /\ m.shared <=> req[r].shared \/ (had /\ ~req[r].exclusive)
      /\ m.copied <=> req[r].copied \/ line[o] = "PR_DY"
  <2>1. (req[r].shared \/ (had /\ ~req[r].exclusive)) \in BOOLEAN
        /\ (req[r].copied \/ line[o] = "PR_DY") \in BOOLEAN
    OBVIOUS
  <2> QED BY <2>1, <1>7
<1> HIDE DEF m
<1>9. /\ n \in [stage : {"ordered", "answered"}, exclusive : BOOLEAN,
                shared : BOOLEAN, copied : BOOLEAN]
      /\ n.shared = m.shared /\ (n.copied => m.copied /\ n.stage = "ordered")
      /\ n.stage # "ordered" => \A d \in CPUs : ~In(r, queue'[d])
  BY <1>3, <1>4, <1>8, AnswerOrNot
<1>10. /\ \A q \in Request : q # r => req'[q] = req[q]
       /\ req'[r] = n
  BY <1>1, <1>3, <1>4 DEF TypeOK
<1>11. /\ \A q \in Request : Active(q)' <=> Active(q)
       /\ \A q \in Request : req'[q].copied => req[q].copied \/ (q = r /\ line[o] = "PR_DY")
       /\ \A q \in Request : req[q].shared => req'[q].shared
  <2>1. \A q \in Request : Active(q)' <=> Active(q)
    BY <1>4, <1>9, <1>10 DEF Active
  <2>2. \A q \in Request : req'[q].copied => req[q].copied \/ (q = r /\ line[o] = "PR_DY")
    BY <1>4, <1>8, <1>9, <1>10
  <2>3. \A q \in Request : req[q].shared => req'[q].shared
    BY <1>4, <1>8, <1>9, <1>10
  <2> QED BY <2>1, <2>2, <2>3
<1>12. /\ \A q \in Request : q # o => line'[q] = line[q]
       /\ line'[o] = "INVALID" \/ (line'[o] = "SH_CL" /\ line[o] # "INVALID" /\ req'[r].shared)
       /\ line' \in [Request -> LineState]
  BY <1>1, <1>4, <1>6, <1>8, <1>9, <1>10 DEF TypeOK, LineState
<1> HIDE DEF r, o, had
\* What the cache has yet to answer for the line, the requester answers as well.
<1>13. ASSUME NEW y \in Request, Rivals(r, y), In(y, queue[c])
       PROVE  In(y, queue[r[1]]) /\ (In(r, queue[r[1]]) => Behind(queue[r[1]], r, y))
  <2>1. r[1] \in CPUs /\ r # y
    BY <1>4, <1>13, Components DEF Rivals
  <2>2. Behind(queue[c], r, y)
    BY <2>1, <1>13, <1>2 DEF Popped, r
  <2>3. CASE In(r, queue[r[1]])
    <3>1. Behind(queue[r[1]], r, y)
      BY <2>1, <2>2, <2>3, <1>4, <1>1 DEF Aligned
    <3> QED BY <3>1, <2>1, <1>2 DEF Popped
  <2>4. CASE ~In(r, queue[r[1]])
    BY <2>1, <2>2, <2>4, <1>4, <1>13, <1>1 DEF LaterOnesWait, Rivals
  <2> QED BY <2>3, <2>4
<1>14. \A d \in CPUs : d # c => \A x : In(x, queue'[d]) <=> In(x, queue[d])
  BY <1>2 DEF Popped
<1>15. \A x : In(x, queue'[c]) <=> In(x, queue[c]) /\ x # r
  BY <1>2 DEF Popped, r
<1>16. \A d \in CPUs : \A x, y : Behind(queue'[d], x, y) <=> Behind(queue[d], x, y) /\ (d = c => x # r)
  BY <1>2 DEF Popped, r
<1>17. TypeOK'
  <2>1. req' \in [Request -> [stage : {"idle", "ordered", "answered", "filled"},
                              exclusive : BOOLEAN, shared : BOOLEAN, copied : BOOLEAN]]
    BY <1>1, <1>3, <1>9 DEF TypeOK
  <2>2. \A q \in Request : req'[q].copied => req'[q].stage = "ordered"
    BY <1>1, <1>9, <1>10 DEF TypeOK
  <2> QED BY <2>1, <2>2, <1>12, <1>2 DEF TypeOK, Popped
<1>18. Queued'
  <2>1. \A d \in CPUs, q \in Request : In(q, queue'[d]) => req'[q].stage = "ordered"
    <3>1. SUFFICES ASSUME NEW d \in CPUs, NEW q \in Request, In(q, queue'[d])
                   PROVE  req'[q].stage = "ordered"
      OBVIOUS
    <3>2. In(q, queue[d])
      BY <3>1, <1>2 DEF Popped
    <3>3. req[q].stage = "ordered"
      BY <3>2, <1>1 DEF Queued
    <3> QED BY <3>1, <3>3, <1>9, <1>10
  <2> QED BY <2>1, <1>2 DEF Queued, Popped
<1>19. Aligned'
  BY <1>1, <1>2 DEF Aligned, Popped
<1>20. LaterOnesWait'
  <2>1. SUFFICES ASSUME NEW x \in Request, NEW y \in Request, NEW d \in CPUs,
                        Active(x), ~In(x, queue'[x[1]]), x[2] = y[2], Behind(queue'[d], x, y)
                 PROVE  In(y, queue'[x[1]])
    BY <1>11 DEF LaterOnesWait
  <2>2. x[1] \in CPUs /\ Behind(queue[d], x, y)
    BY <2>1, <1>16, Components
  <2>3. CASE In(x, queue[x[1]])
    <3>1. x[1] = c /\ x = r
      BY <2>1, <2>2, <2>3, <1>14, <1>15
    <3> QED BY <3>1, <1>4
  <2>4. CASE ~In(x, queue[x[1]])
    <3>1. In(y, queue[x[1]])
      BY <2>1, <2>2, <2>4, <1>1 DEF LaterOnesWait
    <3>2. x[1] = c => y # r
      BY <2>1, <2>4, <1>4, <1>5
    <3> QED BY <3>1, <3>2, <2>2, <1>14, <1>15
  <2> QED BY <2>3, <2>4
<1>21. OneWaits'
  <2>1. ASSUME NEW x \in Request, NEW y \in Request, Rivals(x, y), Active(x), Active(y),
               In(x, queue[y[1]])
        PROVE  In(x, queue'[y[1]]) \/ In(y, queue'[x[1]])
    <3>1. x[1] \in CPUs /\ y[1] \in CPUs /\ x[1] # y[1] /\ x[2] = y[2]
      BY <2>1, Components DEF Rivals
    <3>2. CASE y[1] = c /\ x = r
      <4>1. y = o
        BY <3>1, <3>2, <1>4
      <4>2. In(y, queue[x[1]])
        BY <4>1, <3>2, <2>1, <1>5, <1>13
      <4> QED BY <4>2, <3>1, <3>2, <1>14
    <3>3. CASE ~(y[1] = c /\ x = r)
      BY <3>1, <3>3, <2>1, <1>14, <1>15
    <3> QED BY <3>2, <3>3
  <2>2. \A x, y : Rivals(x, y) => Rivals(y, x)
    BY DEF Rivals
  <2>3. SUFFICES ASSUME NEW x \in Request, NEW y \in Request, Rivals(x, y), Active(x), Active(y)
                 PROVE  In(x, queue'[y[1]]) \/ In(y, queue'[x[1]])
    BY <1>11 DEF OneWaits, Rivals
  <2>4. In(x, queue[y[1]]) \/ In(y, queue[x[1]])
    BY <2>3, <1>1 DEF OneWaits
  <2> QED BY <2>1, <2>2, <2>3, <2>4
<1>22. AnsweredGivesUp'
  <2>1. SUFFICES ASSUME NEW x \in Request, NEW y \in Request, Rivals(x, y), Active(x),
                        ~In(x, queue'[y[1]])
                 PROVE  line'[y] = "INVALID" \/ (line'[y] = "SH_CL" /\ req'[x].shared)
    BY <1>11 DEF AnsweredGivesUp, Rivals
  <2>2. y[1] \in CPUs /\ x[1] # y[1] /\ x[2] = y[2]
    BY <2>1, Components DEF Rivals
  <2>3. CASE In(x, queue[y[1]])
    <3>1. y[1] = c /\ x = r
      BY <2>1, <2>2, <2>3, <1>14, <1>15
    <3>2. y = o
      BY <3>1, <2>2, <1>4
    <3> QED BY <3>1, <3>2, <1>12
  <2>4. CASE ~In(x, queue[y[1]])
    <3>1. line[y] = "INVALID" \/ (line[y] = "SH_CL" /\ req[x].shared)
      BY <2>1, <2>4, <1>1 DEF AnsweredGivesUp
    <3>2. CASE y # o
      BY <3>1, <3>2, <1>11, <1>12
    <3>3. CASE y = o
      BY <3>1, <3>3, <1>11, <1>12
    <3> QED BY <3>2, <3>3
  <2> QED BY <2>3, <2>4
<1>23. CopyIsAlone'
  <2>1. SUFFICES ASSUME NEW x \in Request, NEW y \in Request, Rivals(x, y), req'[x].copied
                 PROVE  line'[y] \notin Private
    BY DEF CopyIsAlone, Rivals
  <2>2. CASE y = o
    BY <2>2, <1>12 DEF Private
  <2>3. CASE y # o /\ req[x].copied
    BY <2>1, <2>3, <1>1, <1>12 DEF CopyIsAlone
  <2>4. CASE y # o /\ x = r /\ line[o] = "PR_DY"
    <3>1. o[1] # y[1] /\ o[2] = y[2]
      BY <2>1, <2>4, <1>4 DEF Rivals
    <3>2. line[y] = "INVALID"
      BY <3>1, <2>4, <1>1, <1>4 DEF OneOwner, Private
    <3> QED BY <3>2, <2>4, <1>12 DEF Private
  <2> QED BY <2>1, <2>2, <2>3, <2>4, <1>11
<1>24. CopyIsNext'
  <2>1. SUFFICES ASSUME NEW x \in Request, NEW y \in Request, Rivals(x, y), req'[x].copied,
                        Active(y)
                 PROVE  /\ In(y, queue'[x[1]])
                        /\ In(x, queue'[x[1]]) => Behind(queue'[x[1]], x, y)
    BY <1>11 DEF CopyIsNext, Rivals
  <2>2. x[1] \in CPUs /\ y[1] \in CPUs /\ x[1] # y[1] /\ x[2] = y[2]
    BY <2>1, Components DEF Rivals
  <2>3. CASE req[x].copied
    <3>1. In(y, queue[x[1]]) /\ (In(x, queue[x[1]]) => Behind(queue[x[1]], x, y))
      BY <2>1, <2>3, <1>1 DEF CopyIsNext
    <3>2. Active(x)
      BY <2>3, <1>1 DEF TypeOK, Active
    <3>3. ~(x[1] = c /\ y = r)
      <4>1. SUFFICES ASSUME x[1] = c, y = r
                     PROVE  FALSE
        OBVIOUS
      <4>2. x = o
        BY <4>1, <2>2, <1>4
      <4>3. Behind(queue[c], x, r)
        BY <4>1, <4>2, <3>1, <3>2, <1>5
      <4> QED BY <4>3, <1>2 DEF Popped, r
    <3>4. In(y, queue'[x[1]])
      BY <3>1, <3>3, <2>2, <1>14, <1>15
    <3>5. In(x, queue'[x[1]]) => In(x, queue[x[1]]) /\ (x[1] = c => x # r)
      BY <2>2, <1>14, <1>15
    <3> QED BY <3>1, <3>4, <3>5, <2>2, <1>16
  <2>4. CASE x = r /\ line[o] = "PR_DY"
    <3>1. In(y, queue[c])
      <4>1. CASE y[1] = c
        BY <4>1, <2>1, <2>2, <2>4, <1>4, <1>5
      <4>2. CASE y[1] # c
        <5>1. Rivals(y, o)
          BY <4>2, <2>2, <2>4, <1>4 DEF Rivals
        <5> QED BY <5>1, <2>1, <2>4, <1>1, <1>4 DEF AnsweredGivesUp
      <4> QED BY <4>1, <4>2
    <3>2. In(y, queue[r[1]]) /\ (In(r, queue[r[1]]) => Behind(queue[r[1]], r, y))
      BY <3>1, <2>1, <2>4, <1>13
    <3> QED BY <3>2, <2>2, <2>4, <1>4, <1>14, <1>16
  <2> QED BY <2>1, <2>3, <2>4, <1>11
<1>25. OneOwner'
  <2>1. SUFFICES ASSUME NEW x \in Request, NEW y \in Request, x[1] # y[1], x[2] = y[2],
                        line'[x] \in Private
                 PROVE  line'[y] = "INVALID"
    BY DEF OneOwner
  <2>2. x # o /\ line[x] \in Private
    BY <2>1, <1>12 DEF Private
  <2>3. line[y] = "INVALID"
    BY <2>1, <2>2, <1>1 DEF OneOwner
  <2> QED BY <2>3, <1>12
<1> QED BY <1>17, <1>18, <1>19, <1>20, <1>21, <1>22, <1>23, <1>24, <1>25 DEF IInv

\* Without(c, S) and the other local steps only give lines up, or dirty one.
LEMMA LocalStepsKeep ==
  ASSUME IInv, UNCHANGED queue, line' \in [Request -> LineState],
         \A q \in Request : \/ line'[q] \in {line[q], "INVALID"}
                            \/ line[q] \in Private /\ line'[q] \in Private,
         \A q \in Request : Active(q)' => Active(q) /\ req'[q].shared = req[q].shared,
         \A q \in Request : req'[q].copied => req[q].copied,
         req' \in [Request -> [stage : {"idle", "ordered", "answered", "filled"},
                              exclusive : BOOLEAN, shared : BOOLEAN, copied : BOOLEAN]],
         \A q \in Request : req'[q].copied => req'[q].stage = "ordered",
         \A q \in Request : (\E d \in CPUs : In(q, queue[d])) => req'[q].stage = req[q].stage
  PROVE  IInv'
<1>1. /\ TypeOK /\ Queued /\ Aligned /\ LaterOnesWait /\ OneWaits
      /\ AnsweredGivesUp /\ CopyIsAlone /\ CopyIsNext /\ OneOwner
  BY DEF IInv
<1>2. TypeOK'
  BY <1>1 DEF TypeOK
<1>3. Queued'
  BY <1>1 DEF Queued
<1>4. Aligned'
  BY <1>1 DEF Aligned
<1>5. LaterOnesWait'
  BY <1>1 DEF LaterOnesWait
<1>6. OneWaits'
  BY <1>1 DEF OneWaits, Rivals
<1>7. AnsweredGivesUp'
  BY <1>1 DEF AnsweredGivesUp, Rivals, Private
<1>8. CopyIsAlone'
  BY <1>1 DEF CopyIsAlone, Rivals, Private
<1>9. CopyIsNext'
  BY <1>1 DEF CopyIsNext, Rivals
<1>10. OneOwner'
  BY <1>1 DEF OneOwner, Private
<1> QED BY <1>2, <1>3, <1>4, <1>5, <1>6, <1>7, <1>8, <1>9, <1>10 DEF IInv

\* Completion needs nothing but the last answer.
LEMMA CompleteKeeps ==
  ASSUME IInv, NEW r \in Request, Complete(r)
  PROVE  IInv'
<1>1. TypeOK
  BY DEF IInv
<1>2. /\ line' = line /\ queue' = queue /\ req' = [req EXCEPT ![r] = Completed(req[r])]
      /\ req[r].stage = "ordered" /\ \A c \in CPUs : ~In(r, queue[c])
  BY DEF Complete
<1>3. /\ Completed(req[r]) \in [stage : {"answered"}, exclusive : BOOLEAN,
                                 shared : BOOLEAN, copied : {FALSE}]
      /\ Completed(req[r]).shared = req[r].shared
  BY <1>1 DEF TypeOK, Completed, Idle
<1>4. /\ \A q \in Request : q # r => req'[q] = req[q]
      /\ req'[r].stage = "answered" /\ ~req'[r].copied /\ req'[r].shared = req[r].shared
      /\ req' \in [Request -> [stage : {"idle", "ordered", "answered", "filled"},
                              exclusive : BOOLEAN, shared : BOOLEAN, copied : BOOLEAN]]
  <2> DEFINE n == Completed(req[r])
  <2>1. n \in [stage : {"answered"}, exclusive : BOOLEAN, shared : BOOLEAN, copied : {FALSE}]
        /\ n.shared = req[r].shared /\ req' = [req EXCEPT ![r] = n]
    BY <1>2, <1>3
  <2> HIDE DEF n
  <2> QED BY <2>1, <1>1 DEF TypeOK
<1>5. \A q \in Request : Active(q)' => Active(q) /\ req'[q].shared = req[q].shared
  BY <1>2, <1>4 DEF Active
<1>6. /\ \A q \in Request : req'[q].copied => req[q].copied
      /\ \A q \in Request : req'[q].copied => req'[q].stage = "ordered"
      /\ \A q \in Request : (\E d \in CPUs : In(q, queue[d])) => req'[q].stage = req[q].stage
  BY <1>1, <1>2, <1>4 DEF TypeOK
<1> QED BY <1>1, <1>2, <1>4, <1>5, <1>6, LocalStepsKeep DEF TypeOK

\* The request is over; lines given up on the way only help.
LEMMA ReleaseKeeps ==
  ASSUME IInv, NEW r \in Request, Release(r)
  PROVE  IInv'
<1>1. TypeOK /\ Queued
  BY DEF IInv
<1>2. /\ queue' = queue /\ req' = [req EXCEPT ![r] = Idle] /\ req[r].stage = "filled"
      /\ \E S \in SUBSET Lines : line' = Without(r[1], S)
  BY DEF Release
<1>3. /\ \A q \in Request : q # r => req'[q] = req[q]
      /\ req'[r] = [stage |-> "idle", exclusive |-> FALSE, shared |-> FALSE, copied |-> FALSE]
      /\ req' \in [Request -> [stage : {"idle", "ordered", "answered", "filled"},
                              exclusive : BOOLEAN, shared : BOOLEAN, copied : BOOLEAN]]
  BY <1>1, <1>2 DEF TypeOK, Idle
<1>4. line' \in [Request -> LineState] /\ \A q \in Request : line'[q] \in {line[q], "INVALID"}
  BY <1>1, <1>2 DEF TypeOK, Without, LineState
<1>5. \A q \in Request : Active(q)' => Active(q) /\ req'[q].shared = req[q].shared
  BY <1>2, <1>3 DEF Active
<1>6. /\ \A q \in Request : req'[q].copied => req[q].copied
      /\ \A q \in Request : req'[q].copied => req'[q].stage = "ordered"
      /\ \A q \in Request : (\E d \in CPUs : In(q, queue[d])) => req'[q].stage = req[q].stage
  BY <1>1, <1>2, <1>3 DEF TypeOK, Queued
<1> QED BY <1>2, <1>3, <1>4, <1>5, <1>6, LocalStepsKeep

\* A private line may be written: nobody else has it.
LEMMA WriteKeeps ==
  ASSUME IInv, NEW r \in Request, Write(r)
  PROVE  IInv'
<1>1. TypeOK
  BY DEF IInv
<1>2. /\ queue' = queue /\ req' = req /\ line[r] \in Private
      /\ line' = [line EXCEPT ![r] = "PR_DY"]
  BY DEF Write
<1>3. /\ line' \in [Request -> LineState]
      /\ \A q \in Request : \/ line'[q] \in {line[q], "INVALID"}
                            \/ line[q] \in Private /\ line'[q] \in Private
  BY <1>1, <1>2 DEF TypeOK, LineState, Private
<1> QED BY <1>1, <1>2, <1>3, LocalStepsKeep DEF TypeOK, Active

\* Lines given up on their own.
LEMMA FlushKeeps ==
  ASSUME IInv, NEW c \in CPUs, Flush(c)
  PROVE  IInv'
<1>1. TypeOK
  BY DEF IInv
<1>2. queue' = queue /\ req' = req /\ \E S \in SUBSET Lines : line' = Without(c, S)
  BY DEF Flush
<1>3. line' \in [Request -> LineState] /\ \A q \in Request : line'[q] \in {line[q], "INVALID"}
  BY <1>1, <1>2 DEF TypeOK, Without, LineState
<1> QED BY <1>1, <1>2, <1>3, LocalStepsKeep DEF TypeOK, Active

\* Nobody else has the line when it comes: a rival request waits for this cache
\* or is itself being answered, and who has answered has given the line up.
LEMMA InstallKeeps ==
  ASSUME IInv, NEW r \in Request, Install(r)
  PROVE  IInv'
<1>1. /\ TypeOK /\ Queued /\ Aligned /\ LaterOnesWait /\ OneWaits
      /\ AnsweredGivesUp /\ CopyIsAlone /\ CopyIsNext /\ OneOwner
  BY DEF IInv
<1>2. /\ queue' = queue /\ req' = [req EXCEPT ![r].stage = "filled"]
      /\ req[r].stage = "answered"
  BY DEF Install
<1>3. PICK S \in SUBSET Lines, s \in IF req[r].shared THEN {"SH_CL"} ELSE Private :
        line' = [Without(r[1], S) EXCEPT ![r] = s]
  BY DEF Install
<1>4. /\ \A q \in Request : q # r => line'[q] \in {line[q], "INVALID"}
      /\ line'[r] = s /\ line' \in [Request -> LineState]
      /\ s = "SH_CL" \/ (s \in Private /\ ~req[r].shared)
  BY <1>1, <1>3 DEF TypeOK, Without, LineState, Private
<1>5. /\ \A q \in Request : q # r => req'[q] = req[q]
      /\ req'[r].stage = "filled" /\ req'[r].shared = req[r].shared
      /\ req'[r].copied = req[r].copied /\ ~req[r].copied
      /\ req' \in [Request -> [stage : {"idle", "ordered", "answered", "filled"},
                              exclusive : BOOLEAN, shared : BOOLEAN, copied : BOOLEAN]]
  BY <1>1, <1>2 DEF TypeOK
<1>6. /\ \A q \in Request : Active(q)' <=> Active(q)
      /\ \A q \in Request : req'[q].shared = req[q].shared /\ req'[q].copied = req[q].copied
      /\ Active(r) /\ \A c \in CPUs : ~In(r, queue[c])
  BY <1>1, <1>2, <1>5 DEF Active, Queued
<1>7. \A q \in Request : Rivals(r, q) =>
        /\ line[q] = "INVALID" \/ (line[q] = "SH_CL" /\ req[r].shared)
        /\ Active(q) => In(q, queue[r[1]])
        /\ ~req[q].copied
  <2>1. SUFFICES ASSUME NEW q \in Request, Rivals(r, q)
                 PROVE  /\ line[q] = "INVALID" \/ (line[q] = "SH_CL" /\ req[r].shared)
                        /\ Active(q) => In(q, queue[r[1]])
                        /\ ~req[q].copied
    OBVIOUS
  <2>2. q[1] \in CPUs /\ Rivals(q, r)
    BY <2>1, Components DEF Rivals
  <2>3. line[q] = "INVALID" \/ (line[q] = "SH_CL" /\ req[r].shared)
    BY <2>1, <2>2, <1>1, <1>6 DEF AnsweredGivesUp
  <2>4. Active(q) => In(q, queue[r[1]])
    BY <2>1, <2>2, <1>1, <1>6 DEF OneWaits
  <2>5. ~req[q].copied
    BY <2>2, <1>1, <1>6 DEF CopyIsNext
  <2> QED BY <2>3, <2>4, <2>5
<1>8. TypeOK'
  <2>1. \A q \in Request : req'[q].copied => req'[q].stage = "ordered"
    BY <1>1, <1>5 DEF TypeOK
  <2> QED BY <2>1, <1>1, <1>2, <1>4, <1>5 DEF TypeOK
<1>9. Queued'
  BY <1>1, <1>2, <1>5, <1>6 DEF Queued
<1>10. Aligned'
  BY <1>1, <1>2 DEF Aligned
<1>11. LaterOnesWait'
  BY <1>1, <1>2, <1>6 DEF LaterOnesWait
<1>12. OneWaits'
  BY <1>1, <1>2, <1>6 DEF OneWaits, Rivals
<1>13. AnsweredGivesUp'
  <2>1. SUFFICES ASSUME NEW x \in Request, NEW y \in Request, Rivals(x, y), Active(x),
                        ~In(x, queue[y[1]])
                 PROVE  line'[y] = "INVALID" \/ (line'[y] = "SH_CL" /\ req[x].shared)
    BY <1>2, <1>6 DEF AnsweredGivesUp, Rivals
  <2>2. y # r
    BY <2>1, <1>7 DEF Rivals
  <2> QED BY <2>1, <2>2, <1>1, <1>4 DEF AnsweredGivesUp
<1>14. CopyIsAlone'
  <2>1. SUFFICES ASSUME NEW x \in Request, NEW y \in Request, Rivals(x, y), req[x].copied
                 PROVE  line'[y] \notin Private
    BY <1>6 DEF CopyIsAlone, Rivals
  <2>2. y # r
    BY <2>1, <1>7 DEF Rivals
  <2> QED BY <2>1, <2>2, <1>1, <1>4 DEF CopyIsAlone, Private
<1>15. CopyIsNext'
  BY <1>1, <1>2, <1>6 DEF CopyIsNext, Rivals
<1>16. OneOwner'
  <2>1. SUFFICES ASSUME NEW x \in Request, NEW y \in Request, x[1] # y[1], x[2] = y[2],
                        line'[x] \in Private
                 PROVE  line'[y] = "INVALID"
    BY DEF OneOwner
  <2>2. CASE x = r
    BY <2>1, <2>2, <1>4, <1>7 DEF Rivals, Private
  <2>3. CASE y = r
    <3>1. line[x] \in Private
      BY <2>1, <2>3, <1>4 DEF Private
    <3>2. Rivals(r, x)
      BY <2>1, <2>3 DEF Rivals
    <3> QED BY <3>1, <3>2, <1>7 DEF Private
  <2>4. CASE x # r /\ y # r
    BY <2>1, <2>4, <1>1, <1>4 DEF OneOwner, Private
  <2> QED BY <2>2, <2>3, <2>4
<1> QED BY <1>8, <1>9, <1>10, <1>11, <1>12, <1>13, <1>14, <1>15, <1>16 DEF IInv

-----------------------------------------------------------------------------
(* The theorems *)

LEMMA InitHolds == Init => IInv
<1>1. SUFFICES ASSUME Init PROVE IInv
  OBVIOUS
<1>2. /\ line = [r \in Request |-> "INVALID"] /\ queue = [c \in CPUs |-> <<>>]
      /\ req = [r \in Request |-> Idle]
  BY <1>1 DEF Init
<1>3. \A c \in CPUs : \A x, y : ~In(x, queue[c]) /\ ~Behind(queue[c], x, y) /\ Distinct(queue[c])
  BY <1>2 DEF In, Behind, Distinct
<1>4. \A r \in Request : ~Active(r) /\ ~req[r].copied /\ line[r] = "INVALID"
  BY <1>2 DEF Active, Idle
<1>5. TypeOK
  <2>1. req \in [Request -> [stage : {"idle", "ordered", "answered", "filled"},
                             exclusive : BOOLEAN, shared : BOOLEAN, copied : BOOLEAN]]
    BY <1>2 DEF Idle
  <2> QED BY <2>1, <1>2, <1>4 DEF TypeOK, LineState
<1> QED BY <1>3, <1>4, <1>5 DEF IInv, Queued, Aligned, LaterOnesWait, OneWaits, AnsweredGivesUp,
          CopyIsAlone, CopyIsNext, OneOwner, Private

\* One lemma per action puts the step together.
LEMMA NextKeeps == IInv /\ [Next]_vars => IInv'
<1>1. SUFFICES ASSUME IInv, [Next]_vars PROVE IInv'
  OBVIOUS
<1>2. CASE \E r \in Request : Place(r) \/ Complete(r) \/ Install(r) \/ Release(r) \/ Write(r)
  BY <1>1, <1>2, PlaceKeeps, CompleteKeeps, InstallKeeps, ReleaseKeeps, WriteKeeps
<1>3. CASE \E c \in CPUs : PassOwn(c) \/ Answer(c) \/ Flush(c)
  BY <1>1, <1>3, PassOwnKeeps, AnswerKeeps, FlushKeeps
<1>4. CASE UNCHANGED vars
  BY <1>1, <1>4, LocalStepsKeep DEF vars, IInv, TypeOK, Active
<1> QED BY <1>1, <1>2, <1>3, <1>4 DEF Next

\* The invariant holds in every reachable state.
THEOREM Inductive == Spec => []IInv
<1>1. Init => IInv
  BY InitHolds
<1>2. IInv /\ [Next]_vars => IInv'
  BY NextKeeps
<1> QED BY <1>1, <1>2, PTL DEF Spec

\* Two completed requests for a line would each have to be before the other.
LEMMA InvariantSays == IInv => OneOwner /\ OneGrant /\ OneCopy
<1>1. SUFFICES ASSUME IInv PROVE OneOwner /\ OneGrant /\ OneCopy
  OBVIOUS
<1>2. OneGrant
  <2>1. SUFFICES ASSUME NEW r \in Request, NEW q \in Request, r[1] # q[1], r[2] = q[2],
                        req[r].stage \in {"answered", "filled"},
                        req[q].stage \in {"answered", "filled"}
                 PROVE  FALSE
    BY DEF OneGrant
  <2>2. In(r, queue[q[1]]) \/ In(q, queue[r[1]])
    BY <2>1, <1>1 DEF IInv, OneWaits, Rivals, Active
  <2> QED BY <2>1, <2>2, <1>1, Components DEF IInv, Queued
<1>3. OneCopy
  BY <1>1 DEF IInv, CopyIsAlone, OneCopy, Rivals, Private
<1> QED BY <1>1, <1>2, <1>3 DEF IInv

\* What the bus order, the answers in that order and the answers held back by an
\* MSHR (L2ProcessTagCohe) add up to: one owner of a line, one completed request
\* for it, one copy of it on its way.
THEOREM PromisesAreKept == Spec => [](OneOwner /\ OneGrant /\ OneCopy)
<1>1. Spec => []IInv
  BY Inductive
<1>2. IInv => OneOwner /\ OneGrant /\ OneCopy
  BY InvariantSays
<1> QED BY <1>1, <1>2, PTL
=============================================================================
