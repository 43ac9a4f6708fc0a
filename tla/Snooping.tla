------------------------------ MODULE Snooping ------------------------------
\* What the L2 caches of a node promise together, without queues, pipes, MSHRs
\* and transfers: the bus puts the requests in an order, every cache answers
\* them in that order, and a cache whose own request has its place answers
\* nobody else for the line until it has had the line and is done with it.
EXTENDS Naturals, Sequences

CONSTANTS CPUs, Lines

Request   == CPUs \X Lines
LineState == {"INVALID", "SH_CL", "PR_CL", "PR_DY"}
Private   == {"PR_CL", "PR_DY"}

VARIABLES
  line,   \* the state of each line in each cache
  queue,  \* the requests each cache has yet to answer
  req     \* [stage, exclusive, shared, copied] of each request

vars == <<line, queue, req>>

Idle == [stage |-> "idle", exclusive |-> FALSE, shared |-> FALSE, copied |-> FALSE]

Init ==
  /\ line = [r \in Request |-> "INVALID"]
  /\ queue = [c \in CPUs |-> <<>>]
  /\ req = [r \in Request |-> Idle]

In(r, q) == \E n \in 1 .. Len(q) : q[n] = r
Active(r) == req[r].stage # "idle"

\* The request has the bus: it is for a copy to read, or exclusive.
Place(r) ==
  /\ ~Active(r)
  /\ \E e \in BOOLEAN :
       req' = [req EXCEPT ![r] = [Idle EXCEPT !.stage = "ordered", !.exclusive = e]]
  /\ queue' = [c \in CPUs |-> Append(queue[c], r)]
  /\ UNCHANGED line

\* With the last answer the request may be complete, or its data are still to come.
Completed(m) == [Idle EXCEPT !.stage = "answered", !.shared = m.shared]
AfterAnswer(m, r) ==
  {m} \cup {n \in {Completed(m)} : \A c \in CPUs : ~In(r, queue'[c])}

PassOwn(c) ==
  /\ queue[c] # <<>> /\ Head(queue[c])[1] = c
  /\ queue' = [queue EXCEPT ![c] = Tail(@)]
  /\ LET r == Head(queue[c])
     IN \E m \in AfterAnswer(req[r], r) : req' = [req EXCEPT ![r] = m]
  /\ UNCHANGED line

HoldsBack(c, l) == Active(<<c, l>>) /\ ~In(<<c, l>>, queue[c])

Answer(c) ==
  /\ queue[c] # <<>> /\ Head(queue[c])[1] # c /\ ~HoldsBack(c, Head(queue[c])[2])
  /\ queue' = [queue EXCEPT ![c] = Tail(@)]
  /\ LET r   == Head(queue[c])
         o   == <<c, r[2]>>
         had == line[o] # "INVALID"
         m   == [req[r] EXCEPT !.shared = @ \/ (had /\ ~req[r].exclusive),
                               !.copied = @ \/ line[o] = "PR_DY"]
     IN /\ line' = [line EXCEPT ![o] = IF had /\ ~req[r].exclusive THEN "SH_CL" ELSE "INVALID"]
        /\ \E n \in AfterAnswer(m, r) : req' = [req EXCEPT ![r] = n]

Complete(r) ==
  /\ req[r].stage = "ordered" /\ \A c \in CPUs : ~In(r, queue[c])
  /\ req' = [req EXCEPT ![r] = Completed(@)]
  /\ UNCHANGED <<line, queue>>

\* Cache c gives up lines of its own.
Without(c, S) == [r \in Request |-> IF r[1] = c /\ r[2] \in S THEN "INVALID" ELSE line[r]]

\* The line comes into the cache in the place of others.
Install(r) ==
  /\ req[r].stage = "answered"
  /\ \E S \in SUBSET Lines, s \in IF req[r].shared THEN {"SH_CL"} ELSE Private :
       line' = [Without(r[1], S) EXCEPT ![r] = s]
  /\ req' = [req EXCEPT ![r].stage = "filled"]
  /\ UNCHANGED queue

Release(r) ==
  /\ req[r].stage = "filled"
  /\ \E S \in SUBSET Lines : line' = Without(r[1], S)
  /\ req' = [req EXCEPT ![r] = Idle]
  /\ UNCHANGED queue

Write(r) ==
  /\ line[r] \in Private
  /\ line' = [line EXCEPT ![r] = "PR_DY"]
  /\ UNCHANGED <<queue, req>>

Flush(c) ==
  /\ \E S \in SUBSET Lines : line' = Without(c, S)
  /\ UNCHANGED <<queue, req>>

Next ==
  \/ \E r \in Request : Place(r) \/ Complete(r) \/ Install(r) \/ Release(r) \/ Write(r)
  \/ \E c \in CPUs : PassOwn(c) \/ Answer(c) \/ Flush(c)

Spec == Init /\ [][Next]_vars

-----------------------------------------------------------------------------
\* A line private in one cache is valid in no other.
OneOwner ==
  \A r, q \in Request :
    r[1] # q[1] /\ r[2] = q[2] /\ line[r] \in Private => line[q] = "INVALID"

\* Two caches never have the line granted at once: the second answer waits for
\* the first cache to be done.
OneGrant ==
  \A r, q \in Request :
    r[1] # q[1] /\ r[2] = q[2] /\ req[r].stage \in {"answered", "filled"}
      => req[q].stage \notin {"answered", "filled"}

\* A request that a dirty cache has answered meets no other dirty line: its
\* data are sent once.
OneCopy ==
  \A r, q \in Request :
    r[1] # q[1] /\ r[2] = q[2] /\ req[r].copied => line[q] # "PR_DY"
=============================================================================
