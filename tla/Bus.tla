-------------------------------- MODULE Bus --------------------------------
(***************************************************************************)
(* The split-transaction bus of one node (Bus/bus.c): the arbitrator, the  *)
(* issuer and the performer events, and the three kinds of bus module that *)
(* queue for it (Cache_arb_for_bus, IO_arb_for_bus,                        *)
(* MMC_start_send_to_bus).                                                 *)
(*                                                                         *)
(* Time is YS__Simtime in whole cycles.  The performer runs 0.1 cycle      *)
(* before the end of a transaction; here it is due at the end and precedes *)
(* the issuer.  Whatever else is due in the same cycle runs in any order,  *)
(* except the issuer and the arbitrator: the event list is first come,     *)
(* first served, and issuer_first says which of the two came first.        *)
(***************************************************************************)
EXTENDS Integers, Sequences, FiniteSets

CONSTANTS
  ARCH_cpus, ARCH_ios,
  BUS_FREQUENCY,       \* cycles of simulated time per bus cycle
  BUS_ARBDELAY, BUS_TURNAROUND, BUS_MINDELAY,
  BUS_CRITICAL_WORD,   \* data is delivered one bus cycle after the start
  BUS_TOTAL_REQUESTS,
  MMC_writebacks,      \* mparam.max_writeback_count
  Cycles,              \* bus cycles of each type of transaction
  Issue,               \* <<module, type>>: what the modules may ask for
  Backlog,             \* bound: transactions a module has waiting at a time
  Horizon              \* bound: the last cycle of a run

\* WRITE_UC stands for a REQUEST with req_type WRITE_UC, which gets no answer.
Type    == {"REQUEST", "WRITE_UC", "REPLY", "COHE_REPLY", "WRITEBACK"}
Answers == {"REPLY", "COHE_REPLY"}
Writes  == {"COHE_REPLY", "WRITEBACK"}

NUM_MODULES == ARCH_cpus + ARCH_ios
MEM_CNTL    == NUM_MODULES
Processors  == 0 .. (ARCH_cpus - 1)
IOModules   == ARCH_cpus .. (NUM_MODULES - 1)
Modules     == 0 .. NUM_MODULES

ASSUME ConstantsAssumption ==
  /\ ARCH_cpus \in Nat \ {0} /\ ARCH_ios \in Nat
  /\ BUS_FREQUENCY \in Nat \ {0} /\ BUS_TOTAL_REQUESTS \in Nat \ {0}
  /\ BUS_ARBDELAY \in Nat /\ BUS_TURNAROUND \in Nat /\ BUS_MINDELAY \in Nat
  /\ MMC_writebacks \in Nat \ {0}
  /\ BUS_CRITICAL_WORD \in BOOLEAN
  /\ Cycles \in [Type -> Nat \ {0}]
  /\ Issue \subseteq Modules \X Type
  /\ Backlog \in Nat /\ Horizon \in Nat

VARIABLES
  now,               \* YS__Simtime
  state,             \* what the arbitrator event is for
  arbitrator, issuer, performer,   \* the cycle each event is scheduled for, or -1
  issuer_first,      \* the issuer was scheduled before the arbitrator
  busy_until, last_start_time, last_end_time, next_start_time,
  cur_req, next_req, \* a type of transaction, or "none"
  cur_winner,        \* the module in MASTER_STATE
  next_winner,       \* a module, or -1
  rr_index, req_count, write_flowcontrol,
  slot,              \* the bus's arbwaiters: [req, time] per module
  arbwaiter_count,
  waiters, waiting,  \* each module's own arbwaiters and arbwaiters_count
  unanswered,        \* requests the bus has delivered, still without an answer
  wb_count,          \* writes the memory controller has buffered
  error              \* the YS__errmsg calls met so far

clock   == <<now, state, arbitrator, issuer, performer, issuer_first>>
times   == <<busy_until, last_start_time, last_end_time, next_start_time>>
current == <<cur_req, cur_winner, req_count>>
chosen  == <<next_req, next_winner, rr_index>>
queues  == <<slot, arbwaiter_count, waiters, waiting>>
memory  == <<unanswered, wb_count, write_flowcontrol>>
vars    == <<clock, times, current, chosen, queues, memory, error>>

EmptySlot == [req |-> "none", time |-> 0]

\* Bus_init.
Init ==
  /\ now = 0 /\ state = "IDLE" /\ arbitrator = -1 /\ issuer = -1 /\ performer = -1
  /\ issuer_first = TRUE
  /\ busy_until = 0 /\ last_start_time = 0 /\ last_end_time = 0 /\ next_start_time = 0
  /\ cur_req = "none" /\ next_req = "none" /\ cur_winner = 0 /\ next_winner = -1
  /\ rr_index = IF NUM_MODULES = 1 THEN 0 ELSE 1
  /\ req_count = 0 /\ write_flowcontrol = 0
  /\ slot = [m \in Modules |-> EmptySlot] /\ arbwaiter_count = 0
  /\ waiters = [m \in Modules |-> <<>>] /\ waiting = [m \in Modules |-> 0]
  /\ unanswered = 0 /\ wb_count = 0 /\ error = {}

-----------------------------------------------------------------------------
(* Time *)

Later(a, b) == IF a >= b THEN a ELSE b
NextBusCycle(t) == t + ((BUS_FREQUENCY - (t % BUS_FREQUENCY)) % BUS_FREQUENCY)
Duration(t)     == Cycles[t] * BUS_FREQUENCY

\* Simulated time advances when no event of the bus is due.
Tick ==
  /\ now < Horizon
  /\ now \notin {arbitrator, issuer, performer}
  /\ now' = now + 1
  /\ UNCHANGED <<state, arbitrator, issuer, performer, issuer_first,
                 times, current, chosen, queues, memory, error>>

-----------------------------------------------------------------------------
(* Driving the bus *)

\* A request takes one of the BUS_TOTAL_REQUESTS numbers, its answer returns it.
CountAfterStartWithoutCopies(t) == IF t = "REQUEST" THEN req_count + 1
                                   ELSE IF t = "REPLY" THEN req_count - 1 ELSE req_count
CountAfterStart(t) == IF t = "REQUEST" THEN req_count + 1
                      ELSE IF t \in Answers THEN req_count - 1 ELSE req_count

\* Bus_start by module m, with the errors of its caller.
BusStart(m, t, errors) ==
  /\ cur_req' = t
  /\ cur_winner' = m
  /\ busy_until' = now + Duration(t)
  /\ req_count' = CountAfterStart(t)
  /\ performer' = IF BUS_CRITICAL_WORD /\ t \in Answers
                  THEN now + BUS_FREQUENCY ELSE now + Duration(t)
  /\ issuer' = now + Duration(t)
  /\ error' = error \cup errors \cup
              (IF issuer = -1 THEN {} ELSE {"scheduling scheduled bus issuer"})

\* Bus_perform: a request reaches the memory controller and will be answered;
\* a write takes a buffer there (MMC_recv_trans) and may raise flow control.
Perform ==
  /\ performer = now
  /\ performer' = -1
  /\ error' = IF cur_req = "none" THEN error \cup {"nothing to perform"} ELSE error
  /\ unanswered' = IF cur_req = "REQUEST" THEN unanswered + 1 ELSE unanswered
  /\ wb_count' = IF cur_req \in Writes THEN wb_count + 1 ELSE wb_count
  /\ write_flowcontrol' = IF cur_req \in Writes /\ wb_count + 1 = MMC_writebacks - 1
                          THEN write_flowcontrol + 1 ELSE write_flowcontrol
  /\ UNCHANGED <<now, state, arbitrator, issuer, issuer_first,
                 times, current, chosen, queues>>

\* Bus_issuer: the end of a transaction.
Issuer ==
  /\ issuer = now
  /\ performer # now
  /\ arbitrator = now => issuer_first
  /\ issuer' = -1
  /\ cur_req' = "none"
  /\ error' = IF cur_req = "none" THEN error \cup {"nothing to issue"} ELSE error
  /\ UNCHANGED <<now, state, arbitrator, performer, issuer_first,
                 times, cur_winner, req_count, chosen, queues, memory>>

-----------------------------------------------------------------------------
(* Asking for the bus *)

\* Bus_recv_arb_req, one part per group of variables.
TakeSlot(m, t) ==
  /\ slot' = [slot EXCEPT ![m] = [req |-> t, time |-> NextBusCycle(now)]]
  /\ arbwaiter_count' = arbwaiter_count + 1
SlotTaken(m) == IF slot[m].req = "none" THEN {} ELSE {"already has an arbitration waiter"}
WakeArbitrator ==
  IF arbitrator = -1
  THEN /\ state' = "ARBITRATING"
       /\ arbitrator' = Later(now, busy_until)
       /\ issuer_first' = TRUE
  ELSE UNCHANGED <<state, arbitrator, issuer_first>>

\* arbwaiters_count of module m.
LoseCount(m)   == UNCHANGED waiting
CountWaiter(m) == waiting' = [waiting EXCEPT ![m] = @ + 1]

\* A module whose arbwaiters_count is positive queues behind itself, except that
\* a cache-to-cache copy takes the place of what is waiting in the slot.
QueueBehind(m, t) ==
  /\ IF t = "COHE_REPLY" /\ slot[m].req # "none"
     THEN /\ waiters' = [waiters EXCEPT ![m] = <<slot[m].req>> \o @]
          /\ slot' = [slot EXCEPT ![m].req = t]
     ELSE /\ waiters' = [waiters EXCEPT ![m] = Append(@, t)]
          /\ UNCHANGED slot
  /\ CountWaiter(m)
  /\ UNCHANGED <<clock, times, current, chosen, arbwaiter_count, error>>

ArbForSlot(m, t) ==
  /\ TakeSlot(m, t)
  /\ WakeArbitrator
  /\ CountWaiter(m)
  /\ error' = error \cup SlotTaken(m)
  /\ UNCHANGED <<now, issuer, performer, times, current, chosen, waiters>>

\* InMasterState and BusIsIdleUntil.
CanStartNow(m, t) ==
  /\ cur_winner = m
  /\ issuer = -1
  /\ next_winner = -1 \/ next_start_time > now + Duration(t)

\* IO_in_master_state and MMC_in_master_state called without arbitration.
StartNow(m, t) ==
  /\ BusStart(m, t, {})
  /\ issuer_first' = (arbitrator = -1)
  /\ UNCHANGED <<now, state, arbitrator, last_start_time, last_end_time, next_start_time,
                 chosen, queues>>

\* A module hands over a transaction; an answer is for a delivered request.
MayIssue(m, t) == <<m, t>> \in Issue /\ waiting[m] < Backlog /\ (t \in Answers => unanswered > 0)
Hands(t) == /\ unanswered' = IF t \in Answers THEN unanswered - 1 ELSE unanswered
            /\ UNCHANGED <<wb_count, write_flowcontrol>>

CacheArbForBus(m, t) ==
  /\ m \in Processors
  /\ MayIssue(m, t)
  /\ IF waiting[m] > 0 THEN QueueBehind(m, t) ELSE ArbForSlot(m, t)
  /\ Hands(t)

IOArbForBus(m, t) ==
  /\ m \in IOModules
  /\ MayIssue(m, t)
  /\ IF waiting[m] > 0 THEN QueueBehind(m, t)
     ELSE IF CanStartNow(m, t) THEN StartNow(m, t) ELSE ArbForSlot(m, t)
  /\ Hands(t)

MMCStartSendToBus(t) ==
  /\ t = "REPLY"
  /\ MayIssue(MEM_CNTL, t)
  /\ IF waiting[MEM_CNTL] > 0 THEN QueueBehind(MEM_CNTL, t)
     ELSE IF CanStartNow(MEM_CNTL, t) THEN StartNow(MEM_CNTL, t)
     ELSE ArbForSlot(MEM_CNTL, t)
  /\ Hands(t)

\* MMC_send_reply: an UPGRADE completes without a transaction.
CompleteUpgrade ==
  /\ unanswered > 0
  /\ unanswered' = unanswered - 1
  /\ req_count' = req_count - 1
  /\ UNCHANGED <<clock, times, cur_req, cur_winner, chosen, queues, wb_count,
                 write_flowcontrol, error>>

\* MMC_dram_done of a write.
WriteDone ==
  /\ wb_count > 0
  /\ wb_count' = wb_count - 1
  /\ write_flowcontrol' = IF wb_count - 1 = MMC_writebacks - 2
                          THEN write_flowcontrol - 1 ELSE write_flowcontrol
  /\ UNCHANGED <<clock, times, current, chosen, queues, unanswered, error>>

-----------------------------------------------------------------------------
(* Arbitration *)

ArbitratorRuns(s) == /\ arbitrator = now
                     /\ state = s
                     /\ issuer = now => ~issuer_first

Waits(m)   == slot[m].req # "none"
Blocked(t) == \/ t = "REQUEST" /\ req_count = BUS_TOTAL_REQUESTS
              \/ t \in Writes /\ write_flowcontrol # 0
Turn(m)    == IF m >= rr_index THEN m - rr_index ELSE m + NUM_MODULES - rr_index
Candidates == {m \in 0 .. (NUM_MODULES - 1) : Waits(m) /\ ~Blocked(slot[m].req)}
Precedes(m, k) == \/ slot[m].time < slot[k].time
                  \/ slot[m].time = slot[k].time /\ Turn(m) <= Turn(k)
MMCWinsLast == Waits(MEM_CNTL) /\ Candidates = {}
MMCWins    == /\ Waits(MEM_CNTL)
              /\ \A m \in Candidates : slot[MEM_CNTL].time <= slot[m].time
Winners    == IF MMCWins THEN {MEM_CNTL}
              ELSE {m \in Candidates : \A k \in Candidates : Precedes(m, k)}

\* When the winner may start: the same driver goes on after its last
\* transaction, another one waits for the turnaround and the arbitration delay.
StartTimeAfterDelay(m) == Later(slot[m].time + BUS_ARBDELAY * BUS_FREQUENCY, NextBusCycle(now))
StartTime(m) ==
  Later(busy_until,
    Later(last_start_time + BUS_MINDELAY * BUS_FREQUENCY,
      IF m = cur_winner THEN Later(last_end_time, NextBusCycle(now))
      ELSE Later(last_end_time + BUS_TURNAROUND * BUS_FREQUENCY,
                 Later(slot[m].time + BUS_ARBDELAY * BUS_FREQUENCY, NextBusCycle(now)))))

\* Bus_arbitrator.  The index moves on whenever the memory controller does not win.
AdvanceIndexPastEnd == rr_index' = IF MMCWins THEN rr_index ELSE rr_index + 1
AdvanceIndex == rr_index' = IF MMCWins THEN rr_index
                            ELSE IF rr_index + 1 = NUM_MODULES THEN 0 ELSE rr_index + 1

ArbitratorChooses ==
  /\ ArbitratorRuns("ARBITRATING")
  /\ AdvanceIndex
  /\ \E m \in Winners :
       /\ next_winner' = m
       /\ next_req' = slot[m].req
       /\ slot' = [slot EXCEPT ![m] = EmptySlot]
       /\ next_start_time' = StartTime(m)
       /\ last_start_time' = StartTime(m)
       /\ last_end_time' = StartTime(m) + Duration(slot[m].req)
       /\ arbitrator' = StartTime(m)
  /\ arbwaiter_count' = arbwaiter_count - 1
  /\ state' = "WAKINGUP"
  /\ issuer_first' = TRUE
  /\ UNCHANGED <<now, issuer, performer, busy_until, current, waiters, waiting, memory, error>>

\* Everyone waiting is blocked: the arbitrator tries again in the next bus cycle.
ArbitratorRetries ==
  /\ ArbitratorRuns("ARBITRATING")
  /\ ~MMCWins /\ Candidates = {}
  /\ IF arbwaiter_count = 0
     THEN arbitrator' = -1 /\ UNCHANGED rr_index
     ELSE arbitrator' = now + BUS_FREQUENCY /\ AdvanceIndex
  /\ issuer_first' = TRUE
  /\ UNCHANGED <<now, state, issuer, performer, times, current, next_req, next_winner,
                 queues, memory, error>>

\* With waiters left the arbitrator is due at the end of the transaction.
NextArbitrationForOthers(count) ==
  IF arbwaiter_count > 0
  THEN state' = "ARBITRATING" /\ arbitrator' = now + Duration(next_req)
  ELSE state' = "IDLE" /\ arbitrator' = -1
NextArbitration(count) ==
  IF count > 0
  THEN state' = "ARBITRATING" /\ arbitrator' = now + Duration(next_req)
  ELSE state' = "IDLE" /\ arbitrator' = -1

\* Bus_wakeup_winner: the winner starts, and its next waiter takes the slot.
WakeupWinner ==
  /\ ArbitratorRuns("WAKINGUP")
  /\ LET m == next_winner
         more == waiting[m] > 1
     IN /\ BusStart(m, next_req,
                    (IF busy_until > now THEN {"busy_until > YS__Simtime"} ELSE {}) \cup
                    (IF more THEN SlotTaken(m) ELSE {}))
        /\ waiting' = [waiting EXCEPT ![m] = IF @ > 0 THEN @ - 1 ELSE 0]
        /\ IF more
           THEN TakeSlot(m, Head(waiters[m])) /\ waiters' = [waiters EXCEPT ![m] = Tail(@)]
           ELSE UNCHANGED <<slot, arbwaiter_count, waiters>>
  /\ next_winner' = -1
  /\ NextArbitration(arbwaiter_count')
  /\ issuer_first' = TRUE
  /\ UNCHANGED <<now, last_start_time, last_end_time, next_start_time, next_req, rr_index, memory>>

-----------------------------------------------------------------------------
(* The next-state relation *)

Next ==
  \/ Tick \/ Perform \/ Issuer
  \/ \E m \in Modules, t \in Type : CacheArbForBus(m, t) \/ IOArbForBus(m, t)
  \/ \E t \in Type : MMCStartSendToBus(t)
  \/ CompleteUpgrade \/ WriteDone
  \/ ArbitratorChooses \/ ArbitratorRetries \/ WakeupWinner

Spec == Init /\ [][Next]_vars

-----------------------------------------------------------------------------
(* Properties *)

EventTime == {-1} \cup Nat
Request   == Type \cup {"none"}
Errors    == {"scheduling scheduled bus issuer", "nothing to perform", "nothing to issue",
              "already has an arbitration waiter", "busy_until > YS__Simtime"}

\* Every variable of the bus and of its modules holds what its C counterpart may
\* hold; the counters may, as far as their types go, be negative.
TypeOK ==
  /\ now \in Nat /\ state \in {"IDLE", "ARBITRATING", "WAKINGUP"}
  /\ arbitrator \in EventTime /\ issuer \in EventTime /\ performer \in EventTime
  /\ issuer_first \in BOOLEAN
  /\ busy_until \in Nat /\ last_start_time \in Nat /\ last_end_time \in Nat
  /\ next_start_time \in Nat
  /\ cur_req \in Request /\ next_req \in Request
  /\ cur_winner \in Modules /\ next_winner \in Modules \cup {-1}
  /\ rr_index \in 0 .. (NUM_MODULES - 1) /\ req_count \in Int /\ write_flowcontrol \in Int
  /\ slot \in [Modules -> [req : Request, time : Nat]] /\ arbwaiter_count \in Int
  /\ waiters \in [Modules -> Seq(Type)] /\ waiting \in [Modules -> Nat]
  /\ unanswered \in Nat /\ wb_count \in Nat
  /\ error \in SUBSET Errors

\* None of the situations that stop the simulator with YS__errmsg arises: no
\* transaction starts while another one is on the bus, none ends or is performed
\* that never started, no module has two transactions in its slot, and Bus_main
\* never runs for a bus that is idle.
NoErrors == error = {} /\ (state = "IDLE" => arbitrator = -1)

\* No lost wake-up: while a module waits for the bus the arbitrator event is
\* scheduled, although three handlers skip scheduling it when it already is.
WaitersAreSeen == (\E m \in Modules : Waits(m)) => arbitrator # -1

\* A module's arbwaiters_count is what it has queued, in the slot, or chosen: the
\* count alone decides whether the next transaction queues or takes the slot.
WaitersAreCounted ==
  \A m \in Modules :
    waiting[m] = Len(waiters[m]) + (IF Waits(m) THEN 1 ELSE 0) + (IF next_winner = m THEN 1 ELSE 0)

\* req_count is the number of requests that have started and whose answer has
\* not, wherever that answer is held up: Bus_start and MMC_send_reply agree.
AnswersWaiting ==
  Cardinality({m \in Modules : slot[m].req \in Answers})
  + Cardinality(UNION {{m} \X {n \in 1 .. Len(waiters[m]) : waiters[m][n] \in Answers} :
                         m \in Modules})
  + (IF next_winner # -1 /\ next_req \in Answers THEN 1 ELSE 0)
RequestsBalance ==
  req_count = unanswered + AnswersWaiting
              + (IF cur_req = "REQUEST" /\ performer # -1 THEN 1 ELSE 0)

\* No more than BUS_TOTAL_REQUESTS requests are outstanding ("number of
\* outstanding split-transaction reqs."): the check when a request wins
\* arbitration still holds when it starts.
RequestLimit == req_count <= BUS_TOTAL_REQUESTS

\* The memory controller never buffers more writes than it has buffers for:
\* flow control is raised by one write and must hold back the next.
WriteBuffersSuffice == wb_count <= MMC_writebacks

\* A reply of the memory controller gets the bus within Patience cycles: it waits
\* for the transaction under way and for one chosen before it, and for nobody else.
Patience == (2 * Later(Cycles["WRITEBACK"], Cycles["REPLY"])
             + Later(BUS_ARBDELAY, BUS_TURNAROUND)) * BUS_FREQUENCY
RepliesAreServed == Waits(MEM_CNTL) => now - slot[MEM_CNTL].time <= Patience

\* "Driver changes: start driving BUS_TURNAROUND cycles after end of transaction".
DriverChangesCostTurnaround ==
  [][cur_winner' # cur_winner => now >= busy_until + BUS_TURNAROUND * BUS_FREQUENCY]_vars

\* "If the MMC wants to use the bus, it has highest priority."
MMCHasPriority ==
  [][next_winner' # next_winner /\ Waits(MEM_CNTL) => next_winner' \in {MEM_CNTL, -1}]_vars
=============================================================================
