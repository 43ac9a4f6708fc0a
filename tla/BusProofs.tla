----------------------------- MODULE BusProofs -----------------------------
(***************************************************************************)
(* The bus, for any number of modules and any timing parameters: it never  *)
(* meets one of its impossible situations (NoErrors), a waiting module is  *)
(* always seen by the arbitrator (WaitersAreSeen), the request count is    *)
(* what it counts (RequestsBalance), and whatever takes the requests or    *)
(* the buffered writes past their limit is a start as bus master.          *)
(*                                                                         *)
(* NoErrors is not inductive.  What keeps transactions apart is the order  *)
(* of the events: the issuer is due exactly at busy_until, the performer   *)
(* no later, and the wake-up of the chosen winner no earlier and, in the   *)
(* same cycle, behind the issuer.  What keeps the slots apart is that      *)
(* each module's count covers what it has in the slot or has just won.     *)
(* That is the invariant Inv; four more are inductive relative to it:      *)
(*   - arbwaiter_count is the number of occupied slots, and while it is    *)
(*     positive the arbitrator is scheduled;                               *)
(*   - a request that has started is on its way to memory or its answer is *)
(*     with the module that owes it, in that module's queue, in its slot,  *)
(*     or chosen (RequestsBalance);                                        *)
(*   - a request that has been chosen but has not started is already       *)
(*     within BUS_TOTAL_REQUESTS;                                          *)
(*   - flow control is raised exactly while at most one buffer is free, so *)
(*     the buffers cover the write on the bus and the one already chosen.  *)
(* The last two are about what the arbitrator checks.  An I/O module that  *)
(* is bus master starts without it (IO_in_master_state) and checks         *)
(* nothing: these starts, and no other step, break them.                   *)
(***************************************************************************)
EXTENDS Bus, FiniteSetTheorems, TLAPS

\* The performer, the issuer and the transaction on the bus.
EventsInOrder ==
  /\ issuer = -1 => cur_req = "none" /\ performer = -1 /\ busy_until <= now
  /\ issuer # -1 => cur_req # "none" /\ issuer = busy_until /\ now <= issuer
  /\ performer # -1 => now <= performer /\ performer <= issuer
  /\ arbitrator # -1 => now <= arbitrator

\* The arbitrator event and the winner it is going to wake up.
WinnerIsDue ==
  /\ state # "WAKINGUP" <=> next_winner = -1
  /\ state = "WAKINGUP" =>
       /\ next_req \in Type
       /\ arbitrator # -1
       /\ arbitrator = next_start_time
       /\ busy_until <= arbitrator
       /\ issuer = arbitrator => issuer_first

\* A module that has been chosen has nothing in the slot yet.
ChosenLeftSlot == next_winner # -1 => slot[next_winner].req = "none"

Inv == TypeOK /\ NoErrors /\ EventsInOrder /\ WinnerIsDue /\ WaitersAreCounted /\ ChosenLeftSlot

-----------------------------------------------------------------------------
(* Time *)

LEMMA NextBusCycleLater ==
  ASSUME NEW t \in Nat
  PROVE  NextBusCycle(t) \in Nat /\ NextBusCycle(t) >= t
<1>1. t % BUS_FREQUENCY \in 0 .. (BUS_FREQUENCY - 1)
  BY ConstantsAssumption
<1>2. (BUS_FREQUENCY - (t % BUS_FREQUENCY)) % BUS_FREQUENCY \in Nat
  BY <1>1, ConstantsAssumption
<1> QED BY <1>2 DEF NextBusCycle

LEMMA DurationPositive ==
  ASSUME NEW t \in Type
  PROVE  Duration(t) \in Nat /\ Duration(t) >= BUS_FREQUENCY /\ Duration(t) > 0
<1>1. Cycles[t] \in Nat /\ Cycles[t] >= 1 /\ BUS_FREQUENCY \in Nat /\ BUS_FREQUENCY >= 1
  BY ConstantsAssumption
<1>2. \A a, b \in Nat : a >= 1 /\ b >= 1 => a * b \in Nat /\ a * b >= b
  OBVIOUS
<1> QED BY <1>1, <1>2 DEF Duration

LEMMA LaterOfTwo ==
  ASSUME NEW a \in Nat, NEW b \in Nat
  PROVE  Later(a, b) \in Nat /\ Later(a, b) >= a /\ Later(a, b) >= b
BY DEF Later

LEMMA StartTimeLater ==
  ASSUME TypeOK, NEW m \in Modules
  PROVE  StartTime(m) \in Nat /\ StartTime(m) >= busy_until /\ StartTime(m) >= now
<1> DEFINE next  == NextBusCycle(now)
           same  == Later(last_end_time, next)
           ready == Later(slot[m].time + BUS_ARBDELAY * BUS_FREQUENCY, next)
           other == Later(last_end_time + BUS_TURNAROUND * BUS_FREQUENCY, ready)
           drive == IF m = cur_winner THEN same ELSE other
           apart == Later(last_start_time + BUS_MINDELAY * BUS_FREQUENCY, drive)
<1>1. next \in Nat /\ next >= now /\ now \in Nat
  BY NextBusCycleLater DEF TypeOK
<1>2. /\ last_start_time + BUS_MINDELAY * BUS_FREQUENCY \in Nat
      /\ last_end_time + BUS_TURNAROUND * BUS_FREQUENCY \in Nat
      /\ slot[m].time + BUS_ARBDELAY * BUS_FREQUENCY \in Nat
      /\ last_end_time \in Nat /\ busy_until \in Nat
  <2>1. /\ BUS_MINDELAY * BUS_FREQUENCY \in Nat
        /\ BUS_TURNAROUND * BUS_FREQUENCY \in Nat
        /\ BUS_ARBDELAY * BUS_FREQUENCY \in Nat
    BY ConstantsAssumption
  <2>2. /\ slot[m].time \in Nat /\ last_start_time \in Nat
        /\ last_end_time \in Nat /\ busy_until \in Nat
    BY DEF TypeOK
  <2> QED BY <2>1, <2>2
<1> HIDE DEF next
<1>3. same \in Nat /\ same >= next
  BY <1>1, <1>2, LaterOfTwo
<1>4. ready \in Nat /\ ready >= next
  BY <1>1, <1>2, LaterOfTwo
<1> HIDE DEF same, ready
<1>5. other \in Nat /\ other >= ready
  BY <1>2, <1>4, LaterOfTwo
<1> HIDE DEF other
<1>6. drive \in Nat /\ drive >= next
  BY <1>1, <1>3, <1>4, <1>5
<1> HIDE DEF drive
<1>7. apart \in Nat /\ apart >= drive
  BY <1>2, <1>6, LaterOfTwo
<1> HIDE DEF apart
<1>8. Later(busy_until, apart) \in Nat /\ Later(busy_until, apart) >= busy_until
      /\ Later(busy_until, apart) >= apart
  BY <1>2, <1>7, LaterOfTwo
<1>9. StartTime(m) = Later(busy_until, apart)
  BY DEF StartTime, apart, drive, same, other, ready, next
<1> QED BY <1>1, <1>2, <1>6, <1>7, <1>8, <1>9

LEMMA ModuleNumbers == /\ NUM_MODULES \in Nat \ {0}
                       /\ MEM_CNTL \in Modules
                       /\ Processors \subseteq Modules /\ IOModules \subseteq Modules
                       /\ -1 \notin Modules
BY ConstantsAssumption DEF NUM_MODULES, MEM_CNTL, Processors, IOModules, Modules

LEMMA CountOf ==
  ASSUME Inv, NEW m \in Modules
  PROVE  /\ waiters[m] \in Seq(Type) /\ Len(waiters[m]) \in Nat /\ waiting[m] \in Nat
         /\ waiting[m] = Len(waiters[m]) + (IF slot[m].req # "none" THEN 1 ELSE 0)
                         + (IF next_winner = m THEN 1 ELSE 0)
<1>1. waiters[m] \in Seq(Type) /\ waiting[m] \in Nat
  BY DEF Inv, TypeOK
<1>2. Len(waiters[m]) \in Nat
  BY <1>1
<1> QED BY <1>1, <1>2 DEF Inv, WaitersAreCounted, Waits

\* A module whose count is zero has nothing waiting and has not been chosen.
LEMMA NothingWaits ==
  ASSUME Inv, NEW m \in Modules, waiting[m] = 0
  PROVE  slot[m].req = "none" /\ next_winner # m /\ waiters[m] \in Seq(Type)
         /\ Len(waiters[m]) = 0
<1> DEFINE inSlot == IF slot[m].req # "none" THEN 1 ELSE 0
           picked == IF next_winner = m THEN 1 ELSE 0
<1>1. waiters[m] \in Seq(Type) /\ Len(waiters[m]) \in Nat
      /\ waiting[m] = Len(waiters[m]) + inSlot + picked
  BY CountOf
<1>2. inSlot \in 0 .. 1 /\ picked \in 0 .. 1
  OBVIOUS
<1> HIDE DEF inSlot, picked
<1>3. Len(waiters[m]) = 0 /\ inSlot = 0 /\ picked = 0
  BY <1>1, <1>2
<1> QED BY <1>1, <1>3 DEF inSlot, picked

\* An answer that is handed over is one that was still to be given.
LEMMA HandsType ==
  ASSUME Inv, NEW t \in Type, t \in Answers => unanswered > 0, Hands(t)
  PROVE  unanswered' \in Nat /\ wb_count' \in Nat /\ write_flowcontrol' \in Int
<1>1. unanswered \in Nat /\ wb_count \in Nat /\ write_flowcontrol \in Int
  BY DEF Inv, TypeOK
<1> QED BY <1>1 DEF Hands

-----------------------------------------------------------------------------
(* A module asks for the bus *)

\* Queueing behind one's own transactions disturbs only one's own queue.
LEMMA QueueBehindKeepsInv ==
  ASSUME Inv, NEW m \in Modules, NEW t \in Type, waiting[m] > 0,
         t \in Answers => unanswered > 0, QueueBehind(m, t), Hands(t)
  PROVE  Inv'
<1> USE DEF QueueBehind, CountWaiter, clock, times, current, chosen
<1> DEFINE bypass == t = "COHE_REPLY" /\ slot[m].req # "none"
<1>1. /\ waiters' \in [Modules -> Seq(Type)]
      /\ Len(waiters'[m]) = Len(waiters[m]) + 1
      /\ \A k \in Modules \ {m} : waiters'[k] = waiters[k]
  <2>1. waiters[m] \in Seq(Type) /\ slot[m].req \in Request
    BY DEF Inv, TypeOK
  <2>2. CASE bypass
    <3>1. slot[m].req \in Type
      BY <2>1, <2>2 DEF Request
    <3>2. <<slot[m].req>> \o waiters[m] \in Seq(Type)
          /\ Len(<<slot[m].req>> \o waiters[m]) = Len(waiters[m]) + 1
      BY <2>1, <3>1
    <3> QED BY <2>2, <3>2 DEF Inv, TypeOK
  <2>3. CASE ~bypass
    <3>1. waiters' = [waiters EXCEPT ![m] = Append(waiters[m], t)]
      BY <2>3
    <3>2. Append(waiters[m], t) \in Seq(Type) /\ Len(Append(waiters[m], t)) = Len(waiters[m]) + 1
      BY <2>1
    <3>3. waiters \in [Modules -> Seq(Type)]
      BY DEF Inv, TypeOK
    <3> HIDE DEF QueueBehind
    <3> QED BY <3>1, <3>2, <3>3
  <2> QED BY <2>2, <2>3
<1>2. /\ slot' \in [Modules -> [req : Request, time : Nat]]
      /\ \A k \in Modules : slot'[k].req = "none" <=> slot[k].req = "none"
  BY DEF Inv, TypeOK, Type, Request
<1>3. TypeOK'
  <2>1. unanswered' \in Nat /\ wb_count' \in Nat /\ write_flowcontrol' \in Int
    BY HandsType
  <2>2. waiting' = [waiting EXCEPT ![m] = waiting[m] + 1] /\ waiting \in [Modules -> Nat]
    BY DEF Inv, TypeOK
  <2>3. waiting' \in [Modules -> Nat]
    <3> HIDE DEF QueueBehind
    <3> QED BY <2>2
  <2> QED BY <1>1, <1>2, <2>1, <2>3 DEF Inv, TypeOK
<1>4. NoErrors' /\ EventsInOrder' /\ WinnerIsDue'
  BY DEF Inv, NoErrors, EventsInOrder, WinnerIsDue
<1>5. WaitersAreCounted'
  <2> SUFFICES ASSUME NEW k \in Modules
               PROVE  waiting'[k] = Len(waiters'[k]) + (IF slot'[k].req # "none" THEN 1 ELSE 0)
                                    + (IF next_winner' = k THEN 1 ELSE 0)
    BY DEF WaitersAreCounted, Waits
  <2>1. waiting[k] = Len(waiters[k]) + (IF slot[k].req # "none" THEN 1 ELSE 0)
                     + (IF next_winner = k THEN 1 ELSE 0)
        /\ Len(waiters[k]) \in Nat /\ waiting[k] \in Nat
    BY CountOf
  <2>2. slot'[k].req # "none" <=> slot[k].req # "none"
    BY <1>2
  <2>3. waiting'[k] = IF k = m THEN waiting[k] + 1 ELSE waiting[k]
    BY DEF Inv, TypeOK
  <2>4. Len(waiters'[k]) = IF k = m THEN Len(waiters[k]) + 1 ELSE Len(waiters[k])
    BY <1>1
  <2>5. next_winner' = next_winner
    OBVIOUS
  <2> HIDE DEF QueueBehind
  <2> DEFINE inSlot == IF slot[k].req # "none" THEN 1 ELSE 0
             picked == IF next_winner = k THEN 1 ELSE 0
  <2>6. inSlot \in 0 .. 1 /\ picked \in 0 .. 1
    OBVIOUS
  <2>7. waiting[k] = Len(waiters[k]) + inSlot + picked
    BY <2>1
  <2>8. inSlot = (IF slot'[k].req # "none" THEN 1 ELSE 0) /\ picked = IF next_winner' = k THEN 1 ELSE 0
    BY <2>2, <2>5
  <2> HIDE DEF inSlot, picked
  <2>9. waiting'[k] = Len(waiters'[k]) + inSlot + picked
    <3>1. Len(waiters[k]) \in Nat
      BY <2>1
    <3>2. CASE k = m
      <4>1. waiting'[k] = waiting[k] + 1 /\ Len(waiters'[k]) = Len(waiters[k]) + 1
        BY <2>3, <2>4, <3>2
      <4> QED BY <2>6, <2>7, <3>1, <4>1
    <3>3. CASE k # m
      <4>1. waiting'[k] = waiting[k] /\ Len(waiters'[k]) = Len(waiters[k])
        BY <2>3, <2>4, <3>3
      <4> QED BY <2>7, <4>1
    <3> QED BY <3>2, <3>3
  <2> QED BY <2>8, <2>9
<1>6. ChosenLeftSlot'
  BY <1>2 DEF Inv, TypeOK, ChosenLeftSlot
<1> QED BY <1>3, <1>4, <1>5, <1>6 DEF Inv

\* A module whose count is zero has nothing in its slot and has not been chosen.
LEMMA ArbForSlotKeepsInv ==
  ASSUME Inv, NEW m \in Modules, NEW t \in Type, waiting[m] = 0,
         t \in Answers => unanswered > 0, ArbForSlot(m, t), Hands(t)
  PROVE  Inv'
<1> USE DEF ArbForSlot, TakeSlot, CountWaiter, times, current, chosen
<1>1. ~Waits(m) /\ next_winner # m /\ waiters[m] \in Seq(Type) /\ Len(waiters[m]) = 0
  BY NothingWaits DEF Waits
<1>2. NextBusCycle(now) \in Nat
  BY NextBusCycleLater DEF Inv, TypeOK
<1>3. /\ slot' \in [Modules -> [req : Request, time : Nat]]
      /\ Waits(m)'
      /\ \A k \in Modules \ {m} : slot'[k] = slot[k]
  BY <1>2 DEF Inv, TypeOK, Waits, Type, Request
<1>4. Later(now, busy_until) \in Nat /\ Later(now, busy_until) >= now
  BY LaterOfTwo DEF Inv, TypeOK
<1>5. error' = {}
  BY <1>1 DEF Inv, NoErrors, SlotTaken, Waits
<1>6. \/ UNCHANGED <<state, arbitrator, issuer_first>> /\ arbitrator # -1
      \/ /\ arbitrator = -1 /\ state' = "ARBITRATING"
         /\ arbitrator' = Later(now, busy_until) /\ issuer_first' = TRUE
  BY DEF WakeArbitrator
<1>7. TypeOK'
  <2>1. /\ arbwaiter_count' \in Int /\ waiting' \in [Modules -> Nat]
    BY DEF Inv, TypeOK
  <2>3. unanswered' \in Nat /\ wb_count' \in Nat /\ write_flowcontrol' \in Int
    BY HandsType
  <2>2. /\ arbitrator' \in EventTime /\ state' \in {"IDLE", "ARBITRATING", "WAKINGUP"}
        /\ issuer_first' \in BOOLEAN
    BY <1>4, <1>6 DEF Inv, TypeOK, EventTime
  <2> QED BY <1>3, <1>5, <2>1, <2>2, <2>3 DEF Inv, TypeOK
<1>8. NoErrors'
  BY <1>5, <1>6 DEF Inv, NoErrors
<1>9. EventsInOrder'
  BY <1>4, <1>6 DEF Inv, EventsInOrder
<1>10. WinnerIsDue'
  BY <1>6 DEF Inv, WinnerIsDue
<1>11. WaitersAreCounted'
  <2> SUFFICES ASSUME NEW k \in Modules
               PROVE  waiting'[k] = Len(waiters'[k]) + (IF slot'[k].req # "none" THEN 1 ELSE 0)
                                    + (IF next_winner' = k THEN 1 ELSE 0)
    BY DEF WaitersAreCounted, Waits
  <2>1. waiting[k] = Len(waiters[k]) + (IF slot[k].req # "none" THEN 1 ELSE 0)
                     + (IF next_winner = k THEN 1 ELSE 0)
        /\ Len(waiters[k]) \in Nat /\ waiting[k] \in Nat
    BY CountOf
  <2>2. waiting'[k] = IF k = m THEN waiting[k] + 1 ELSE waiting[k]
    BY DEF Inv, TypeOK
  <2>3. k # m => slot'[k] = slot[k]
    BY <1>3
  <2>4. Len(waiters[k]) \in Nat /\ waiting[k] \in Nat /\ waiters' = waiters
        /\ next_winner' = next_winner
    BY DEF Inv, TypeOK
  <2>5. CASE k = m
    <3>1. waiting[k] = 0 /\ Len(waiters'[k]) = 0 /\ next_winner' # k /\ slot'[k].req # "none"
      BY <1>1, <1>3, <2>4, <2>5 DEF Waits
    <3>2. waiting'[k] = 1
      BY <2>2, <2>5, <3>1
    <3> HIDE DEF ArbForSlot, TakeSlot
    <3> QED BY <3>1, <3>2
  <2>6. CASE k # m
    BY <2>1, <2>2, <2>3, <2>4, <2>6
  <2> QED BY <2>5, <2>6
<1>12. ChosenLeftSlot'
  BY <1>1, <1>3 DEF Inv, TypeOK, ChosenLeftSlot
<1> QED BY <1>7, <1>8, <1>9, <1>10, <1>11, <1>12 DEF Inv

\* A start without arbitration ends before the chosen winner is due.
LEMMA StartNowKeepsInv ==
  ASSUME Inv, NEW m \in Modules, NEW t \in Type, CanStartNow(m, t),
         t \in Answers => unanswered > 0, StartNow(m, t), Hands(t)
  PROVE  Inv'
<1> USE DEF StartNow, BusStart, CountAfterStart, chosen, queues
<1>1. Duration(t) \in Nat /\ Duration(t) >= BUS_FREQUENCY /\ BUS_FREQUENCY \in Nat \ {0}
  BY DurationPositive, ConstantsAssumption
<1>2. issuer = -1 /\ now \in Nat /\ now + Duration(t) \in Nat /\ now + BUS_FREQUENCY \in Nat
  BY <1>1 DEF CanStartNow, Inv, TypeOK
<1>3. error' = {}
  BY <1>2 DEF Inv, NoErrors
<1>4. performer' \in {now + BUS_FREQUENCY, now + Duration(t)}
  OBVIOUS
<1>5. TypeOK'
  <2>1. cur_req' \in Request /\ cur_winner' \in Modules
    BY DEF Request
  <2>2. unanswered' \in Nat /\ wb_count' \in Nat /\ write_flowcontrol' \in Int
    BY HandsType
  <2>3. req_count' \in Int
    <3>1. req_count' \in {req_count, req_count + 1, req_count - 1}
      OBVIOUS
    <3>2. req_count \in Int
      BY DEF Inv, TypeOK
    <3> HIDE DEF StartNow, BusStart, CountAfterStart
    <3> QED BY <3>1, <3>2
  <2>4. /\ busy_until' \in Nat /\ performer' \in EventTime /\ issuer' \in EventTime
        /\ issuer_first' \in BOOLEAN
    BY <1>2, <1>4 DEF EventTime
  <2>5. UNCHANGED <<now, state, arbitrator, last_start_time, last_end_time, next_start_time,
                    next_req, next_winner, rr_index, slot, arbwaiter_count, waiters, waiting>>
    OBVIOUS
  <2> HIDE DEF StartNow, BusStart, CountAfterStart, chosen, queues
  <2> QED BY <1>3, <2>1, <2>2, <2>3, <2>4, <2>5 DEF Inv, TypeOK
<1>6. NoErrors'
  BY <1>3 DEF Inv, NoErrors
<1>7. EventsInOrder'
  BY <1>1, <1>2, <1>4 DEF Inv, EventsInOrder, Type
<1>8. WinnerIsDue'
  BY <1>1, <1>2 DEF Inv, WinnerIsDue, CanStartNow, TypeOK
<1>9. WaitersAreCounted' /\ ChosenLeftSlot'
  BY DEF Inv, WaitersAreCounted, ChosenLeftSlot, Waits
<1> QED BY <1>5, <1>6, <1>7, <1>8, <1>9 DEF Inv

-----------------------------------------------------------------------------
(* Arbitration *)

\* The winner waits, in a slot that holds a transaction.
LEMMA WinnersWait ==
  ASSUME TypeOK, NEW m \in Winners
  PROVE  m \in Modules /\ Waits(m) /\ slot[m].req \in Type
<1>1. m \in Modules /\ Waits(m)
  BY ModuleNumbers DEF Winners, Candidates, MMCWins, Modules
<1> QED BY <1>1 DEF TypeOK, Waits, Request

LEMMA IndexInRange ==
  ASSUME TypeOK, AdvanceIndex
  PROVE  rr_index' \in 0 .. (NUM_MODULES - 1)
BY ModuleNumbers DEF TypeOK, AdvanceIndex

LEMMA ArbitratorChoosesKeepsInv ==
  ASSUME Inv, ArbitratorChooses
  PROVE  Inv'
<1> USE DEF ArbitratorChooses, ArbitratorRuns, current, memory
<1>1. PICK m \in Winners :
        /\ next_winner' = m
        /\ next_req' = slot[m].req
        /\ slot' = [slot EXCEPT ![m] = EmptySlot]
        /\ next_start_time' = StartTime(m)
        /\ last_start_time' = StartTime(m)
        /\ last_end_time' = StartTime(m) + Duration(slot[m].req)
        /\ arbitrator' = StartTime(m)
  OBVIOUS
<1>2. m \in Modules /\ Waits(m) /\ slot[m].req \in Type
  BY WinnersWait DEF Inv
<1>3. /\ StartTime(m) \in Nat /\ StartTime(m) >= busy_until /\ StartTime(m) >= now
      /\ Duration(slot[m].req) \in Nat
  BY <1>2, StartTimeLater, DurationPositive DEF Inv
<1>4. next_winner = -1
  BY DEF Inv, WinnerIsDue
<1>5. /\ slot' \in [Modules -> [req : Request, time : Nat]]
      /\ ~Waits(m)' /\ slot'[m].req = "none"
      /\ \A k \in Modules \ {m} : slot'[k] = slot[k]
  BY <1>1, <1>2 DEF Inv, TypeOK, Waits, EmptySlot, Request
<1>6. TypeOK'
  <2>1. rr_index' \in 0 .. (NUM_MODULES - 1)
    BY IndexInRange DEF Inv
  <2>2. last_end_time' \in Nat /\ next_req' \in Request
    BY <1>1, <1>2, <1>3 DEF Request
  <2> QED BY <1>1, <1>2, <1>3, <1>5, <2>1, <2>2 DEF Inv, TypeOK, EventTime
<1>7. NoErrors'
  BY DEF Inv, NoErrors
<1>8. EventsInOrder'
  BY <1>1, <1>3 DEF Inv, EventsInOrder
<1>9. WinnerIsDue'
  <2>1. next_winner' # -1
    BY <1>1, <1>2, ModuleNumbers
  <2>2. arbitrator' # -1 /\ busy_until' <= arbitrator'
    BY <1>1, <1>3 DEF Inv, TypeOK
  <2> QED BY <1>1, <1>2, <2>1, <2>2 DEF WinnerIsDue
<1>10. WaitersAreCounted'
  <2> SUFFICES ASSUME NEW k \in Modules
               PROVE  waiting'[k] = Len(waiters'[k]) + (IF slot'[k].req # "none" THEN 1 ELSE 0)
                                    + (IF next_winner' = k THEN 1 ELSE 0)
    BY DEF WaitersAreCounted, Waits
  <2>1. waiting[k] = Len(waiters[k]) + (IF slot[k].req # "none" THEN 1 ELSE 0)
                     + (IF next_winner = k THEN 1 ELSE 0)
        /\ Len(waiters[k]) \in Nat /\ waiting[k] \in Nat
    BY CountOf
  <2>2. waiting' = waiting /\ waiters' = waiters /\ Len(waiters[k]) \in Nat /\ k # -1
    BY ModuleNumbers, CountOf
  <2>3. k # m => slot'[k] = slot[k]
    BY <1>5
  <2>4. CASE k = m
    <3>1. next_winner # k /\ next_winner' = k
      BY <1>1, <1>4, <2>2, <2>4
    <3>2. slot[k].req # "none" /\ ~(slot'[k].req # "none")
      BY <1>2, <1>5, <2>4 DEF Waits
    <3>3. waiting[k] = Len(waiters[k]) + 1
      BY <2>1, <3>1, <3>2
    <3> HIDE DEF ArbitratorChooses
    <3> QED BY <2>2, <3>1, <3>2, <3>3
  <2>5. CASE k # m
    BY <1>1, <1>4, <2>1, <2>2, <2>3, <2>5
  <2> QED BY <2>4, <2>5
<1>11. ChosenLeftSlot'
  BY <1>1, <1>5 DEF ChosenLeftSlot
<1> QED BY <1>6, <1>7, <1>8, <1>9, <1>10, <1>11 DEF Inv

LEMMA ArbitratorRetriesKeepsInv ==
  ASSUME Inv, ArbitratorRetries
  PROVE  Inv'
<1> USE DEF ArbitratorRetries, ArbitratorRuns, times, current, queues, memory
<1>1. /\ rr_index' \in 0 .. (NUM_MODULES - 1)
      /\ arbitrator' \in {-1, now + BUS_FREQUENCY}
  BY IndexInRange DEF Inv, TypeOK
<1>2. now \in Nat /\ now + BUS_FREQUENCY \in Nat /\ now + BUS_FREQUENCY >= now
  BY ConstantsAssumption DEF Inv, TypeOK
<1>3. TypeOK'
  BY <1>1, <1>2 DEF Inv, TypeOK, EventTime
<1>4. NoErrors' /\ WinnerIsDue' /\ ChosenLeftSlot'
  BY DEF Inv, NoErrors, WinnerIsDue, ChosenLeftSlot
<1>5. EventsInOrder'
  BY <1>1, <1>2 DEF Inv, EventsInOrder
<1>6. WaitersAreCounted'
  BY DEF Inv, WaitersAreCounted, Waits
<1> QED BY <1>3, <1>4, <1>5, <1>6 DEF Inv

\* The winner is woken after the issuer of the last transaction has run: no
\* transaction is on the bus.
LEMMA WakeupWinnerKeepsInv ==
  ASSUME Inv, WakeupWinner
  PROVE  Inv'
<1> DEFINE m    == next_winner
           more == waiting[m] > 1
           end  == now + Duration(next_req)
<1>1. /\ arbitrator = now /\ state = "WAKINGUP"
      /\ issuer = now => ~issuer_first
  BY DEF WakeupWinner, ArbitratorRuns
<1>2. /\ BusStart(m, next_req,
                  (IF busy_until > now THEN {"busy_until > YS__Simtime"} ELSE {}) \cup
                  (IF more THEN SlotTaken(m) ELSE {}))
      /\ waiting' = [waiting EXCEPT ![m] = IF @ > 0 THEN @ - 1 ELSE 0]
      /\ IF more
         THEN TakeSlot(m, Head(waiters[m])) /\ waiters' = [waiters EXCEPT ![m] = Tail(@)]
         ELSE UNCHANGED <<slot, arbwaiter_count, waiters>>
  BY DEF WakeupWinner
<1>3. /\ next_winner' = -1 /\ issuer_first' = TRUE
      /\ \/ arbitrator' = -1 /\ state' = "IDLE"
         \/ arbitrator' = end /\ state' = "ARBITRATING"
      /\ UNCHANGED <<now, last_start_time, last_end_time, next_start_time, next_req, rr_index,
                     unanswered, wb_count, write_flowcontrol>>
  BY DEF WakeupWinner, NextArbitration, memory
<1>4. m \in Modules /\ next_req \in Type /\ now \in Nat /\ slot[m].req = "none" /\ ~Waits(m)
  BY <1>1 DEF Inv, TypeOK, WinnerIsDue, ChosenLeftSlot, Waits
<1>5. issuer = -1 /\ busy_until <= now
  BY <1>1, <1>4 DEF Inv, TypeOK, EventTime, EventsInOrder, WinnerIsDue
<1>6. /\ Duration(next_req) \in Nat /\ Duration(next_req) >= BUS_FREQUENCY
      /\ BUS_FREQUENCY \in Nat /\ BUS_FREQUENCY > 0
  BY <1>4, DurationPositive, ConstantsAssumption
<1>7. end \in Nat /\ end > now /\ now + BUS_FREQUENCY \in Nat
      /\ now + BUS_FREQUENCY <= end /\ now + BUS_FREQUENCY > now
  BY <1>4, <1>6
<1> HIDE DEF end, m, more
<1>8. /\ cur_req' = next_req /\ cur_winner' = m /\ busy_until' = end /\ issuer' = end
      /\ performer' \in {now + BUS_FREQUENCY, end}
  BY <1>2 DEF BusStart, end
<1>9. req_count' \in Int
  <2>1. req_count \in Int /\ req_count + 1 \in Int /\ req_count - 1 \in Int
    BY DEF Inv, TypeOK
  <2>2. req_count' \in {req_count, req_count + 1, req_count - 1}
    BY <1>2, ZenonT(30) DEF BusStart, CountAfterStart
  <2> QED BY <2>1, <2>2
<1>10. error' = {}
  <2>1. ~(busy_until > now)
    BY <1>4, <1>5 DEF Inv, TypeOK
  <2>2. SlotTaken(m) = {}
    BY <1>4 DEF SlotTaken, Waits
  <2> QED BY <1>2, <1>5, <2>1, <2>2 DEF BusStart, Inv, NoErrors
<1>11. waiting[m] = Len(waiters[m]) + 1 /\ waiters[m] \in Seq(Type) /\ Len(waiters[m]) \in Nat
  <2>1. /\ waiters[m] \in Seq(Type) /\ Len(waiters[m]) \in Nat
        /\ waiting[m] = Len(waiters[m]) + (IF slot[m].req # "none" THEN 1 ELSE 0)
                        + (IF next_winner = m THEN 1 ELSE 0)
    BY <1>4, CountOf
  <2>2. next_winner = m /\ slot[m].req = "none"
    BY <1>4 DEF m
  <2> QED BY <2>1, <2>2
<1>12. waiting' \in [Modules -> Nat] /\ waiting'[m] = Len(waiters[m])
       /\ \A k \in Modules \ {m} : waiting'[k] = waiting[k]
  <2>1. waiting \in [Modules -> Nat]
    BY DEF Inv, TypeOK
  <2>2. waiting[m] > 0 /\ waiting[m] - 1 = Len(waiters[m]) /\ Len(waiters[m]) \in Nat
    BY <1>11
  <2>3. waiting' = [waiting EXCEPT ![m] = IF waiting[m] > 0 THEN waiting[m] - 1 ELSE 0]
    BY <1>2
  <2>4. waiting' = [waiting EXCEPT ![m] = Len(waiters[m])]
    BY <2>2, <2>3
  <2> QED BY <1>4, <2>1, <2>2, <2>4
<1>13. /\ slot' \in [Modules -> [req : Request, time : Nat]]
       /\ waiters' \in [Modules -> Seq(Type)]
       /\ arbwaiter_count' \in Int
       /\ \A k \in Modules \ {m} : slot'[k] = slot[k] /\ waiters'[k] = waiters[k]
       /\ Len(waiters[m]) = Len(waiters'[m]) + (IF slot'[m].req # "none" THEN 1 ELSE 0)
  <2>0. /\ slot \in [Modules -> [req : Request, time : Nat]]
        /\ waiters \in [Modules -> Seq(Type)] /\ arbwaiter_count \in Int
    BY DEF Inv, TypeOK
  <2>1. CASE more
    <3>1. Len(waiters[m]) > 0
      BY <1>11, <2>1 DEF more
    <3>2. Head(waiters[m]) \in Type /\ Tail(waiters[m]) \in Seq(Type)
          /\ Len(Tail(waiters[m])) = Len(waiters[m]) - 1
      BY <1>11, <3>1
    <3>3. NextBusCycle(now) \in Nat
      BY <1>4, NextBusCycleLater
    <3>4. /\ slot' = [slot EXCEPT ![m] = [req |-> Head(waiters[m]), time |-> NextBusCycle(now)]]
          /\ waiters' = [waiters EXCEPT ![m] = Tail(@)]
          /\ arbwaiter_count' = arbwaiter_count + 1
      BY <1>2, <2>1 DEF TakeSlot
    <3>5. slot'[m].req \in Type /\ slot'[m].req # "none"
      BY <1>4, <2>0, <3>2, <3>4 DEF Type
    <3>6. slot' \in [Modules -> [req : Request, time : Nat]]
      BY <2>0, <3>2, <3>3, <3>4 DEF Request
    <3>7. waiters' \in [Modules -> Seq(Type)] /\ waiters'[m] = Tail(waiters[m])
      BY <1>4, <2>0, <3>2, <3>4
    <3> QED BY <1>11, <2>0, <3>2, <3>4, <3>5, <3>6, <3>7
  <2>2. CASE ~more
    <3>1. slot' = slot /\ arbwaiter_count' = arbwaiter_count /\ waiters' = waiters
      BY <1>2, <2>2
    <3>2. Len(waiters[m]) = 0
      BY <1>11, <2>2 DEF more
    <3> QED BY <1>4, <2>0, <3>1, <3>2 DEF Waits
  <2> QED BY <2>1, <2>2
<1>14. TypeOK'
  <2>1. cur_req' \in Request /\ cur_winner' \in Modules
    BY <1>4, <1>8 DEF Request
  <2>2. /\ arbitrator' \in EventTime /\ issuer' \in EventTime /\ performer' \in EventTime
        /\ busy_until' \in Nat /\ state' \in {"IDLE", "ARBITRATING", "WAKINGUP"}
    BY <1>3, <1>7, <1>8 DEF EventTime
  <2> QED BY <1>3, <1>9, <1>10, <1>12, <1>13, <2>1, <2>2 DEF Inv, TypeOK
<1>15. NoErrors'
  BY <1>3, <1>10 DEF NoErrors
<1>16. EventsInOrder'
  <2>1. cur_req' # "none"
    BY <1>4, <1>8 DEF Type
  <2>2. issuer' # -1 /\ now' = now
    BY <1>3, <1>7, <1>8
  <2> QED BY <1>3, <1>4, <1>7, <1>8, <2>1, <2>2 DEF EventsInOrder
<1>17. WinnerIsDue' /\ ChosenLeftSlot'
  BY <1>3 DEF WinnerIsDue, ChosenLeftSlot
<1>18. WaitersAreCounted'
  <2> SUFFICES ASSUME NEW k \in Modules
               PROVE  waiting'[k] = Len(waiters'[k]) + (IF slot'[k].req # "none" THEN 1 ELSE 0)
                                    + (IF next_winner' = k THEN 1 ELSE 0)
    BY DEF WaitersAreCounted, Waits
  <2>1. waiting[k] = Len(waiters[k]) + (IF slot[k].req # "none" THEN 1 ELSE 0)
                     + (IF next_winner = k THEN 1 ELSE 0)
        /\ Len(waiters[k]) \in Nat
    BY CountOf
  <2>2. next_winner' # k
    BY <1>3, ModuleNumbers
  <2>3. Len(waiters'[k]) \in Nat
    BY <1>13
  <2>4. CASE k = m
    BY <1>12, <1>13, <2>2, <2>3, <2>4
  <2>5. CASE k # m
    <3>1. next_winner # k /\ waiting'[k] = waiting[k] /\ waiters'[k] = waiters[k]
          /\ slot'[k] = slot[k]
      BY <1>12, <1>13, <2>5 DEF m
    <3> QED BY <2>1, <2>2, <3>1
  <2> QED BY <2>4, <2>5
<1> QED BY <1>14, <1>15, <1>16, <1>17, <1>18 DEF Inv

-----------------------------------------------------------------------------
(* The invariant *)

LEMMA InitInv == Init => Inv
<1> SUFFICES ASSUME Init PROVE Inv
  OBVIOUS
<1> USE ModuleNumbers DEF Init
<1>1. TypeOK
  BY ConstantsAssumption DEF TypeOK, EventTime, Request, EmptySlot, Modules
<1>2. NoErrors /\ EventsInOrder /\ WinnerIsDue /\ ChosenLeftSlot
  BY DEF NoErrors, EventsInOrder, WinnerIsDue, ChosenLeftSlot
<1>3. WaitersAreCounted
  BY DEF WaitersAreCounted, Waits, EmptySlot
<1> QED BY <1>1, <1>2, <1>3 DEF Inv

LEMMA NextInv == Inv /\ [Next]_vars => Inv'
<1> SUFFICES ASSUME Inv, [Next]_vars PROVE Inv'
  OBVIOUS
<1> USE DEF clock, times, current, chosen, queues, memory
<1>1. CASE Tick
  <2> USE <1>1 DEF Tick
  <2>1. TypeOK' /\ EventsInOrder'
    BY DEF Inv, TypeOK, EventTime, EventsInOrder
  <2>2. NoErrors' /\ WinnerIsDue' /\ ChosenLeftSlot'
    BY DEF Inv, NoErrors, WinnerIsDue, ChosenLeftSlot
  <2>3. WaitersAreCounted'
    BY DEF Inv, WaitersAreCounted, Waits
  <2> QED BY <2>1, <2>2, <2>3 DEF Inv
<1>2. CASE Perform
  <2> USE <1>2 DEF Perform
  <2>1. performer # -1 /\ cur_req # "none" /\ error' = {}
    <3>0. now \in Nat /\ performer = now
      BY DEF Inv, TypeOK
    <3> HIDE DEF Perform
    <3>1. performer # -1
      BY <3>0
    <3>2. cur_req # "none" /\ error = {}
      BY <3>1 DEF Inv, EventsInOrder, NoErrors, TypeOK, EventTime
    <3> QED BY <3>1, <3>2 DEF Perform
  <2>2. TypeOK'
    BY <2>1 DEF Inv, TypeOK, EventTime
  <2>3. EventsInOrder'
    BY DEF Inv, EventsInOrder
  <2>4. NoErrors' /\ WinnerIsDue' /\ ChosenLeftSlot'
    BY <2>1 DEF Inv, NoErrors, WinnerIsDue, ChosenLeftSlot
  <2>5. WaitersAreCounted'
    BY DEF Inv, WaitersAreCounted, Waits
  <2> QED BY <2>2, <2>3, <2>4, <2>5 DEF Inv
<1>3. CASE Issuer
  <2> USE <1>3 DEF Issuer
  <2>1. /\ cur_req # "none" /\ error' = {}
        /\ performer = -1 /\ busy_until = now
    <3>0. now \in Nat /\ performer \in EventTime /\ issuer = now /\ performer # now
      BY DEF Inv, TypeOK
    <3> HIDE DEF Issuer
    <3>1. now \in Nat /\ performer \in EventTime /\ issuer # -1
      BY <3>0
    <3>2. busy_until = now /\ cur_req # "none"
      BY <3>0, <3>1 DEF Inv, EventsInOrder
    <3>3. performer = -1
      BY <3>0, <3>1 DEF Inv, EventsInOrder, EventTime
    <3> QED BY <3>2, <3>3 DEF Inv, NoErrors, Issuer
  <2>2. TypeOK'
    BY <2>1 DEF Inv, TypeOK, EventTime, Request
  <2>3. EventsInOrder'
    BY <2>1 DEF Inv, TypeOK, EventsInOrder
  <2>4. NoErrors' /\ WinnerIsDue' /\ ChosenLeftSlot'
    BY <2>1 DEF Inv, NoErrors, WinnerIsDue, ChosenLeftSlot
  <2>5. WaitersAreCounted'
    BY DEF Inv, WaitersAreCounted, Waits
  <2> QED BY <2>2, <2>3, <2>4, <2>5 DEF Inv
<1>4. ASSUME NEW m \in Modules, NEW t \in Type, CacheArbForBus(m, t)
      PROVE  Inv'
  <2>1. Hands(t) /\ (t \in Answers => unanswered > 0) /\ waiting[m] \in Nat
    BY <1>4 DEF CacheArbForBus, MayIssue, Inv, TypeOK
  <2>2. CASE waiting[m] > 0
    BY <1>4, <2>1, <2>2, QueueBehindKeepsInv DEF CacheArbForBus
  <2>3. CASE ~(waiting[m] > 0)
    BY <1>4, <2>1, <2>3, ArbForSlotKeepsInv DEF CacheArbForBus
  <2> QED BY <2>2, <2>3
<1>5. ASSUME NEW m \in Modules, NEW t \in Type, IOArbForBus(m, t)
      PROVE  Inv'
  <2>1. Hands(t) /\ (t \in Answers => unanswered > 0) /\ waiting[m] \in Nat
    BY <1>5 DEF IOArbForBus, MayIssue, Inv, TypeOK
  <2>2. CASE waiting[m] > 0
    BY <1>5, <2>1, <2>2, QueueBehindKeepsInv DEF IOArbForBus
  <2>3. CASE ~(waiting[m] > 0) /\ CanStartNow(m, t)
    BY <1>5, <2>1, <2>3, StartNowKeepsInv DEF IOArbForBus
  <2>4. CASE ~(waiting[m] > 0) /\ ~CanStartNow(m, t)
    BY <1>5, <2>1, <2>4, ArbForSlotKeepsInv DEF IOArbForBus
  <2> QED BY <2>2, <2>3, <2>4
<1>6. ASSUME NEW t \in Type, MMCStartSendToBus(t)
      PROVE  Inv'
  <2>1. Hands(t) /\ (t \in Answers => unanswered > 0) /\ waiting[MEM_CNTL] \in Nat
        /\ MEM_CNTL \in Modules
    BY <1>6, ModuleNumbers DEF MMCStartSendToBus, MayIssue, Inv, TypeOK
  <2>2. CASE waiting[MEM_CNTL] > 0
    BY <1>6, <2>1, <2>2, QueueBehindKeepsInv DEF MMCStartSendToBus
  <2>3. CASE ~(waiting[MEM_CNTL] > 0) /\ CanStartNow(MEM_CNTL, t)
    BY <1>6, <2>1, <2>3, StartNowKeepsInv DEF MMCStartSendToBus
  <2>4. CASE ~(waiting[MEM_CNTL] > 0) /\ ~CanStartNow(MEM_CNTL, t)
    BY <1>6, <2>1, <2>4, ArbForSlotKeepsInv DEF MMCStartSendToBus
  <2> QED BY <2>2, <2>3, <2>4
<1>7. CASE CompleteUpgrade
  <2> USE <1>7 DEF CompleteUpgrade
  <2>1. TypeOK'
    BY DEF Inv, TypeOK
  <2>2. NoErrors' /\ EventsInOrder' /\ WinnerIsDue' /\ ChosenLeftSlot'
    BY DEF Inv, NoErrors, EventsInOrder, WinnerIsDue, ChosenLeftSlot
  <2>3. WaitersAreCounted'
    BY DEF Inv, WaitersAreCounted, Waits
  <2> QED BY <2>1, <2>2, <2>3 DEF Inv
<1>8. CASE WriteDone
  <2> USE <1>8 DEF WriteDone
  <2>1. TypeOK'
    BY DEF Inv, TypeOK
  <2>2. NoErrors' /\ EventsInOrder' /\ WinnerIsDue' /\ ChosenLeftSlot'
    BY DEF Inv, NoErrors, EventsInOrder, WinnerIsDue, ChosenLeftSlot
  <2>3. WaitersAreCounted'
    BY DEF Inv, WaitersAreCounted, Waits
  <2> QED BY <2>1, <2>2, <2>3 DEF Inv
<1>9. CASE ArbitratorChooses
  BY <1>9, ArbitratorChoosesKeepsInv
<1>10. CASE ArbitratorRetries
  BY <1>10, ArbitratorRetriesKeepsInv
<1>11. CASE WakeupWinner
  BY <1>11, WakeupWinnerKeepsInv
<1>12. CASE UNCHANGED vars
  <2> USE <1>12 DEF vars
  <2>1. TypeOK'
    BY DEF Inv, TypeOK
  <2>2. NoErrors' /\ EventsInOrder' /\ WinnerIsDue' /\ ChosenLeftSlot'
    BY DEF Inv, NoErrors, EventsInOrder, WinnerIsDue, ChosenLeftSlot
  <2>3. WaitersAreCounted'
    BY DEF Inv, WaitersAreCounted, Waits
  <2> QED BY <2>1, <2>2, <2>3 DEF Inv
<1> QED BY <1>1, <1>2, <1>3, <1>4, <1>5, <1>6, <1>7, <1>8, <1>9, <1>10, <1>11, <1>12 DEF Next

LEMMA AlwaysInv == Spec => []Inv
BY InitInv, NextInv, PTL DEF Spec

\* Every variable keeps its type (the BUS structure and the modules' queues).
THEOREM TypeCorrect == Spec => []TypeOK
<1>1. Inv => TypeOK
  BY DEF Inv
<1> QED BY <1>1, AlwaysInv, PTL

\* No handler of the bus ever reaches its YS__errmsg, for any number of
\* processors and I/O modules and any delays: transactions do not overlap.
THEOREM BusSafe == Spec => []NoErrors
<1>1. Inv => NoErrors
  BY DEF Inv
<1> QED BY <1>1, AlwaysInv, PTL

\* The counts by which modules decide whether to queue are right.
THEOREM WaitersCounted == Spec => []WaitersAreCounted
<1>1. Inv => WaitersAreCounted
  BY DEF Inv
<1> QED BY <1>1, AlwaysInv, PTL

-----------------------------------------------------------------------------
(* Counting the answers in the modules' queues *)

\* Where the answers are in one queue, and in all of them.
Positions(w) == {n \in 1 .. Len(w) : w[n] \in Answers}
Queued(f)    == UNION {{m} \X Positions(f[m]) : m \in Modules}

LEMMA FiniteModules ==
  ASSUME NEW S \in SUBSET Modules
  PROVE  IsFiniteSet(S) /\ Cardinality(S) \in Nat
<1>1. IsFiniteSet(Modules)
  BY FS_Interval, ModuleNumbers DEF Modules
<1> QED BY <1>1, FS_Subset, FS_CardinalityType

LEMMA FinitePositions ==
  ASSUME NEW w \in Seq(Type)
  PROVE  IsFiniteSet(Positions(w)) /\ Cardinality(Positions(w)) \in Nat
<1>1. Len(w) \in Nat
  OBVIOUS
<1>2. IsFiniteSet(1 .. Len(w))
  BY <1>1, FS_Interval
<1>3. Positions(w) \in SUBSET (1 .. Len(w))
  BY DEF Positions
<1> QED BY <1>2, <1>3, FS_Subset, FS_CardinalityType

LEMMA PositionsOfEmpty == Positions(<<>>) = {} /\ Cardinality(Positions(<<>>)) = 0
<1>1. Positions(<<>>) = {}
  BY DEF Positions
<1> QED BY <1>1, FS_EmptySet

LEMMA PositionsOfAppend ==
  ASSUME NEW w \in Seq(Type), NEW t \in Type
  PROVE  Cardinality(Positions(Append(w, t))) =
           Cardinality(Positions(w)) + (IF t \in Answers THEN 1 ELSE 0)
<1> DEFINE u == Append(w, t)
           end == Len(w) + 1
<1>1. /\ Len(w) \in Nat /\ Len(u) = end /\ u[end] = t
      /\ \A n \in 1 .. Len(w) : u[n] = w[n]
  OBVIOUS
<1>2. IsFiniteSet(Positions(w)) /\ Cardinality(Positions(w)) \in Nat
  BY FinitePositions
<1>3. CASE t \in Answers
  <2>1. Positions(u) = Positions(w) \cup {end} /\ end \notin Positions(w)
    BY <1>1, <1>3 DEF Positions
  <2> QED BY <1>2, <1>3, <2>1, FS_AddElement
<1>4. CASE t \notin Answers
  <2>1. Positions(u) = Positions(w)
    BY <1>1, <1>4 DEF Positions
  <2> QED BY <1>2, <1>4, <2>1
<1> QED BY <1>3, <1>4

\* Prepending moves every position by one.
LEMMA PositionsOfPrepend ==
  ASSUME NEW w \in Seq(Type), NEW t \in Type
  PROVE  Cardinality(Positions(<<t>> \o w)) =
           Cardinality(Positions(w)) + (IF t \in Answers THEN 1 ELSE 0)
<1> DEFINE u == <<t>> \o w
           moved == {n \in 2 .. Len(w) + 1 : u[n] \in Answers}
           f == [n \in Positions(w) |-> n + 1]
<1>1. /\ Len(w) \in Nat /\ u \in Seq(Type) /\ Len(u) = Len(w) + 1 /\ u[1] = t
      /\ \A n \in 1 .. Len(w) : u[n + 1] = w[n]
  OBVIOUS
<1>2. IsFiniteSet(Positions(w)) /\ Cardinality(Positions(w)) \in Nat
  BY FinitePositions
<1>3. f \in Bijection(Positions(w), moved)
  <2>1. f \in [Positions(w) -> moved]
    BY <1>1 DEF Positions
  <2>2. \A a, b \in Positions(w) : f[a] = f[b] => a = b
    BY DEF Positions
  <2>3. \A n \in moved : \E a \in Positions(w) : f[a] = n
    <3> SUFFICES ASSUME NEW n \in moved PROVE \E a \in Positions(w) : f[a] = n
      OBVIOUS
    <3>1. n - 1 \in 1 .. Len(w) /\ u[(n - 1) + 1] = w[n - 1]
      BY <1>1
    <3>2. n - 1 \in Positions(w)
      BY <3>1 DEF Positions
    <3> QED BY <3>1, <3>2
  <2> QED BY <2>1, <2>2, <2>3 DEF Bijection, Injection, Surjection, IsInjective
<1>4. IsFiniteSet(moved) /\ Cardinality(moved) = Cardinality(Positions(w))
  BY <1>2, <1>3, FS_Bijection DEF ExistsBijection
<1>5. CASE t \in Answers
  <2>1. Positions(u) = moved \cup {1} /\ 1 \notin moved
    BY <1>1, <1>5 DEF Positions
  <2> QED BY <1>2, <1>4, <1>5, <2>1, FS_AddElement
<1>6. CASE t \notin Answers
  <2>1. Positions(u) = moved
    BY <1>1, <1>6 DEF Positions
  <2> HIDE DEF u, moved
  <2>2. Cardinality(Positions(u)) = Cardinality(Positions(w)) + 0
    BY <1>2, <1>4, <2>1
  <2> QED BY <1>6, <2>2 DEF u
<1> QED BY <1>5, <1>6

LEMMA PositionsOfTail ==
  ASSUME NEW w \in Seq(Type), Len(w) > 0
  PROVE  Cardinality(Positions(w)) =
           Cardinality(Positions(Tail(w))) + (IF Head(w) \in Answers THEN 1 ELSE 0)
<1>1. w = <<Head(w)>> \o Tail(w) /\ Head(w) \in Type /\ Tail(w) \in Seq(Type)
  OBVIOUS
<1> QED BY <1>1, PositionsOfPrepend

\* Only the queue of one module changes.
LEMMA QueuedChanges ==
  ASSUME NEW f \in [Modules -> Seq(Type)], NEW g \in [Modules -> Seq(Type)],
         NEW m \in Modules, \A k \in Modules \ {m} : g[k] = f[k]
  PROVE  /\ Cardinality(Queued(f)) \in Nat /\ Cardinality(Queued(g)) \in Nat
         /\ Cardinality(Queued(g)) + Cardinality(Positions(f[m])) =
              Cardinality(Queued(f)) + Cardinality(Positions(g[m]))
<1> DEFINE Rest == UNION {{k} \X Positions(f[k]) : k \in Modules \ {m}}
           Mine(h) == {m} \X Positions(h[m])
<1>1. ASSUME NEW h \in [Modules -> Seq(Type)], NEW k \in Modules
      PROVE  /\ IsFiniteSet({k} \X Positions(h[k]))
             /\ Cardinality({k} \X Positions(h[k])) = Cardinality(Positions(h[k]))
             /\ Cardinality(Positions(h[k])) \in Nat
  <2>1. IsFiniteSet(Positions(h[k])) /\ Cardinality(Positions(h[k])) \in Nat
    BY FinitePositions
  <2>2. IsFiniteSet({k}) /\ Cardinality({k}) = 1
    BY FS_Singleton
  <2>3. IsFiniteSet({k} \X Positions(h[k]))
        /\ Cardinality({k} \X Positions(h[k])) = Cardinality({k}) * Cardinality(Positions(h[k]))
    BY <2>1, <2>2, FS_Product
  <2> QED BY <2>1, <2>2, <2>3
<1>2. IsFiniteSet(Rest) /\ Cardinality(Rest) \in Nat
  <2> DEFINE Parts == {{k} \X Positions(f[k]) : k \in Modules \ {m}}
             p == [k \in Modules \ {m} |-> {k} \X Positions(f[k])]
  <2>1. IsFiniteSet(Modules \ {m})
    BY FiniteModules
  <2>2. p \in Surjection(Modules \ {m}, Parts)
    BY DEF Surjection
  <2>3. IsFiniteSet(Parts)
    BY <2>1, <2>2, FS_Surjection
  <2>4. \A s \in Parts : IsFiniteSet(s)
    BY <1>1
  <2>5. IsFiniteSet(UNION Parts)
    BY <2>3, <2>4, FS_UNION
  <2> QED BY <2>5, FS_CardinalityType
<1>3. ASSUME NEW h \in {f, g}
      PROVE  /\ Queued(h) = Mine(h) \cup Rest
             /\ Mine(h) \cap Rest = {}
  <2>1. \A k \in Modules \ {m} : h[k] = f[k]
    OBVIOUS
  <2> QED BY <2>1 DEF Queued
<1>4. ASSUME NEW h \in {f, g}
      PROVE  Cardinality(Queued(h)) = Cardinality(Positions(h[m])) + Cardinality(Rest)
             /\ Cardinality(Positions(h[m])) \in Nat
  <2>1. /\ IsFiniteSet(Mine(h)) /\ Cardinality(Mine(h)) = Cardinality(Positions(h[m]))
        /\ Cardinality(Positions(h[m])) \in Nat
    BY <1>1
  <2>2. Queued(h) = Mine(h) \cup Rest /\ Mine(h) \cap Rest = {}
    BY <1>3
  <2> HIDE DEF Rest, Mine
  <2>3. Cardinality(Mine(h) \cup Rest) = Cardinality(Mine(h)) + Cardinality(Rest) - Cardinality(Mine(h) \cap Rest)
    BY <1>2, <2>1, FS_Union
  <2>4. Cardinality(Mine(h) \cap Rest) = 0
    BY <2>2, FS_EmptySet
  <2> QED BY <1>2, <2>1, <2>2, <2>3, <2>4
<1> HIDE DEF Rest, Mine
<1> QED BY <1>2, <1>4
-----------------------------------------------------------------------------
(* The steps *)

\* Module m hands over a transaction: it queues behind its own, it takes its slot,
\* or it starts at once, which only I/O modules and the memory controller do.
HandsOver(m, t) ==
  /\ MayIssue(m, t)
  /\ Hands(t)
  /\ m = MEM_CNTL => t = "REPLY"
  /\ \/ waiting[m] > 0 /\ QueueBehind(m, t)
     \/ waiting[m] = 0 /\ ArbForSlot(m, t)
     \/ m \notin Processors /\ CanStartNow(m, t) /\ StartNow(m, t)

LEMMA StepCases ==
  ASSUME Inv, [Next]_vars
  PROVE  \/ \E m \in Modules, t \in Type : HandsOver(m, t)
         \/ Tick \/ Perform \/ Issuer \/ CompleteUpgrade \/ WriteDone
         \/ ArbitratorChooses \/ ArbitratorRetries \/ WakeupWinner \/ UNCHANGED vars
<1>1. /\ MEM_CNTL \in Modules /\ MEM_CNTL \notin Processors /\ MEM_CNTL \notin IOModules
      /\ \A m \in IOModules : m \notin Processors
      /\ \A m \in Modules : waiting[m] > 0 \/ waiting[m] = 0
  BY ConstantsAssumption DEF MEM_CNTL, Modules, Processors, IOModules, NUM_MODULES, Inv, TypeOK
<1>2. ASSUME NEW m \in Modules, NEW t \in Type, CacheArbForBus(m, t)
      PROVE  HandsOver(m, t)
  BY <1>1, <1>2 DEF CacheArbForBus, HandsOver
<1>3. ASSUME NEW m \in Modules, NEW t \in Type, IOArbForBus(m, t)
      PROVE  HandsOver(m, t)
  BY <1>1, <1>3 DEF IOArbForBus, HandsOver
<1>4. ASSUME NEW t \in Type, MMCStartSendToBus(t)
      PROVE  HandsOver(MEM_CNTL, t)
  BY <1>1, <1>4 DEF MMCStartSendToBus, HandsOver
<1> QED BY <1>1, <1>2, <1>3, <1>4 DEF Next

-----------------------------------------------------------------------------
(* The arbitrator event *)

Waiting         == {m \in Modules : Waits(m)}
SlotsAreCounted == arbwaiter_count = Cardinality(Waiting)
CountIsSeen     == arbwaiter_count > 0 => arbitrator # -1

\* Every step that fills a slot counts it and leaves the arbitrator scheduled.
LEMMA CountedNext ==
  ASSUME Inv, SlotsAreCounted, CountIsSeen, [Next]_vars
  PROVE  SlotsAreCounted' /\ CountIsSeen'
<1> USE DEF clock, times, current, chosen, queues, memory
<1>1. IsFiniteSet(Waiting) /\ Cardinality(Waiting) \in Nat /\ Waiting \subseteq Modules
  BY FiniteModules DEF Waiting
<1>2. ASSUME UNCHANGED <<slot, arbwaiter_count, arbitrator>>
      PROVE  SlotsAreCounted' /\ CountIsSeen'
  BY <1>2 DEF SlotsAreCounted, CountIsSeen, Waiting, Waits
<1>3. ASSUME NEW m \in Modules, NEW t \in Type, HandsOver(m, t)
      PROVE  SlotsAreCounted' /\ CountIsSeen'
  <2>1. CASE waiting[m] > 0 /\ QueueBehind(m, t)
    <3>1. UNCHANGED <<arbwaiter_count, arbitrator>>
      BY <2>1 DEF QueueBehind
    <3>2. Waiting' = Waiting
      BY <2>1 DEF QueueBehind, Waiting, Waits, Inv, TypeOK
    <3> QED BY <3>1, <3>2 DEF SlotsAreCounted, CountIsSeen
  <2>2. CASE waiting[m] = 0 /\ ArbForSlot(m, t)
    <3>1. m \notin Waiting
      BY <2>2, NothingWaits DEF Waiting, Waits
    <3>2. Waiting' = Waiting \cup {m}
      BY <2>2 DEF ArbForSlot, TakeSlot, Waiting, Waits, Inv, TypeOK, Type
    <3>3. arbwaiter_count' = arbwaiter_count + 1
      BY <2>2 DEF ArbForSlot, TakeSlot
    <3>4. arbitrator' # -1
      <4>1. Later(now, busy_until) \in Nat
        BY LaterOfTwo DEF Inv, TypeOK
      <4> QED BY <2>2, <4>1 DEF ArbForSlot, WakeArbitrator
    <3> QED BY <1>1, <3>1, <3>2, <3>3, <3>4, FS_AddElement DEF SlotsAreCounted, CountIsSeen
  <2>3. CASE StartNow(m, t)
    BY <1>2, <2>3 DEF StartNow
  <2> QED BY <1>3, <2>1, <2>2, <2>3 DEF HandsOver
<1>4. CASE ArbitratorChooses
  <2>1. PICK m \in Winners : /\ slot' = [slot EXCEPT ![m] = EmptySlot]
                             /\ arbitrator' = StartTime(m)
    BY <1>4 DEF ArbitratorChooses
  <2>2. m \in Waiting
    BY ModuleNumbers DEF Winners, MMCWins, Candidates, Waiting, Modules
  <2>3. Waiting' = Waiting \ {m}
    BY <1>1, <2>1, <2>2 DEF Waiting, Waits, EmptySlot, Inv, TypeOK
  <2>4. arbwaiter_count' = arbwaiter_count - 1
    BY <1>4 DEF ArbitratorChooses
  <2>5. arbitrator' # -1
    BY <1>1, <2>1, <2>2, StartTimeLater DEF Inv
  <2> QED BY <1>1, <2>2, <2>3, <2>4, <2>5, FS_RemoveElement DEF SlotsAreCounted, CountIsSeen
<1>5. CASE ArbitratorRetries
  <2>1. now + BUS_FREQUENCY # -1
    BY ConstantsAssumption DEF Inv, TypeOK
  <2>2. UNCHANGED <<slot, arbwaiter_count>> /\ (arbwaiter_count # 0 => arbitrator' # -1)
    BY <1>5, <2>1 DEF ArbitratorRetries
  <2> QED BY <1>1, <2>2 DEF SlotsAreCounted, CountIsSeen, Waiting, Waits
<1>6. CASE WakeupWinner
  <2> DEFINE m == next_winner
             end == now + Duration(next_req)
  <2>1. m \in Modules /\ next_req \in Type /\ m \notin Waiting /\ waiters[m] \in Seq(Type)
    BY <1>6 DEF WakeupWinner, ArbitratorRuns, Inv, TypeOK, WinnerIsDue, ChosenLeftSlot, Waiting, Waits
  <2>2. arbwaiter_count' > 0 => arbitrator' # -1
    <3>1. end # -1
      BY <2>1, DurationPositive DEF Inv, TypeOK
    <3> QED BY <1>6, <3>1 DEF WakeupWinner, NextArbitration
  <2>3. CASE waiting[m] > 1
    <3>1. TakeSlot(m, Head(waiters[m]))
      BY <1>6, <2>3 DEF WakeupWinner
    <3>2. Head(waiters[m]) \in Type
      <4>1. slot[m].req = "none" /\ Len(waiters[m]) \in Nat
        BY <2>1 DEF Waiting, Waits
      <4>2. waiting[m] = Len(waiters[m]) + 0 + 1
        BY <2>1, <4>1, CountOf
      <4>3. Len(waiters[m]) > 0
        BY <2>3, <4>1, <4>2
      <4> QED BY <2>1, <4>3
    <3>3. Waiting' = Waiting \cup {m}
      BY <2>1, <3>1, <3>2 DEF TakeSlot, Waiting, Waits, Inv, TypeOK, Type
    <3>4. arbwaiter_count' = arbwaiter_count + 1
      BY <3>1 DEF TakeSlot
    <3> QED BY <1>1, <2>1, <2>2, <3>3, <3>4, FS_AddElement DEF SlotsAreCounted, CountIsSeen
  <2>4. CASE ~(waiting[m] > 1)
    <3>1. UNCHANGED <<slot, arbwaiter_count>>
      BY <1>6, <2>4 DEF WakeupWinner
    <3> QED BY <2>2, <3>1 DEF SlotsAreCounted, CountIsSeen, Waiting, Waits
  <2> QED BY <2>3, <2>4
<1>7. CASE Tick \/ Perform \/ Issuer \/ CompleteUpgrade \/ WriteDone \/ UNCHANGED vars
  BY <1>2, <1>7 DEF Tick, Perform, Issuer, CompleteUpgrade, WriteDone, vars
<1> QED BY <1>3, <1>4, <1>5, <1>6, <1>7, StepCases

\* No lost wake-up, for any number of modules: while a module has a transaction in
\* its slot the arbitrator event is scheduled (Bus_recv_arb_req, Bus_arbitrator and
\* Bus_wakeup_winner each decide from a count or from the event whether to do it).
THEOREM WaitersSeen == Spec => []WaitersAreSeen
<1>1. Init => SlotsAreCounted /\ CountIsSeen
  <2> SUFFICES ASSUME Init PROVE SlotsAreCounted /\ CountIsSeen
    OBVIOUS
  <2>1. Waiting = {}
    BY DEF Init, Waiting, Waits, EmptySlot
  <2> QED BY <2>1, FS_EmptySet DEF Init, SlotsAreCounted, CountIsSeen
<1>2. Inv /\ SlotsAreCounted /\ CountIsSeen => WaitersAreSeen
  <2> SUFFICES ASSUME Inv, SlotsAreCounted, CountIsSeen, NEW m \in Modules, Waits(m)
               PROVE  arbitrator # -1
    BY DEF WaitersAreSeen
  <2>1. IsFiniteSet(Waiting) /\ Cardinality(Waiting) \in Nat /\ m \in Waiting
    BY FiniteModules DEF Waiting
  <2>2. Cardinality(Waiting) # 0
    BY <2>1, FS_EmptySet
  <2> QED BY <2>1, <2>2 DEF SlotsAreCounted, CountIsSeen
<1> QED BY <1>1, <1>2, AlwaysInv, CountedNext, PTL DEF Spec

-----------------------------------------------------------------------------
(* The request count *)

IsAnswer(t)  == IF t \in Answers THEN 1 ELSE 0
SlotAnswers  == {m \in Modules : slot[m].req \in Answers}
ChosenAnswer == IF next_winner # -1 /\ next_req \in Answers THEN 1 ELSE 0
OnTheBus     == IF cur_req = "REQUEST" /\ performer # -1 THEN 1 ELSE 0
Held         == Cardinality(SlotAnswers) + Cardinality(Queued(waiters))

\* The balance in terms of the parts that the steps change.
LEMMA BalanceOfParts ==
  RequestsBalance <=> req_count = unanswered + (Held + ChosenAnswer) + OnTheBus
BY DEF RequestsBalance, AnswersWaiting, Held, SlotAnswers, Queued, Positions, ChosenAnswer, OnTheBus

LEMMA PartsType ==
  ASSUME Inv
  PROVE  /\ Cardinality(SlotAnswers) \in Nat /\ Cardinality(Queued(waiters)) \in Nat
         /\ Held \in Nat /\ ChosenAnswer \in 0 .. 1 /\ OnTheBus \in 0 .. 1
         /\ req_count \in Int /\ unanswered \in Nat
<1>1. Cardinality(SlotAnswers) \in Nat
  BY FiniteModules DEF SlotAnswers
<1>2. Cardinality(Queued(waiters)) \in Nat
  BY QueuedChanges, ModuleNumbers DEF Inv, TypeOK
<1>3. req_count \in Int /\ unanswered \in Nat
  BY DEF Inv, TypeOK
<1> QED BY <1>1, <1>2, <1>3 DEF Held, ChosenAnswer, OnTheBus

\* Only the slot of one module changes.
LEMMA SlotChanges ==
  ASSUME NEW m \in Modules, \A k \in Modules \ {m} : slot'[k].req = slot[k].req
  PROVE  Cardinality(SlotAnswers') + IsAnswer(slot[m].req) =
           Cardinality(SlotAnswers) + IsAnswer(slot'[m].req)
<1> DEFINE Rest == SlotAnswers \ {m}
<1>1. IsFiniteSet(Rest) /\ Cardinality(Rest) \in Nat /\ m \notin Rest
  BY FiniteModules DEF SlotAnswers
<1>2. Cardinality(Rest \cup {m}) = Cardinality(Rest) + 1
  BY <1>1, FS_AddElement
<1>3. SlotAnswers = IF slot[m].req \in Answers THEN Rest \cup {m} ELSE Rest
  BY DEF SlotAnswers
<1>4. SlotAnswers' = IF slot'[m].req \in Answers THEN Rest \cup {m} ELSE Rest
  BY DEF SlotAnswers
<1> HIDE DEF Rest
<1>5. Cardinality(SlotAnswers) = Cardinality(Rest) + IsAnswer(slot[m].req)
  BY <1>1, <1>2, <1>3 DEF IsAnswer
<1>6. Cardinality(SlotAnswers') = Cardinality(Rest) + IsAnswer(slot'[m].req)
  BY <1>1, <1>2, <1>4 DEF IsAnswer
<1> QED BY <1>1, <1>5, <1>6 DEF IsAnswer

LEMMA AnswerOrNot == \A t : IsAnswer(t) \in 0 .. 1 /\ IsAnswer("none") = 0
BY DEF IsAnswer, Answers

\* An answer that is handed over is no longer owed by its module.
LEMMA HandsBalance ==
  ASSUME Inv, NEW t \in Type, t \in Answers => unanswered > 0, Hands(t)
  PROVE  unanswered' = unanswered - IsAnswer(t) /\ unanswered' \in Nat
BY DEF Hands, IsAnswer, Inv, TypeOK

\* A queued answer is held, whether or not it takes the place of the one in the slot.
LEMMA BalanceQueueBehind ==
  ASSUME Inv, NEW m \in Modules, NEW t \in Type, QueueBehind(m, t)
  PROVE  Held' = Held + IsAnswer(t)
<1> DEFINE old == slot[m].req
           w   == waiters[m]
<1>1. /\ w \in Seq(Type) /\ old \in Request /\ waiters \in [Modules -> Seq(Type)]
      /\ Cardinality(Positions(w)) \in Nat /\ slot \in [Modules -> [req : Request, time : Nat]]
  BY FinitePositions DEF Inv, TypeOK
<1>2. CASE t = "COHE_REPLY" /\ old # "none"
  <2>1. /\ waiters' = [waiters EXCEPT ![m] = <<old>> \o @]
        /\ slot' = [slot EXCEPT ![m].req = t]
    BY <1>2 DEF QueueBehind
  <2>2. old \in Type /\ <<old>> \o w \in Seq(Type)
    BY <1>1, <1>2 DEF Request
  <2>3. waiters' \in [Modules -> Seq(Type)] /\ waiters'[m] = <<old>> \o w
        /\ \A k \in Modules \ {m} : waiters'[k] = waiters[k]
    BY <1>1, <2>1, <2>2
  <2>4. slot'[m].req = t /\ \A k \in Modules \ {m} : slot'[k].req = slot[k].req
    BY <1>1, <2>1
  <2>5. Cardinality(Positions(<<old>> \o w)) = Cardinality(Positions(w)) + IsAnswer(old)
    BY <1>1, <2>2, PositionsOfPrepend DEF IsAnswer
  <2>6. Cardinality(SlotAnswers') + IsAnswer(old) = Cardinality(SlotAnswers) + IsAnswer(t)
    BY <2>4, SlotChanges
  <2>7. /\ Cardinality(Queued(waiters)) \in Nat /\ Cardinality(Queued(waiters')) \in Nat
        /\ Cardinality(Queued(waiters')) + Cardinality(Positions(w)) =
             Cardinality(Queued(waiters)) + Cardinality(Positions(<<old>> \o w))
    BY <1>1, <2>3, QueuedChanges
  <2>8. Cardinality(SlotAnswers) \in Nat /\ Cardinality(SlotAnswers') \in Nat
    BY FiniteModules DEF SlotAnswers
  <2>9. IsAnswer(old) \in 0 .. 1 /\ IsAnswer(t) \in 0 .. 1
    BY AnswerOrNot
  <2>10. Queued(waiters)' = Queued(waiters')
    BY DEF Queued, Positions
  <2>11. /\ Held' = Cardinality(SlotAnswers') + Cardinality(Queued(waiters'))
         /\ Held = Cardinality(SlotAnswers) + Cardinality(Queued(waiters))
    BY <2>10 DEF Held
  <2>12. Cardinality(Positions(w)) \in Nat
    BY <1>1
  <2>13. Cardinality(Queued(waiters')) = Cardinality(Queued(waiters)) + IsAnswer(old)
    <3> HIDE DEF old, w
    <3> QED BY <2>5, <2>7, <2>9, <2>12
  <2>14. Cardinality(SlotAnswers') = Cardinality(SlotAnswers) + IsAnswer(t) - IsAnswer(old)
    <3> HIDE DEF old
    <3> QED BY <2>6, <2>8, <2>9
  <2> HIDE DEF old
  <2> QED BY <2>7, <2>8, <2>9, <2>11, <2>13, <2>14
<1>3. CASE ~(t = "COHE_REPLY" /\ old # "none")
  <2>1. waiters' = [waiters EXCEPT ![m] = Append(@, t)] /\ slot' = slot
    BY <1>3 DEF QueueBehind
  <2>2. Append(w, t) \in Seq(Type)
    BY <1>1
  <2>3. waiters' \in [Modules -> Seq(Type)] /\ waiters'[m] = Append(w, t)
        /\ \A k \in Modules \ {m} : waiters'[k] = waiters[k]
    BY <1>1, <2>1, <2>2
  <2>4. Cardinality(Positions(Append(w, t))) = Cardinality(Positions(w)) + IsAnswer(t)
    BY <1>1, PositionsOfAppend DEF IsAnswer
  <2>5. /\ Cardinality(Queued(waiters)) \in Nat /\ Cardinality(Queued(waiters')) \in Nat
        /\ Cardinality(Queued(waiters')) + Cardinality(Positions(w)) =
             Cardinality(Queued(waiters)) + Cardinality(Positions(Append(w, t)))
    BY <1>1, <2>3, QueuedChanges
  <2>6. SlotAnswers' = SlotAnswers /\ Queued(waiters)' = Queued(waiters')
    BY <2>1 DEF SlotAnswers, Queued, Positions
  <2>7. Cardinality(SlotAnswers) \in Nat /\ IsAnswer(t) \in 0 .. 1
    BY FiniteModules, AnswerOrNot DEF SlotAnswers
  <2>8. /\ Held' = Cardinality(SlotAnswers) + Cardinality(Queued(waiters'))
        /\ Held = Cardinality(SlotAnswers) + Cardinality(Queued(waiters))
    BY <2>6 DEF Held
  <2> HIDE DEF old, w
  <2> QED BY <1>1, <2>4, <2>5, <2>7, <2>8
<1> QED BY <1>2, <1>3

\* Bus_start counts a request when it starts and its answer when that starts.
LEMMA BalanceStart ==
  ASSUME Inv, NEW m \in Modules, NEW t \in Type, NEW errors, issuer = -1, BusStart(m, t, errors)
  PROVE  req_count' = req_count + OnTheBus' - IsAnswer(t) /\ OnTheBus = 0
<1>1. performer' # -1
  <2>1. now + Duration(t) # -1 /\ now + BUS_FREQUENCY # -1
    BY DurationPositive, ConstantsAssumption DEF Inv, TypeOK
  <2> QED BY <2>1 DEF BusStart
<1>2. OnTheBus' = IF t = "REQUEST" THEN 1 ELSE 0
  BY <1>1 DEF BusStart, OnTheBus
<1>3. req_count \in Int /\ req_count' = CountAfterStart(t)
  BY DEF BusStart, Inv, TypeOK
<1>0. OnTheBus = 0
  BY DEF OnTheBus, Inv, EventsInOrder
<1>4. CASE t = "REQUEST"
  BY <1>0, <1>2, <1>3, <1>4 DEF CountAfterStart, IsAnswer, Answers
<1>5. CASE t # "REQUEST"
  BY <1>0, <1>2, <1>3, <1>5 DEF CountAfterStart, IsAnswer, Answers
<1> QED BY <1>4, <1>5

\* What is no longer owed is held, or has started.
LEMMA BalanceHandsOver ==
  ASSUME Inv, RequestsBalance, NEW m \in Modules, NEW t \in Type, HandsOver(m, t)
  PROVE  RequestsBalance'
<1>1. /\ req_count = unanswered + (Held + ChosenAnswer) + OnTheBus
      /\ Held \in Nat /\ ChosenAnswer \in 0 .. 1 /\ OnTheBus \in 0 .. 1
      /\ req_count \in Int /\ unanswered \in Nat
  BY BalanceOfParts, PartsType
<1>2. unanswered' = unanswered - IsAnswer(t) /\ unanswered' \in Nat /\ IsAnswer(t) \in 0 .. 1
  BY HandsBalance, AnswerOrNot DEF HandsOver, MayIssue
<1>3. RequestsBalance' <=> req_count' = unanswered' + (Held' + ChosenAnswer') + OnTheBus'
  BY DEF RequestsBalance, AnswersWaiting, Held, SlotAnswers, Queued, Positions, ChosenAnswer, OnTheBus
<1>4. CASE QueueBehind(m, t)
  <2>1. Held' = Held + IsAnswer(t)
    BY <1>4, BalanceQueueBehind
  <2>2. req_count' = req_count /\ ChosenAnswer' = ChosenAnswer /\ OnTheBus' = OnTheBus
    BY <1>4 DEF QueueBehind, ChosenAnswer, OnTheBus, chosen, current, clock
  <2> QED BY <1>1, <1>2, <1>3, <2>1, <2>2
<1>5. CASE waiting[m] = 0 /\ ArbForSlot(m, t)
  <2>1. req_count' = req_count /\ ChosenAnswer' = ChosenAnswer /\ OnTheBus' = OnTheBus
        /\ Queued(waiters)' = Queued(waiters)
    BY <1>5 DEF ArbForSlot, ChosenAnswer, OnTheBus, chosen, current, Queued, Positions
  <2>2. slot'[m].req = t /\ \A k \in Modules \ {m} : slot'[k].req = slot[k].req
    BY <1>5 DEF ArbForSlot, TakeSlot, Inv, TypeOK
  <2>3. IsAnswer(slot[m].req) = 0
    BY <1>5, NothingWaits, AnswerOrNot
  <2>4. Cardinality(SlotAnswers') + IsAnswer(slot[m].req)
          = Cardinality(SlotAnswers) + IsAnswer(slot'[m].req)
    BY <2>2, SlotChanges
  <2>5. Cardinality(SlotAnswers) \in Nat /\ Cardinality(SlotAnswers') \in Nat
        /\ Cardinality(Queued(waiters)) \in Nat
    BY FiniteModules, PartsType DEF SlotAnswers
  <2>6. Cardinality(SlotAnswers') = Cardinality(SlotAnswers) + IsAnswer(t)
    BY <1>2, <2>2, <2>3, <2>4, <2>5
  <2>7. Held' = Held + IsAnswer(t)
    BY <1>2, <2>1, <2>5, <2>6 DEF Held
  <2> QED BY <1>1, <1>2, <1>3, <2>1, <2>7
<1>6. CASE CanStartNow(m, t) /\ StartNow(m, t)
  <2>1. req_count' = req_count + OnTheBus' - IsAnswer(t) /\ OnTheBus = 0
    BY <1>6, BalanceStart DEF StartNow, CanStartNow
  <2>2. Held' = Held /\ ChosenAnswer' = ChosenAnswer /\ OnTheBus' \in 0 .. 1
    BY <1>6 DEF StartNow, chosen, queues, Held, SlotAnswers, Queued, Positions, ChosenAnswer, OnTheBus
  <2> QED BY <1>1, <1>2, <1>3, <2>1, <2>2
<1> QED BY <1>4, <1>5, <1>6 DEF HandsOver

LEMMA BalanceNext ==
  ASSUME Inv, Inv', RequestsBalance, [Next]_vars
  PROVE  RequestsBalance'
<1>1. /\ req_count = unanswered + (Held + ChosenAnswer) + OnTheBus
      /\ Held \in Nat /\ ChosenAnswer \in 0 .. 1 /\ OnTheBus \in 0 .. 1
      /\ req_count \in Int /\ unanswered \in Nat
      /\ Cardinality(SlotAnswers) \in Nat /\ Cardinality(Queued(waiters)) \in Nat
  BY BalanceOfParts, PartsType
<1>2. /\ RequestsBalance' <=> req_count' = unanswered' + (Held' + ChosenAnswer') + OnTheBus'
      /\ ChosenAnswer' \in 0 .. 1 /\ OnTheBus' \in 0 .. 1
  BY DEF RequestsBalance, AnswersWaiting, Held, SlotAnswers, Queued, Positions, ChosenAnswer, OnTheBus
<1>3. ASSUME UNCHANGED <<slot, waiters>>
      PROVE  Held' = Held
  BY <1>3 DEF Held, SlotAnswers, Queued, Positions
<1>4. CASE \E m \in Modules, t \in Type : HandsOver(m, t)
  BY <1>4, BalanceHandsOver
<1>5. CASE Tick \/ WriteDone \/ ArbitratorRetries \/ UNCHANGED vars
  <2>1. UNCHANGED <<slot, waiters, next_winner, next_req, cur_req, performer, req_count, unanswered>>
    BY <1>5 DEF Tick, WriteDone, ArbitratorRetries, vars, clock, times, current, chosen, queues, memory
  <2> QED BY <1>1, <1>2, <1>3, <2>1 DEF ChosenAnswer, OnTheBus
<1>6. CASE Perform
  <2>1. UNCHANGED <<slot, waiters, next_winner, next_req, cur_req, req_count>>
        /\ performer = now /\ performer' = -1
        /\ unanswered' = IF cur_req = "REQUEST" THEN unanswered + 1 ELSE unanswered
    BY <1>6 DEF Perform, current, chosen, queues
  <2>2. performer # -1 /\ ChosenAnswer' = ChosenAnswer /\ OnTheBus' = 0
    BY <2>1 DEF Inv, TypeOK, ChosenAnswer, OnTheBus
  <2>3. unanswered' = unanswered + OnTheBus
    BY <1>1, <2>1, <2>2 DEF OnTheBus
  <2> QED BY <1>1, <1>2, <1>3, <2>1, <2>2, <2>3
<1>7. CASE Issuer
  <2>1. UNCHANGED <<slot, waiters, next_winner, next_req, req_count, performer, unanswered>>
    BY <1>7 DEF Issuer, chosen, queues, memory
  <2>2. performer = -1
    BY <1>7, <2>1 DEF Issuer, Inv, EventsInOrder
  <2> QED BY <1>1, <1>2, <1>3, <2>1, <2>2 DEF ChosenAnswer, OnTheBus
<1>8. CASE CompleteUpgrade
  <2>1. /\ UNCHANGED <<slot, waiters, next_winner, next_req, cur_req, performer>>
        /\ unanswered' = unanswered - 1 /\ req_count' = req_count - 1
    BY <1>8 DEF CompleteUpgrade, clock, chosen, queues
  <2>2. ChosenAnswer' = ChosenAnswer /\ OnTheBus' = OnTheBus
    BY <2>1 DEF ChosenAnswer, OnTheBus
  <2> QED BY <1>1, <1>2, <1>3, <2>1, <2>2
<1>9. CASE ArbitratorChooses
  <2>1. /\ UNCHANGED <<waiters, cur_req, performer, req_count, unanswered>>
        /\ next_winner = -1
    BY <1>9 DEF ArbitratorChooses, ArbitratorRuns, current, memory, Inv, WinnerIsDue
  <2>2. PICK m \in Winners : /\ slot' = [slot EXCEPT ![m] = EmptySlot]
                             /\ next_winner' = m /\ next_req' = slot[m].req
    BY <1>9 DEF ArbitratorChooses
  <2>3. m \in Modules /\ m # -1
    BY ModuleNumbers DEF Winners, Candidates, Modules
  <2>4. slot'[m].req = "none" /\ \A k \in Modules \ {m} : slot'[k].req = slot[k].req
    BY <2>2, <2>3 DEF EmptySlot, Inv, TypeOK
  <2>5. Cardinality(SlotAnswers') + IsAnswer(slot[m].req)
          = Cardinality(SlotAnswers) + IsAnswer(slot'[m].req)
    BY <2>3, <2>4, SlotChanges
  <2>6. /\ Cardinality(SlotAnswers') \in Nat /\ IsAnswer(slot[m].req) \in 0 .. 1
        /\ IsAnswer(slot'[m].req) = 0
    BY <2>4, FiniteModules, AnswerOrNot DEF SlotAnswers
  <2>7. ChosenAnswer = 0 /\ ChosenAnswer' = IsAnswer(slot[m].req) /\ OnTheBus' = OnTheBus
    BY <2>1, <2>2, <2>3 DEF ChosenAnswer, OnTheBus, IsAnswer
  <2>8. Held' = Cardinality(SlotAnswers') + Cardinality(Queued(waiters))
    BY <2>1 DEF Held, Queued, Positions
  <2>9. Held' + IsAnswer(slot[m].req) = Held
    BY <1>1, <2>5, <2>6, <2>8 DEF Held
  <2>10. Held' \in Nat
    BY <1>1, <2>6, <2>8
  <2> QED BY <1>1, <1>2, <2>1, <2>6, <2>7, <2>9, <2>10
<1>10. CASE WakeupWinner
  <2> DEFINE m == next_winner
  <2>1. /\ m \in Modules /\ next_req \in Type /\ slot[m].req = "none"
        /\ waiters[m] \in Seq(Type) /\ next_winner # -1
        /\ waiters \in [Modules -> Seq(Type)] /\ slot \in [Modules -> [req : Request, time : Nat]]
    BY <1>10 DEF WakeupWinner, ArbitratorRuns, Inv, TypeOK, WinnerIsDue, ChosenLeftSlot
  <2>2. issuer = -1
    <3>1. arbitrator = now /\ state = "WAKINGUP" /\ (issuer = now => ~issuer_first)
      BY <1>10 DEF WakeupWinner, ArbitratorRuns
    <3> QED BY <3>1 DEF Inv, TypeOK, EventTime, EventsInOrder, WinnerIsDue
  <2>3. req_count' = req_count + OnTheBus' - IsAnswer(next_req) /\ OnTheBus = 0
    <3>1. \E errors : BusStart(m, next_req, errors)
      BY <1>10 DEF WakeupWinner
    <3> QED BY <2>1, <2>2, <3>1, BalanceStart
  <2>4. ChosenAnswer' = 0 /\ ChosenAnswer = IsAnswer(next_req) /\ unanswered' = unanswered
    BY <1>10, <2>1 DEF WakeupWinner, ChosenAnswer, IsAnswer, memory
  <2>5. Held' = Held
    <3>1. CASE waiting[m] > 1
      <4> DEFINE w == waiters[m]
      <4>1. TakeSlot(m, Head(w)) /\ waiters' = [waiters EXCEPT ![m] = Tail(@)]
        BY <1>10, <3>1 DEF WakeupWinner
      <4>2. Len(w) > 0
        <5>1. waiting[m] = Len(w) + 0 + 1 /\ Len(w) \in Nat
          BY <2>1, CountOf
        <5> QED BY <3>1, <5>1
      <4>3. slot'[m].req = Head(w) /\ \A k \in Modules \ {m} : slot'[k].req = slot[k].req
        BY <2>1, <4>1 DEF TakeSlot
      <4>4. Tail(w) \in Seq(Type)
        BY <2>1, <4>2
      <4>5. waiters' \in [Modules -> Seq(Type)] /\ waiters'[m] = Tail(w)
            /\ \A k \in Modules \ {m} : waiters'[k] = waiters[k]
        BY <2>1, <4>1, <4>4
      <4>6. Cardinality(SlotAnswers') + IsAnswer(slot[m].req)
              = Cardinality(SlotAnswers) + IsAnswer(slot'[m].req)
        BY <2>1, <4>3, SlotChanges
      <4>7. /\ Cardinality(Queued(waiters')) \in Nat
            /\ Cardinality(Queued(waiters')) + Cardinality(Positions(w))
                 = Cardinality(Queued(waiters)) + Cardinality(Positions(Tail(w)))
        BY <2>1, <4>5, QueuedChanges
      <4>8. Cardinality(Positions(w)) = Cardinality(Positions(Tail(w))) + IsAnswer(Head(w))
        BY <2>1, <4>2, PositionsOfTail DEF IsAnswer
      <4>9. Cardinality(Positions(Tail(w))) \in Nat /\ Cardinality(SlotAnswers') \in Nat
        BY <4>4, FinitePositions, FiniteModules DEF SlotAnswers
      <4>10. IsAnswer(slot[m].req) = 0 /\ IsAnswer(Head(w)) \in 0 .. 1
        BY <2>1, AnswerOrNot
      <4>11. Cardinality(SlotAnswers') = Cardinality(SlotAnswers) + IsAnswer(Head(w))
        <5> HIDE DEF m, w
        <5> QED BY <1>1, <4>3, <4>6, <4>9, <4>10
      <4>12. Cardinality(Queued(waiters')) + IsAnswer(Head(w)) = Cardinality(Queued(waiters))
        <5> HIDE DEF m, w
        <5> QED BY <1>1, <4>7, <4>8, <4>9, <4>10
      <4>13. /\ Held' = Cardinality(SlotAnswers') + Cardinality(Queued(waiters'))
             /\ Held = Cardinality(SlotAnswers) + Cardinality(Queued(waiters))
        BY DEF Held, Queued, Positions
      <4> HIDE DEF m, w
      <4> QED BY <1>1, <4>7, <4>9, <4>10, <4>11, <4>12, <4>13
    <3>2. CASE ~(waiting[m] > 1)
      BY <1>3, <1>10, <3>2 DEF WakeupWinner
    <3> QED BY <3>1, <3>2
  <2>6. IsAnswer(next_req) \in 0 .. 1
    BY AnswerOrNot
  <2> HIDE DEF m
  <2> QED BY <1>1, <1>2, <2>3, <2>4, <2>5, <2>6
<1> QED BY <1>4, <1>5, <1>6, <1>7, <1>8, <1>9, <1>10, StepCases

\* req_count is the number of requests whose answer has not started, wherever that
\* answer is held up: Bus_start and MMC_send_reply count every request once.
THEOREM RequestsAreBalanced == Spec => []RequestsBalance
<1>1. Init => RequestsBalance
  <2> SUFFICES ASSUME Init PROVE RequestsBalance
    OBVIOUS
  <2>1. SlotAnswers = {} /\ ChosenAnswer = 0 /\ OnTheBus = 0
    BY DEF Init, SlotAnswers, EmptySlot, Answers, ChosenAnswer, OnTheBus
  <2>2. Queued(waiters) = {}
    <3>1. \A m \in Modules : waiters[m] = <<>>
      BY DEF Init
    <3>2. \A m \in Modules : Positions(waiters[m]) = {}
      BY <3>1, PositionsOfEmpty
    <3> QED BY <3>2 DEF Queued
  <2>3. Held = 0
    BY <2>1, <2>2, FS_EmptySet DEF Held
  <2> QED BY <2>1, <2>3, BalanceOfParts DEF Init
<1> QED BY <1>1, AlwaysInv, BalanceNext, PTL DEF Spec

-----------------------------------------------------------------------------
(* The limits *)

\* Module m, the master of an idle bus, starts a transaction without arbitration.
StartsAsMaster(m, t) == CanStartNow(m, t) /\ StartNow(m, t)

\* The memory controller only replies.
MemoryReplies ==
  /\ slot[MEM_CNTL].req \in {"none", "REPLY"}
  /\ \A n \in 1 .. Len(waiters[MEM_CNTL]) : waiters[MEM_CNTL][n] = "REPLY"

LEMMA MemoryRepliesNext ==
  ASSUME Inv, MemoryReplies, [Next]_vars
  PROVE  MemoryReplies'
<1> DEFINE mc == MEM_CNTL
           w  == waiters[mc]
<1>1. /\ mc \in Modules /\ w \in Seq(Type) /\ Len(w) \in Nat
      /\ waiters \in [Modules -> Seq(Type)] /\ slot \in [Modules -> [req : Request, time : Nat]]
  BY ModuleNumbers DEF Inv, TypeOK
<1>2. ASSUME slot'[mc] = slot[mc], waiters'[mc] = w
      PROVE  MemoryReplies'
  BY <1>2 DEF MemoryReplies
<1>3. ASSUME NEW m \in Modules, NEW t \in Type, HandsOver(m, t)
      PROVE  MemoryReplies'
  <2>1. CASE m # mc
    <3>1. slot'[mc] = slot[mc] /\ waiters'[mc] = w
      BY <1>1, <1>3, <2>1 DEF HandsOver, QueueBehind, ArbForSlot, TakeSlot, StartNow, queues
    <3> QED BY <1>2, <3>1
  <2>2. CASE m = mc
    <3>1. t = "REPLY"
      BY <1>3, <2>2 DEF HandsOver
    <3>2. CASE QueueBehind(m, t)
      <4>1. slot' = slot /\ waiters'[mc] = Append(w, t)
        BY <1>1, <2>2, <3>1, <3>2 DEF QueueBehind
      <4> QED BY <1>1, <3>1, <4>1 DEF MemoryReplies
    <3>3. CASE ArbForSlot(m, t)
      <4>1. waiters' = waiters /\ slot'[mc].req = t
        BY <1>1, <2>2, <3>3 DEF ArbForSlot, TakeSlot
      <4> QED BY <3>1, <4>1 DEF MemoryReplies
    <3>4. CASE StartNow(m, t)
      BY <1>2, <3>4 DEF StartNow, queues
    <3> QED BY <1>3, <3>2, <3>3, <3>4 DEF HandsOver
  <2> QED BY <2>1, <2>2
<1>4. CASE Tick \/ Perform \/ Issuer \/ CompleteUpgrade \/ WriteDone \/ ArbitratorRetries \/ UNCHANGED vars
  BY <1>2, <1>4
  DEF Tick, Perform, Issuer, CompleteUpgrade, WriteDone, ArbitratorRetries, vars, queues
<1>5. CASE ArbitratorChooses
  <2>1. PICK m \in Winners : slot' = [slot EXCEPT ![m] = EmptySlot]
    BY <1>5 DEF ArbitratorChooses
  <2>2. waiters' = waiters /\ slot'[mc] \in {slot[mc], EmptySlot}
    BY <1>1, <1>5, <2>1 DEF ArbitratorChooses
  <2> QED BY <2>2 DEF MemoryReplies, EmptySlot
<1>6. CASE WakeupWinner
  <2>1. CASE next_winner = mc /\ waiting[mc] > 1
    <3>1. TakeSlot(mc, Head(w)) /\ waiters' = [waiters EXCEPT ![mc] = Tail(@)]
      BY <1>6, <2>1 DEF WakeupWinner
    <3>2. slot[mc].req = "none"
      BY <1>6, <2>1 DEF WakeupWinner, ArbitratorRuns, Inv, ChosenLeftSlot, WinnerIsDue
    <3>3. Len(w) > 0
      <4>1. waiting[mc] = Len(w) + 0 + 1
        BY <1>1, <2>1, <3>2, CountOf
      <4> QED BY <1>1, <2>1, <4>1
    <3>4. slot'[mc].req = w[1] /\ waiters'[mc] = Tail(w)
      BY <1>1, <3>1, <3>3 DEF TakeSlot
    <3>5. Len(Tail(w)) = Len(w) - 1 /\ \A n \in 1 .. Len(Tail(w)) : Tail(w)[n] = w[n + 1]
      BY <1>1, <3>3
    <3> QED BY <1>1, <3>3, <3>4, <3>5 DEF MemoryReplies
  <2>2. CASE ~(next_winner = mc /\ waiting[mc] > 1)
    <3>1. slot'[mc] = slot[mc] /\ waiters'[mc] = w
      BY <1>1, <1>6, <2>2 DEF WakeupWinner, TakeSlot
    <3> QED BY <1>2, <3>1
  <2> QED BY <2>1, <2>2
<1> QED BY <1>3, <1>4, <1>5, <1>6, StepCases

\* What the arbitrator chooses was not held back.
LEMMA ChosenWasFree ==
  ASSUME Inv, MemoryReplies, NEW m \in Winners, slot[m].req \in {"REQUEST"} \cup Writes
  PROVE  ~Blocked(slot[m].req)
<1>1. MEM_CNTL \notin {k \in Modules : slot[k].req \in {"REQUEST"} \cup Writes}
  BY DEF MemoryReplies, Writes
<1> QED BY <1>1, ModuleNumbers DEF Winners, Candidates, Modules

\* A request that was chosen will be counted when it starts.
ChosenRequest == IF next_winner # -1 /\ next_req = "REQUEST" THEN 1 ELSE 0
RequestsLimited == req_count + ChosenRequest <= BUS_TOTAL_REQUESTS

\* The arbitrator chooses a request only below the limit: what passes it is a
\* request that an I/O module starts as master.
LEMMA RequestsLimitedNext ==
  ASSUME Inv, MemoryReplies, RequestsLimited, [Next]_vars,
         \A m \in IOModules : ~StartsAsMaster(m, "REQUEST")
  PROVE  RequestsLimited'
<1>1. req_count \in Int /\ ChosenRequest \in 0 .. 1 /\ BUS_TOTAL_REQUESTS \in Nat
      /\ req_count + ChosenRequest <= BUS_TOTAL_REQUESTS
  BY ConstantsAssumption DEF Inv, TypeOK, ChosenRequest, RequestsLimited
<1>2. ASSUME UNCHANGED <<next_winner, next_req>>, req_count' \in {req_count, req_count - 1}
      PROVE  RequestsLimited'
  <2>1. ChosenRequest' = ChosenRequest
    BY <1>2 DEF ChosenRequest
  <2> DEFINE count == req_count'
  <2>2. count \in Int /\ count <= req_count
    BY <1>1, <1>2
  <2>3. RequestsLimited' <=> count + ChosenRequest <= BUS_TOTAL_REQUESTS
    BY <2>1 DEF RequestsLimited
  <2> HIDE DEF count
  <2> QED BY <1>1, <2>2, <2>3
<1>3. ASSUME NEW m \in Modules, NEW t \in Type, HandsOver(m, t)
      PROVE  RequestsLimited'
  <2>1. CASE QueueBehind(m, t) \/ ArbForSlot(m, t)
    BY <1>2, <2>1 DEF QueueBehind, ArbForSlot, current, chosen
  <2>2. CASE m \notin Processors /\ CanStartNow(m, t) /\ StartNow(m, t)
    <3>1. t # "REQUEST"
      <4>1. m = MEM_CNTL \/ m \in IOModules
        BY <2>2, ConstantsAssumption DEF Modules, Processors, IOModules, MEM_CNTL, NUM_MODULES
      <4> QED BY <1>3, <2>2, <4>1 DEF HandsOver, StartsAsMaster
    <3>2. req_count' \in {req_count, req_count - 1}
      BY <2>2, <3>1 DEF StartNow, BusStart, CountAfterStart
    <3> QED BY <1>2, <2>2, <3>2 DEF StartNow, chosen
  <2> QED BY <1>3, <2>1, <2>2 DEF HandsOver
<1>4. CASE Tick \/ Perform \/ Issuer \/ CompleteUpgrade \/ WriteDone \/ ArbitratorRetries \/ UNCHANGED vars
  <2>1. UNCHANGED <<next_winner, next_req>> /\ req_count' \in {req_count, req_count - 1}
    BY <1>4
    DEF Tick, Perform, Issuer, CompleteUpgrade, WriteDone, ArbitratorRetries, vars, current, chosen
  <2> QED BY <1>2, <2>1
<1>5. CASE ArbitratorChooses
  <2>1. PICK m \in Winners : next_winner' = m /\ next_req' = slot[m].req
    BY <1>5 DEF ArbitratorChooses
  <2>2. req_count' = req_count
    BY <1>5 DEF ArbitratorChooses, current
  <2>3. CASE slot[m].req = "REQUEST"
    <3>1. req_count # BUS_TOTAL_REQUESTS
      BY <2>3, ChosenWasFree DEF Blocked
    <3> QED BY <1>1, <2>1, <2>2, <2>3, <3>1 DEF RequestsLimited, ChosenRequest
  <2>4. CASE slot[m].req # "REQUEST"
    <3>1. ChosenRequest' = 0
      BY <2>1, <2>4 DEF ChosenRequest
    <3> QED BY <1>1, <2>2, <3>1 DEF RequestsLimited
  <2> QED BY <2>3, <2>4
<1>6. CASE WakeupWinner
  <2>1. next_winner # -1 /\ ChosenRequest' = 0
    BY <1>6, ModuleNumbers DEF WakeupWinner, ArbitratorRuns, Inv, WinnerIsDue, ChosenRequest
  <2>2. req_count' = CountAfterStart(next_req)
    BY <1>6 DEF WakeupWinner, BusStart
  <2>3. CASE next_req = "REQUEST"
    BY <1>1, <2>1, <2>2, <2>3 DEF CountAfterStart, RequestsLimited, ChosenRequest
  <2>4. CASE next_req # "REQUEST"
    <3>1. req_count' = req_count \/ req_count' = req_count - 1
      BY <2>2, <2>4 DEF CountAfterStart
    <3> DEFINE count == req_count'
    <3>2. count \in Int /\ count <= req_count
      BY <1>1, <3>1
    <3>3. RequestsLimited' <=> count + 0 <= BUS_TOTAL_REQUESTS
      BY <2>1 DEF RequestsLimited
    <3> HIDE DEF count
    <3> QED BY <1>1, <3>2, <3>3
  <2> QED BY <2>3, <2>4
<1> QED BY <1>3, <1>4, <1>5, <1>6, StepCases

\* Writes that will take a buffer, and when flow control is raised.
OnTheBusWrite == IF cur_req \in Writes /\ performer # -1 THEN 1 ELSE 0
ChosenWrite   == IF next_winner # -1 /\ next_req \in Writes THEN 1 ELSE 0
FlowIsRaised  == write_flowcontrol = IF wb_count >= MMC_writebacks - 1 THEN 1 ELSE 0
WritesFit     == wb_count + OnTheBusWrite + ChosenWrite <= MMC_writebacks

\* Flow control follows the buffered writes, whoever sends them.
LEMMA FlowIsRaisedNext ==
  ASSUME MMC_writebacks > 1, Inv, FlowIsRaised, [Next]_vars
  PROVE  FlowIsRaised'
<1>1. wb_count \in Nat /\ MMC_writebacks \in Nat /\ write_flowcontrol \in Int
  BY ConstantsAssumption DEF Inv, TypeOK
<1>2. ASSUME UNCHANGED <<wb_count, write_flowcontrol>>
      PROVE  FlowIsRaised'
  BY <1>2 DEF FlowIsRaised
<1>3. ASSUME NEW m \in Modules, NEW t \in Type, HandsOver(m, t)
      PROVE  FlowIsRaised'
  BY <1>2, <1>3 DEF HandsOver, Hands
<1>4. CASE \/ Tick \/ Issuer \/ CompleteUpgrade \/ ArbitratorChooses \/ ArbitratorRetries
           \/ WakeupWinner \/ UNCHANGED vars
  BY <1>2, <1>4
  DEF Tick, Issuer, CompleteUpgrade, ArbitratorChooses, ArbitratorRetries, WakeupWinner, vars, memory
<1>5. CASE Perform
  <2>1. CASE cur_req \in Writes
    <3>1. /\ wb_count' = wb_count + 1
          /\ write_flowcontrol' = IF wb_count + 1 = MMC_writebacks - 1
                                  THEN write_flowcontrol + 1 ELSE write_flowcontrol
      BY <1>5, <2>1 DEF Perform
    <3> QED BY <1>1, <3>1 DEF FlowIsRaised
  <2>2. CASE cur_req \notin Writes
    <3>1. wb_count' = wb_count /\ write_flowcontrol' = write_flowcontrol
      BY <1>5, <2>2 DEF Perform
    <3> QED BY <3>1 DEF FlowIsRaised
  <2> QED BY <2>1, <2>2
<1>6. CASE WriteDone
  BY <1>1, <1>6 DEF WriteDone, FlowIsRaised
<1> QED BY <1>3, <1>4, <1>5, <1>6, StepCases

\* The arbitrator chooses a write only with two buffers free, for one may still go to
\* the write on the bus: what overfills them is a write that an I/O module starts as
\* master.
LEMMA WritesFitNext ==
  ASSUME MMC_writebacks > 1, Inv, MemoryReplies, FlowIsRaised, WritesFit, [Next]_vars,
         \A m \in IOModules, t \in Writes : ~StartsAsMaster(m, t)
  PROVE  WritesFit'
<1>1. /\ wb_count \in Nat /\ MMC_writebacks \in Nat /\ write_flowcontrol \in Int
      /\ OnTheBusWrite \in 0 .. 1 /\ ChosenWrite \in 0 .. 1
      /\ wb_count + OnTheBusWrite + ChosenWrite <= MMC_writebacks
  BY ConstantsAssumption DEF Inv, TypeOK, OnTheBusWrite, ChosenWrite, WritesFit
<1>2. OnTheBusWrite' \in 0 .. 1 /\ ChosenWrite' \in 0 .. 1
  BY DEF OnTheBusWrite, ChosenWrite
<1>3. ASSUME UNCHANGED <<next_winner, next_req, wb_count, write_flowcontrol>>,
             OnTheBusWrite' \in {0, OnTheBusWrite}
      PROVE  WritesFit'
  <2>1. ChosenWrite' = ChosenWrite
    BY <1>3 DEF ChosenWrite
  <2> DEFINE writing == OnTheBusWrite'
  <2>2. writing \in Int /\ writing <= OnTheBusWrite
    BY <1>1, <1>3
  <2>3. WritesFit' <=> wb_count + writing + ChosenWrite <= MMC_writebacks
    BY <1>3, <2>1 DEF WritesFit
  <2> HIDE DEF writing
  <2> QED BY <1>1, <2>2, <2>3
<1>4. ASSUME NEW m \in Modules, NEW t \in Type, HandsOver(m, t)
      PROVE  WritesFit'
  <2>1. UNCHANGED <<next_winner, next_req, wb_count, write_flowcontrol>>
    BY <1>4 DEF HandsOver, Hands, QueueBehind, ArbForSlot, StartNow, chosen
  <2>2. CASE QueueBehind(m, t) \/ ArbForSlot(m, t)
    <3>1. OnTheBusWrite' = OnTheBusWrite
      BY <2>2 DEF QueueBehind, ArbForSlot, clock, current, OnTheBusWrite
    <3> QED BY <1>3, <2>1, <3>1
  <2>3. CASE m \notin Processors /\ CanStartNow(m, t) /\ StartNow(m, t)
    <3>1. t \notin Writes
      <4>1. m = MEM_CNTL \/ m \in IOModules
        BY <2>3, ConstantsAssumption DEF Modules, Processors, IOModules, MEM_CNTL, NUM_MODULES
      <4> QED BY <1>4, <2>3, <4>1 DEF HandsOver, StartsAsMaster, Writes
    <3>2. OnTheBusWrite' = 0
      BY <2>3, <3>1 DEF StartNow, BusStart, OnTheBusWrite
    <3> QED BY <1>3, <2>1, <3>2
  <2> QED BY <1>4, <2>2, <2>3 DEF HandsOver
<1>5. CASE Tick \/ CompleteUpgrade \/ ArbitratorRetries \/ UNCHANGED vars
  <2>1. UNCHANGED <<next_winner, next_req, wb_count, write_flowcontrol, cur_req, performer>>
    BY <1>5
    DEF Tick, CompleteUpgrade, ArbitratorRetries, vars, clock, current, chosen, memory
  <2>2. OnTheBusWrite' = OnTheBusWrite
    BY <2>1 DEF OnTheBusWrite
  <2> QED BY <1>3, <2>1, <2>2
<1>6. CASE Issuer
  <2>1. UNCHANGED <<next_winner, next_req, wb_count, write_flowcontrol>> /\ OnTheBusWrite' = 0
    BY <1>6 DEF Issuer, chosen, memory, OnTheBusWrite, Writes
  <2> QED BY <1>3, <2>1
<1>7. CASE Perform
  <2>1. /\ UNCHANGED <<next_winner, next_req, cur_req>> /\ performer = now /\ performer' = -1
        /\ wb_count' = IF cur_req \in Writes THEN wb_count + 1 ELSE wb_count
        /\ cur_req \notin Writes => UNCHANGED write_flowcontrol
    BY <1>7 DEF Perform, current, chosen
  <2>2. performer # -1 /\ OnTheBusWrite' = 0 /\ ChosenWrite' = ChosenWrite
    BY <2>1 DEF Inv, TypeOK, OnTheBusWrite, ChosenWrite
  <2>3. CASE cur_req \in Writes
    <3>1. OnTheBusWrite = 1 /\ wb_count' = wb_count + 1
      BY <2>1, <2>2, <2>3 DEF OnTheBusWrite
    <3> QED BY <1>1, <2>2, <3>1 DEF WritesFit
  <2>4. CASE cur_req \notin Writes
    BY <1>3, <2>1, <2>2, <2>4
  <2> QED BY <2>3, <2>4
<1>8. CASE WriteDone
  <2>1. /\ UNCHANGED <<next_winner, next_req, cur_req, performer>>
        /\ wb_count > 0 /\ wb_count' = wb_count - 1
    BY <1>8 DEF WriteDone, clock, current, chosen
  <2>2. OnTheBusWrite' = OnTheBusWrite /\ ChosenWrite' = ChosenWrite
    BY <2>1 DEF OnTheBusWrite, ChosenWrite
  <2> QED BY <1>1, <2>1, <2>2 DEF WritesFit
<1>9. CASE ArbitratorChooses
  <2>1. /\ UNCHANGED <<wb_count, write_flowcontrol, cur_req, performer>>
    BY <1>9 DEF ArbitratorChooses, current, memory
  <2>2. PICK m \in Winners : next_winner' = m /\ next_req' = slot[m].req
    BY <1>9 DEF ArbitratorChooses
  <2>3. OnTheBusWrite' = OnTheBusWrite
    BY <2>1 DEF OnTheBusWrite
  <2>4. CASE slot[m].req \in Writes
    <3>1. write_flowcontrol = 0
      BY <2>4, ChosenWasFree DEF Blocked
    <3>2. wb_count <= MMC_writebacks - 2
      BY <1>1, <3>1 DEF FlowIsRaised
    <3> DEFINE picked == ChosenWrite'
    <3>3. picked \in Int /\ picked <= 1
      BY <1>2
    <3>4. WritesFit' <=> wb_count + OnTheBusWrite + picked <= MMC_writebacks
      BY <2>1, <2>3 DEF WritesFit
    <3> HIDE DEF picked
    <3> QED BY <1>1, <2>3, <3>2, <3>3, <3>4
  <2>5. CASE slot[m].req \notin Writes
    <3>1. ChosenWrite' = 0
      BY <2>2, <2>5 DEF ChosenWrite
    <3> QED BY <1>1, <2>1, <2>3, <3>1 DEF WritesFit
  <2> QED BY <2>4, <2>5
<1>10. CASE WakeupWinner
  <2>1. /\ UNCHANGED <<wb_count, write_flowcontrol>> /\ cur_req' = next_req /\ next_winner' = -1
    BY <1>10 DEF WakeupWinner, BusStart, memory
  <2>2. next_winner # -1
    BY <1>10 DEF WakeupWinner, ArbitratorRuns, Inv, WinnerIsDue
  <2> DEFINE writing == OnTheBusWrite'
  <2>3. /\ ChosenWrite' = 0
        /\ writing \in Int /\ writing <= ChosenWrite
    BY <2>1, <2>2 DEF ChosenWrite, OnTheBusWrite
  <2>4. WritesFit' <=> wb_count + writing + 0 <= MMC_writebacks
    BY <2>1, <2>3 DEF WritesFit
  <2> HIDE DEF writing
  <2> QED BY <1>1, <2>3, <2>4
<1> QED BY <1>4, <1>5, <1>6, <1>7, <1>8, <1>9, <1>10, StepCases

LEMMA MemoryRepliesInit == Init => MemoryReplies
BY ModuleNumbers DEF Init, MemoryReplies, EmptySlot

\* BUS_TOTAL_REQUESTS is passed only by I/O modules that start as master: while the
\* requests that have started and the one that has been chosen are within it, every
\* step leaves them there, except a request that IO_in_master_state starts.
THEOREM OnlyMastersPassTheRequestLimit ==
  Spec => /\ [](RequestsLimited => RequestLimit)
          /\ [][RequestsLimited =>
                  RequestsLimited' \/ \E m \in IOModules : StartsAsMaster(m, "REQUEST")]_vars
<1>1. Inv => (RequestsLimited => RequestLimit)
  BY ConstantsAssumption DEF Inv, TypeOK, RequestsLimited, RequestLimit, ChosenRequest
<1>2. Inv /\ MemoryReplies /\ [Next]_vars =>
        [RequestsLimited =>
           RequestsLimited' \/ \E m \in IOModules : StartsAsMaster(m, "REQUEST")]_vars
  BY RequestsLimitedNext
<1> QED BY <1>1, <1>2, MemoryRepliesInit, MemoryRepliesNext, AlwaysInv, PTL DEF Spec

\* With two buffers at least, flow control (MMC_recv_trans raises it, MMC_dram_done
\* lowers it) is raised exactly while at most one is free, whoever writes.
THEOREM FlowControlFollowsBuffers ==
  ASSUME MMC_writebacks > 1
  PROVE  Spec => []FlowIsRaised
<1>1. Init => FlowIsRaised
  BY ConstantsAssumption DEF Init, FlowIsRaised
<1> QED BY <1>1, FlowIsRaisedNext, AlwaysInv, PTL DEF Spec

\* And the buffers are overfilled only by I/O modules that start as master: while they
\* hold the buffered writes, the one on the bus and the one that has been chosen, every
\* step leaves it so, except a write or a copy that IO_in_master_state starts.
THEOREM OnlyMastersOverfillTheWriteBuffers ==
  ASSUME MMC_writebacks > 1
  PROVE  Spec => /\ [](WritesFit => WriteBuffersSuffice)
                 /\ [][WritesFit => WritesFit' \/ \E m \in IOModules, t \in Writes :
                                                    StartsAsMaster(m, t)]_vars
<1>1. Inv => (WritesFit => WriteBuffersSuffice)
  <2> SUFFICES ASSUME Inv, WritesFit PROVE WriteBuffersSuffice
    OBVIOUS
  <2>1. OnTheBusWrite \in 0 .. 1 /\ ChosenWrite \in 0 .. 1
    BY DEF OnTheBusWrite, ChosenWrite
  <2> QED BY <2>1, ConstantsAssumption DEF Inv, TypeOK, WritesFit, WriteBuffersSuffice
<1>2. Inv /\ MemoryReplies /\ FlowIsRaised /\ [Next]_vars =>
        [WritesFit => WritesFit' \/ \E m \in IOModules, t \in Writes : StartsAsMaster(m, t)]_vars
  BY WritesFitNext
<1> QED BY <1>1, <1>2, FlowControlFollowsBuffers, MemoryRepliesInit, MemoryRepliesNext,
           AlwaysInv, PTL DEF Spec
=============================================================================
