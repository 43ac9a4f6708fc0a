-------------------------- MODULE ProcessorProofs --------------------------
(***************************************************************************)
(* Two parts of the processor that programs of any kind rely on.           *)
(*                                                                         *)
(* Traps: what it guarantees whatever the kernel and the programs do       *)
(* (Processor/except.cc, exec.cc, tlb.cc): an interrupt in the fetch queue *)
(* is never one that the processor has masked since, the trap stack never  *)
(* leaves its bounds, RETRY undoes a trap, an entry that a handler writes  *)
(* for a page is the one the next lookup finds.                            *)
(*                                                                         *)
(* Condition codes: what those of the integer instructions mean, for words *)
(* of any width.  Processor/funcs.cc computes carry, overflow and the      *)
(* branch conditions from sign bits and flags; the theorems say which      *)
(* comparison or which sum of unbounded integers that is.                  *)
(***************************************************************************)
EXTENDS IntegerUnit, Traps, WellFoundedInduction, TLAPS

-----------------------------------------------------------------------------
(* Traps *)

\* The fields of the processor and of the interrupt state exist, and stay.
Fields == {"pc", "npc", "g", "word", "cc", "cwp", "pstate", "tl", "pil", "lvl"}
Shaped(c) == Fields \subseteq DOMAIN c /\ c = [f \in DOMAIN c |-> c[f]]
Shape ==
  /\ Shaped(cpu)
  /\ {"pending", "fetched", "left"} \subseteq DOMAIN irq
  /\ irq = [f \in DOMAIN irq |-> irq[f]]

\* The trap stack is within its bounds (procstate.h, NUM_TRAPS).
TrapLevelsFit == cpu.tl \in 0 .. NUM_TRAPS - 1

\* What a step does to the property: the mask and the queue stay, or the queue is
\* emptied.
MaskStays == cpu'.pstate = cpu.pstate /\ cpu'.pil = cpu.pil /\ irq'.fetched = irq.fetched
Emptied   == irq'.fetched = 0

LEMMA AdvanceKeeps ==
  ASSUME NEW c, Shaped(c)
  PROVE  /\ Shaped(Advance(c))
         /\ Advance(c).pstate = c.pstate /\ Advance(c).pil = c.pil /\ Advance(c).tl = c.tl
BY DEF Advance, Shaped, Fields

\* A trap empties the fetch queue, at the last trap level too.
LEMMA TrapEmptiesQueue ==
  ASSUME Shape, NEW code, NEW m, NEW page, NEW pending, Trap(code, m, page, pending)
  PROVE  Shape' /\ Emptied /\ (NUM_TRAPS \in Nat /\ TrapLevelsFit => TrapLevelsFit')
<1>1. CASE cpu.tl + 1 >= NUM_TRAPS
  BY <1>1 DEF Trap, Shape, Shaped, Emptied, TrapLevelsFit
<1>2. CASE ~(cpu.tl + 1 >= NUM_TRAPS)
  <2>1. /\ cpu' = [SaveCPUState(cpu, code) EXCEPT !.pc = At(code, 1), !.npc = At(code, 2)]
        /\ irq' = [irq EXCEPT !.pending = pending, !.fetched = 0]
    BY <1>2 DEF Trap
  <2>2. Shaped(cpu') /\ cpu'.tl = cpu.tl + 1
    BY <2>1 DEF Shape, Shaped, Fields, SaveCPUState
  <2>3. Shape' /\ Emptied
    BY <2>1, <2>2 DEF Shape, Emptied
  <2>4. NUM_TRAPS \in Nat /\ TrapLevelsFit => TrapLevelsFit'
    BY <1>2, <2>2 DEF TrapLevelsFit
  <2> QED BY <2>3, <2>4
<1> QED BY <1>1, <1>2

\* A serialized instruction empties it.
LEMMA SerializedEmptiesQueue ==
  ASSUME Shape, Serialized, Shaped(cpu')
  PROVE  Shape' /\ Emptied
BY DEF Shape, Serialized, Emptied

\* Every instruction leaves the mask and the queue as they are or empties the queue,
\* and leaves the trap stack within its bounds.
LEMMA InstructionKeepsMask ==
  ASSUME Shape, NEW in, NEW m,
         Compute(in, m) \/ Access(in, m) \/ SystemTrap(in, m) \/ RDPR(in, m) \/ WRPR(in, m)
           \/ DONERETRY(in, m) \/ KernelStep(in, m)
  PROVE  /\ Shape' /\ (MaskStays \/ Emptied)
         /\ NUM_TRAPS \in Nat /\ TrapLevelsFit => TrapLevelsFit'
<1> USE DEF TrapLevelsFit
<1>0. ASSUME NEW c, Shaped(c), cpu' = Advance(c), c.tl = cpu.tl,
             Serialized \/ (c.pstate = cpu.pstate /\ c.pil = cpu.pil /\ irq' = irq)
      PROVE  Shape' /\ (MaskStays \/ Emptied) /\ (TrapLevelsFit => TrapLevelsFit')
  <2>1. Shaped(cpu') /\ cpu'.pstate = c.pstate /\ cpu'.pil = c.pil /\ cpu'.tl = c.tl
    BY <1>0, AdvanceKeeps
  <2>2. CASE Serialized
    BY <1>0, <2>1, <2>2, SerializedEmptiesQueue
  <2>3. CASE c.pstate = cpu.pstate /\ c.pil = cpu.pil /\ irq' = irq
    BY <1>0, <2>1, <2>3 DEF Shape, MaskStays
  <2> QED BY <1>0, <2>2, <2>3
<1>1. CASE Compute(in, m)
  <2> DEFINE n == Advance(cpu)
  <2>1. Shaped(n) /\ n.pstate = cpu.pstate /\ n.pil = cpu.pil /\ n.tl = cpu.tl
    BY AdvanceKeeps DEF Shape
  <2>2. irq' = irq
    BY <1>1 DEF Compute, Undisturbed
  <2>3. \/ cpu' = [n EXCEPT !.g[AG] = (@ + 1) % 4, !.cc = G = 3]
        \/ \E k : cpu' = [n EXCEPT !.npc = At("user", k)]
        \/ cpu' = n
    <3>1. CASE in.op = "ADD"
      BY <1>1, <3>1 DEF Compute
    <3>2. CASE in.op = "JMP"
      BY <1>1, <3>2 DEF Compute
    <3>3. CASE in.op = "BCC"
      BY <1>1, <3>3 DEF Compute
    <3> QED BY <1>1, <3>1, <3>2, <3>3 DEF Compute
  <2> HIDE DEF n
  <2>4. Shaped(cpu') /\ cpu'.pstate = cpu.pstate /\ cpu'.pil = cpu.pil /\ cpu'.tl = cpu.tl
    BY <2>1, <2>3 DEF Shaped, Fields
  <2> QED BY <2>2, <2>4 DEF MaskStays, Shape
<1>2. CASE Access(in, m)
  <2> DEFINE page == IF in.op \in {"LD", "ST"} THEN in.page ELSE KernelPage
             r == Translate(m, "d", page, IsWrite(in))
             after == WithTlb(m, "d", r.tlb)
  <2>1. CASE r.result # "HIT"
    <3>1. Trap(Code("d", r.result), after, page, irq.pending)
      BY <1>2, <2>1 DEF Access
    <3> HIDE DEF r, after, page
    <3> QED BY <3>1, TrapEmptiesQueue DEF TrapLevelsFit
  <2>2. CASE r.result = "HIT"
    <3>1. CASE in.op = "LD"
      <4>1. PICK v : Finish([cpu EXCEPT !.g[AG] = v], after) /\ irq' = irq
        BY <1>2, <2>2, <3>1 DEF Access
      <4> DEFINE c == [cpu EXCEPT !.g[AG] = v]
      <4>2. Shaped(c) /\ c.tl = cpu.tl /\ c.pstate = cpu.pstate /\ c.pil = cpu.pil
        BY DEF Shape, Shaped, Fields
      <4>3. cpu' = Advance(c)
        BY <4>1 DEF Finish
      <4> HIDE DEF c
      <4> QED BY <1>0, <4>1, <4>2, <4>3
    <3>2. CASE in.op = "ST"
      <4>1. Finish(cpu, after) /\ irq' = irq
        BY <1>2, <2>2, <3>2 DEF Access
      <4> QED BY <1>0, <4>1 DEF Finish, Shape
    <3>3. CASE in.op = "SAVE"
      <4>1. Finish(cpu, after) /\ Serialized
        BY <1>2, <2>2, <3>3 DEF Access
      <4> QED BY <1>0, <4>1 DEF Finish, Shape
    <3>4. CASE in.op = "RESTORE"
      <4> DEFINE v == mem.save[m.context][in.r]
                 c == IF in.r = "G" THEN [cpu EXCEPT !.g[0] = v]
                      ELSE [cpu EXCEPT !.lvl[cpu.tl][in.r] = v]
      <4>1. Finish(c, after) /\ Serialized
        BY <1>2, <2>2, <3>4 DEF Access
      <4>2. Shaped(c) /\ c.tl = cpu.tl
        <5> HIDE DEF v
        <5>1. CASE in.r = "G"
          BY <5>1 DEF Shape, Shaped, Fields
        <5>2. CASE in.r # "G"
          BY <5>2 DEF Shape, Shaped, Fields
        <5> QED BY <5>1, <5>2
      <4>3. cpu' = Advance(c)
        BY <4>1 DEF Finish
      <4> HIDE DEF c
      <4> QED BY <1>0, <4>1, <4>2, <4>3
    <3> QED BY <1>2, <3>1, <3>2, <3>3, <3>4 DEF Access
  <2> QED BY <2>1, <2>2
<1>3. CASE SystemTrap(in, m)
  BY <1>3, TrapEmptiesQueue DEF SystemTrap
<1>4. CASE RDPR(in, m)
  <2>1. PICK v : Finish([cpu EXCEPT !.g[AG] = v], m) /\ Serialized
    BY <1>4 DEF RDPR
  <2> DEFINE c == [cpu EXCEPT !.g[AG] = v]
  <2>2. Shaped(c) /\ c.tl = cpu.tl
    BY DEF Shape, Shaped, Fields
  <2>3. cpu' = Advance(c)
    BY <2>1 DEF Finish
  <2> HIDE DEF c
  <2> QED BY <1>0, <2>1, <2>2, <2>3
<1>5. CASE WRPR(in, m)
  <2>1. PICK v : cpu' = Advance(CASE in.r = "PSTATE" -> [cpu EXCEPT !.pstate = v]
                                  [] in.r = "PIL"    -> [cpu EXCEPT !.pil = v]
                                  [] in.r = "CWP"    -> [cpu EXCEPT !.cwp = v]
                                  [] OTHER           -> cpu)
    BY <1>5 DEF WRPR, Finish
  <2>2. PICK c : cpu' = Advance(c) /\ Shaped(c) /\ c.tl = cpu.tl
    <3>1. CASE in.r = "PSTATE"
      BY <2>1, <3>1 DEF Shape, Shaped, Fields
    <3>2. CASE in.r = "PIL"
      BY <2>1, <3>2 DEF Shape, Shaped, Fields
    <3>3. CASE in.r = "CWP"
      BY <2>1, <3>3 DEF Shape, Shaped, Fields
    <3>4. CASE in.r \notin {"PSTATE", "PIL", "CWP"}
      BY <2>1, <3>4 DEF Shape
    <3> QED BY <3>1, <3>2, <3>3, <3>4
  <2>3. Serialized
    BY <1>5 DEF WRPR
  <2> QED BY <1>0, <2>2, <2>3
<1>6. CASE DONERETRY(in, m)
  <2>1. Serialized
    BY <1>6 DEF DONERETRY
  <2>2. CASE cpu' = cpu
    BY <2>1, <2>2, SerializedEmptiesQueue DEF Shape, Shaped
  <2>3. CASE cpu.tl # 0 /\ cpu' = Resumed(cpu, in.op = "RETRY")
    <3> DEFINE t == cpu.lvl[cpu.tl]
               pc == IF in.op = "RETRY" THEN t.TPC ELSE t.TNPC
               npc == IF in.op = "RETRY" THEN t.TNPC ELSE [t.TNPC EXCEPT !.n = @ + 1]
    <3>1. cpu' = [cpu EXCEPT !.pc = pc, !.npc = npc, !.pstate = t.TSTATE.pstate,
                             !.cwp = t.TSTATE.cwp, !.cc = t.TSTATE.cc, !.tl = @ - 1]
      BY <2>3 DEF Resumed
    <3> HIDE DEF t, pc, npc
    <3>2. Shaped(cpu') /\ cpu'.tl = cpu.tl - 1
      BY <3>1 DEF Shape, Shaped, Fields
    <3> QED BY <2>1, <2>3, <3>2, SerializedEmptiesQueue
  <2> QED BY <1>6, <2>2, <2>3 DEF DONERETRY
<1>7. CASE KernelStep(in, m)
  <2>1. irq' = irq
    BY <1>7 DEF KernelStep, Undisturbed
  <2>2. \E v : \/ cpu' = Advance([cpu EXCEPT !.word = v]) \/ cpu' = Advance([cpu EXCEPT !.g[AG] = v])
               \/ cpu' = Advance([cpu EXCEPT !.cc = v]) \/ cpu' = Advance(cpu)
    BY <1>7 DEF KernelStep, Finish
  <2>3. PICK c : /\ cpu' = Advance(c) /\ Shaped(c)
                 /\ c.tl = cpu.tl /\ c.pstate = cpu.pstate /\ c.pil = cpu.pil
    BY <2>2 DEF Shape, Shaped, Fields
  <2> QED BY <1>0, <2>1, <2>3
<1> QED BY <1>1, <1>2, <1>3, <1>4, <1>5, <1>6, <1>7

-----------------------------------------------------------------------------
(* The invariants *)

LEMMA InitialShape == Init => Shape /\ irq.fetched = 0 /\ cpu.tl = 0
<1> SUFFICES ASSUME Init PROVE Shape /\ irq.fetched = 0 /\ cpu.tl = 0
  OBVIOUS
<1>1. Shaped(cpu) /\ cpu.tl = 0
  BY DEF Init, Shaped, Fields
<1>2. /\ {"pending", "fetched", "left"} \subseteq DOMAIN irq
      /\ irq = [f \in DOMAIN irq |-> irq[f]] /\ irq.fetched = 0
  BY DEF Init
<1> QED BY <1>1, <1>2 DEF Shape

LEMMA StepKeepsShape ==
  ASSUME Shape, [Next]_vars
  PROVE  /\ Shape'
         /\ MaskStays \/ Emptied \/ FetchInterrupt
         /\ NUM_TRAPS \in Nat /\ TrapLevelsFit => TrapLevelsFit'
<1>1. CASE Step
  <2>1. PICK r, m : \/ \E code, page : Trap(code, m, page, irq.pending)
                    \/ \E in : Compute(in, m) \/ Access(in, m) \/ SystemTrap(in, m) \/ RDPR(in, m)
                                 \/ WRPR(in, m) \/ DONERETRY(in, m) \/ KernelStep(in, m)
    BY <1>1 DEF Step
  <2>2. CASE \E code, page : Trap(code, m, page, irq.pending)
    BY <2>2, TrapEmptiesQueue
  <2>3. CASE \E in : Compute(in, m) \/ Access(in, m) \/ SystemTrap(in, m) \/ RDPR(in, m)
                       \/ WRPR(in, m) \/ DONERETRY(in, m) \/ KernelStep(in, m)
    BY <2>3, InstructionKeepsMask
  <2> QED BY <2>1, <2>2, <2>3
<1>2. CASE TakeInterrupt
  BY <1>2, TrapEmptiesQueue DEF TakeInterrupt
<1>3. CASE FetchInterrupt
  BY <1>3 DEF FetchInterrupt, Shape, Shaped, TrapLevelsFit
<1>4. ASSUME NEW n \in Levels, ExternalInterrupt(n)
      PROVE  Shape' /\ MaskStays /\ (TrapLevelsFit => TrapLevelsFit')
  BY <1>4 DEF ExternalInterrupt, Shape, Shaped, MaskStays, TrapLevelsFit
<1>5. CASE UNCHANGED <<cpu, irq>>
  BY <1>5 DEF Shape, Shaped, MaskStays, TrapLevelsFit
<1>6. ASSUME NEW which \in {"i", "d"}, NEW page \in DataPages, Speculate(which, page)
      PROVE  UNCHANGED <<cpu, irq>>
  BY <1>6 DEF Speculate
<1>7. Drain => UNCHANGED <<cpu, irq>>
  BY DEF Drain
<1> QED BY <1>1, <1>2, <1>3, <1>4, <1>5, <1>6, <1>7 DEF Next, vars

\* An interrupt fetched behind an instruction that masks it is never taken
\* (ProcessSerializedInstruction, SaveCPUState, except.cc): whatever the programs,
\* the kernel and the devices do, the processor still accepts the interrupt that
\* waits in the fetch queue.
THEOREM InterruptsPermitted == Spec => []InterruptsArePermitted
<1> DEFINE IInv == Shape /\ InterruptsArePermitted
<1>1. Init => IInv
  BY InitialShape DEF InterruptsArePermitted
<1>2. IInv /\ [Next]_vars => IInv'
  <2> SUFFICES ASSUME Shape, InterruptsArePermitted, [Next]_vars
               PROVE  Shape' /\ InterruptsArePermitted'
    OBVIOUS
  <2>1. Shape' /\ (MaskStays \/ Emptied \/ FetchInterrupt)
    BY StepKeepsShape
  <2>2. CASE MaskStays \/ Emptied
    BY <2>1, <2>2 DEF MaskStays, Emptied, InterruptsArePermitted
  <2>3. CASE FetchInterrupt
    BY <2>1, <2>3 DEF FetchInterrupt, Shape, InterruptsArePermitted
  <2> QED BY <2>1, <2>2, <2>3
<1>3. IInv => InterruptsArePermitted
  OBVIOUS
<1> QED BY <1>1, <1>2, <1>3, PTL DEF Spec

\* The trap stack never overflows and never underflows: a trap beyond the last level
\* and a DONE or RETRY outside of a trap are fatal errors and leave it alone.
THEOREM TrapLevelsStayInBounds ==
  ASSUME NUM_TRAPS \in Nat \ {0}
  PROVE  Spec => []TrapLevelsFit
<1> DEFINE IInv == Shape /\ TrapLevelsFit
<1>1. Init => IInv
  BY InitialShape DEF TrapLevelsFit
<1>2. IInv /\ [Next]_vars => IInv'
  BY StepKeepsShape
<1>3. IInv => TrapLevelsFit
  OBVIOUS
<1> QED BY <1>1, <1>2, <1>3, PTL DEF Spec

-----------------------------------------------------------------------------
(* Traps and their return *)

\* A trap and the RETRY that ends its handler change nothing that the program sees
\* (SaveCPUState, ProcessSerializedInstruction, except.cc), a delay slot included: a
\* handler that finds its trap level as it was saved resumes with the program
\* counters, the condition codes, the window, the state and the trap level of the
\* instruction that trapped, whatever else it wrote; DONE resumes after it.
THEOREM RetryUndoesTrap ==
  ASSUME NEW c, NEW s, NEW code, Shaped(c), Shaped(s),
         c.tl \in Nat, c.tl + 1 \in DOMAIN c.lvl,
         s.tl = SaveCPUState(c, code).tl,
         s.lvl[s.tl] = SaveCPUState(c, code).lvl[s.tl]
  PROVE  LET retry == Resumed(s, TRUE)
             done  == Resumed(s, FALSE)
         IN  /\ retry.pc = c.pc /\ retry.npc = c.npc /\ retry.tl = c.tl
             /\ retry.cc = c.cc /\ retry.cwp = c.cwp /\ retry.pstate = c.pstate
             /\ done.pc = c.npc /\ done.tl = c.tl
             /\ done.cc = c.cc /\ done.cwp = c.cwp /\ done.pstate = c.pstate
<1> DEFINE level == [TPC |-> c.pc, TNPC |-> c.npc, TT |-> code,
                     TSTATE |-> [pstate |-> c.pstate, cc |-> c.cc, cwp |-> c.cwp]]
<1>1. SaveCPUState(c, code).tl = c.tl + 1 /\ SaveCPUState(c, code).lvl[c.tl + 1] = level
  BY DEF SaveCPUState, Shaped, Fields
<1>2. s.tl = c.tl + 1 /\ s.lvl[s.tl] = level
  BY <1>1
<1>3. s.tl - 1 = c.tl
  BY <1>2
<1>4. /\ level.TPC = c.pc /\ level.TNPC = c.npc /\ level.TSTATE.pstate = c.pstate
      /\ level.TSTATE.cc = c.cc /\ level.TSTATE.cwp = c.cwp
  OBVIOUS
<1> HIDE DEF level
<1>5. Resumed(s, TRUE) = [s EXCEPT !.pc = c.pc, !.npc = c.npc, !.pstate = c.pstate,
                                   !.cwp = c.cwp, !.cc = c.cc, !.tl = c.tl]
  BY <1>2, <1>3, <1>4 DEF Resumed
<1>6. LET retry == Resumed(s, TRUE)
      IN  /\ retry.pc = c.pc /\ retry.npc = c.npc /\ retry.tl = c.tl
          /\ retry.cc = c.cc /\ retry.cwp = c.cwp /\ retry.pstate = c.pstate
  BY <1>5 DEF Shaped, Fields
<1>7. PICK npc : Resumed(s, FALSE) = [s EXCEPT !.pc = c.npc, !.npc = npc, !.pstate = c.pstate,
                                               !.cwp = c.cwp, !.cc = c.cc, !.tl = c.tl]
  BY <1>2, <1>3, <1>4 DEF Resumed
<1>8. LET done == Resumed(s, FALSE)
      IN  /\ done.pc = c.npc /\ done.tl = c.tl
          /\ done.cc = c.cc /\ done.cwp = c.cwp /\ done.pstate = c.pstate
  BY <1>7 DEF Shaped, Fields
<1> QED BY <1>6, <1>8

-----------------------------------------------------------------------------
(* Translation buffers *)

\* A buffer as the simulator builds and writes it (tlb.cc), whatever data it holds.
Buffer(t) ==
  /\ {"type", "size", "assoc", "tagged", "index", "entries"} \subseteq DOMAIN t
  /\ t = [f \in DOMAIN t |-> t[f]]
  /\ t.type \in {"DIRECT", "SET", "FULLY", "PERFECT"}
  /\ t.size \in Nat \ {0} /\ t.assoc \in 1 .. t.size /\ t.index \in Slots(t)
  /\ t.entries = [n \in Slots(t) |-> t.entries[n]]
  /\ \A n \in Slots(t) : t.entries[n] \in
       [valid : BOOLEAN, tag : Nat, context : Nat, data : {t.entries[n].data}, age : Int]

LEMMA SmallestExists ==
  ASSUME NEW S \in SUBSET Nat, S # {}
  PROVE  \E n \in S : \A o \in S : n <= o
<1> DEFINE R == {ss \in Nat \X Nat : ss[1] < ss[2]}
<1>1. IsWellFoundedOn(R, Nat)
  BY NatLessThanWellFounded DEF OpToRel
<1> HIDE DEF R
<1>2. PICK n \in S : \A o \in S : ~(<<o, n>> \in R)
  BY <1>1, WFMin
<1>3. n \in Nat /\ \A o \in S : o \in Nat
  OBVIOUS
<1>4. \A o \in S : ~(o < n)
  BY <1>2, <1>3 DEF R
<1> QED BY <1>3, <1>4

LEMMA WaysAreSlots ==
  ASSUME NEW t, Buffer(t), NEW page \in Nat
  PROVE  Ways(t, page) \subseteq Slots(t)
<1>1. t.size \in Nat \ {0} /\ t.assoc \in 1 .. t.size
  BY DEF Buffer
<1>2. CASE t.type = "DIRECT"
  BY <1>1, <1>2 DEF Ways, Base, Slots
<1>3. CASE t.type = "SET"
  <2> DEFINE sets == t.size \div t.assoc
             p == page % sets
  <2>1. sets \in Nat \ {0} /\ sets * t.assoc <= t.size
    BY <1>1
  <2>2. p \in Nat /\ p <= sets - 1
    BY <2>1
  <2> HIDE DEF sets
  <2> HIDE DEF p
  <2>3. p * t.assoc <= (sets - 1) * t.assoc
    BY <1>1, <2>1, <2>2
  <2>4. (sets - 1) * t.assoc = sets * t.assoc - t.assoc
    BY <1>1, <2>1
  <2>5. p * t.assoc \in Nat /\ sets * t.assoc \in Nat
    BY <1>1, <2>1, <2>2
  <2>6. p * t.assoc + t.assoc <= t.size
    BY <1>1, <2>1, <2>3, <2>4, <2>5
  <2>7. Ways(t, page) = p * t.assoc .. p * t.assoc + t.assoc - 1
    BY <1>3 DEF Ways, Base, p, sets
  <2>8. Slots(t) = 0 .. t.size - 1
    BY DEF Slots
  <2> QED BY <1>1, <2>5, <2>6, <2>7, <2>8
<1>4. CASE t.type \notin {"DIRECT", "SET"}
  BY <1>4 DEF Ways
<1> QED BY <1>2, <1>3, <1>4

\* A lookup finds an entry that matches, and none only when there is none.
LEMMA FoundMatches ==
  ASSUME NEW t, Buffer(t), NEW page \in Nat, NEW context
  PROVE  LET n == Found(t, page, context)
         IN  \/ n = -1 /\ \A o \in Ways(t, page) : ~Matches(t, o, page, context)
             \/ n \in Ways(t, page) /\ n \in Nat /\ Matches(t, n, page, context)
<1> DEFINE hits == {n \in Ways(t, page) : Matches(t, n, page, context)}
           n == Found(t, page, context)
<1>1. n = IF hits = {} THEN -1 ELSE CHOOSE h \in hits : \A o \in hits : Order(t, h) <= Order(t, o)
  BY DEF Found
<1>2. CASE hits = {}
  BY <1>1, <1>2
<1>3. CASE hits # {}
  <2>1. hits \subseteq Slots(t)
    BY WaysAreSlots
  <2>2. t.size \in Nat \ {0} /\ t.index \in 0 .. t.size - 1 /\ Slots(t) = 0 .. t.size - 1
    BY DEF Buffer, Slots
  <2>3. \A o \in Slots(t) : Order(t, o) \in Nat
    BY <2>2 DEF Order
  <2> HIDE DEF hits
  <2>4. {Order(t, o) : o \in hits} \in SUBSET Nat /\ {Order(t, o) : o \in hits} # {}
    BY <1>3, <2>1, <2>3
  <2>5. PICK k \in {Order(t, o) : o \in hits} : \A j \in {Order(t, o) : o \in hits} : k <= j
    BY <2>4, SmallestExists
  <2>6. \E h \in hits : \A o \in hits : Order(t, h) <= Order(t, o)
    BY <2>5
  <2>7. n \in hits
    BY <1>1, <1>3, <2>6
  <2> QED BY <2>1, <2>2, <2>7 DEF hits
<1> QED BY <1>2, <1>3

\* What a handler writes is found (WriteEntry and the lookups of tlb.cc): when an
\* address missed and its entry has been written at an index of its set, the next
\* lookup in that address space answers with the data written.
THEOREM RefillIsFound ==
  ASSUME NEW t, Buffer(t), NEW page \in Nat, NEW context \in Nat, NEW n \in Ways(t, page),
         Found(t, page, context) = -1, NEW data, NEW write, NEW priv, NEW walk
  PROVE  LET filled == WriteEntry(t, n, [page |-> page, valid |-> TRUE], context, data)
             answer == LookUp(filled, page, context, write, priv, walk)
         IN  Found(filled, page, context) = n /\ answer.data = data /\ answer.result # "MISS"
<1> DEFINE entry == [valid |-> TRUE, tag |-> page, context |-> context, data |-> data,
                     age |-> t.entries[n].age]
           filled == WriteEntry(t, n, [page |-> page, valid |-> TRUE], context, data)
           hits == {o \in Ways(filled, page) : Matches(filled, o, page, context)}
<1>1. n \in Slots(t) /\ Slots(t) = 0 .. t.size - 1 /\ t.size \in Nat \ {0}
  BY WaysAreSlots DEF Buffer, Slots
<1>2. n % t.size = n
  BY <1>1
<1>3. filled = [t EXCEPT !.entries[n] = entry]
  BY <1>2 DEF WriteEntry
<1> HIDE DEF entry, filled
<1>4. /\ filled.type = t.type /\ filled.size = t.size /\ filled.assoc = t.assoc
      /\ filled.tagged = t.tagged /\ filled.index = t.index
      /\ filled.entries = [t.entries EXCEPT ![n] = entry]
  BY <1>3 DEF Buffer
<1>5. /\ filled.entries[n] = entry
      /\ \A o \in Slots(t) \ {n} : filled.entries[o] = t.entries[o]
  BY <1>1, <1>4 DEF Buffer
<1>6. Ways(filled, page) = Ways(t, page)
  BY <1>4 DEF Ways, Base, Slots
<1>7. Matches(filled, n, page, context)
  BY <1>5 DEF Matches, entry
<1>8. \A o \in Ways(t, page) \ {n} : ~Matches(filled, o, page, context)
  <2>1. \A o \in Ways(t, page) : ~Matches(t, o, page, context)
    BY FoundMatches, -1 \notin Nat
  <2> QED BY <1>4, <1>5, <2>1, WaysAreSlots DEF Matches
<1>9. hits = {n}
  BY <1>6, <1>7, <1>8
<1>10. Order(filled, n) <= Order(filled, n)
  BY <1>1, <1>4 DEF Order, Buffer
<1>11. Found(filled, page, context) = n
  <2>1. Found(filled, page, context) = CHOOSE h \in {n} : \A o \in {n} : Order(filled, h) <= Order(filled, o)
    BY <1>9 DEF Found
  <2> QED BY <1>10, <2>1
<1>12. n # -1
  BY <1>1
<1>13. LookUp(filled, page, context, write, priv, walk).data = data
  BY <1>5, <1>11, <1>12 DEF LookUp, entry
<1>14. LookUp(filled, page, context, write, priv, walk).result # "MISS"
  BY <1>5, <1>11, <1>12 DEF LookUp
<1> QED BY <1>11, <1>13, <1>14 DEF filled

\* After a flush a buffer without address spaces finds nothing (the kernel flushes it
\* when it changes the space): no address is translated by what another space left.
THEOREM FlushEmpties ==
  ASSUME NEW t, Buffer(t), ~t.tagged, NEW page \in Nat, NEW context
  PROVE  Found(Flush(t), page, context) = -1
<1> DEFINE f == Flush(t)
<1>1. f = [t EXCEPT !.entries = [n \in Slots(t) |-> [t.entries[n] EXCEPT !.valid = FALSE, !.tag = 0]]]
  BY DEF Flush
<1> HIDE DEF f
<1>2. f.type = t.type /\ f.size = t.size /\ f.assoc = t.assoc
  BY <1>1 DEF Buffer
<1>3. \A n \in Slots(t) : f.entries[n] = [t.entries[n] EXCEPT !.valid = FALSE, !.tag = 0]
  BY <1>1 DEF Buffer
<1>4. \A n \in Slots(t) : f.entries[n].valid = FALSE
  BY <1>3 DEF Buffer
<1>5. Ways(f, page) = Ways(t, page)
  BY <1>2 DEF Ways, Base, Slots
<1>6. \A n \in Ways(f, page) : ~Matches(f, n, page, context)
  BY <1>4, <1>5, WaysAreSlots DEF Matches
<1>7. Found(f, page, context) = -1
  BY <1>6 DEF Found
<1> QED BY <1>7 DEF f

-----------------------------------------------------------------------------
(* Words *)

\* What arithmetic needs to know of the constants.

LEMMA Words ==
  /\ Half \in Nat /\ Half >= 1 /\ Modulus = Half + Half
  /\ Modulus \in Nat /\ Word \subseteq Nat
  /\ \A v \in Word : v \in Nat /\ v < Half + Half
BY WordAssumption DEF Modulus, Word

\* The signed value of a word, by its sign bit.
LEMMA SignedWord ==
  ASSUME NEW v \in Word
  PROVE  /\ Negative(v) => Signed(v) = v - Half - Half /\ Signed(v) < 0
         /\ ~Negative(v) => Signed(v) = v /\ Signed(v) >= 0
         /\ Signed(v) \in Int /\ -Half <= Signed(v) /\ Signed(v) < Half
BY Words DEF Signed, Negative

\* A sum of two words and a carry wraps at most once, and so does a difference.
LEMMA WrapSum ==
  ASSUME NEW v1 \in Word, NEW v2 \in Word, NEW c \in 0 .. 1
  PROVE  /\ Wrap(v1 + v2 + c) \in Word
         /\ Wrap(v1 + v2 + c) = IF v1 + v2 + c >= Modulus THEN v1 + v2 + c - Modulus ELSE v1 + v2 + c
BY Words DEF Wrap, Word

\* The same for a difference of two words and a borrow.
LEMMA WrapDifference ==
  ASSUME NEW v1 \in Word, NEW v2 \in Word, NEW c \in 0 .. 1
  PROVE  /\ Wrap(v1 - v2 - c) \in Word
         /\ Wrap(v1 - v2 - c) = IF v1 - v2 - c < 0 THEN v1 - v2 - c + Modulus ELSE v1 - v2 - c
BY Words DEF Wrap, Word

-----------------------------------------------------------------------------
(* The flags *)

\* What the flags of an addition say (fnADDcc, fnADDCcc): with the carry as its
\* upper bit the word left in rd is the exact sum; overflow is set exactly when the
\* signed sum is not a signed word; negative differs from overflow exactly when the
\* signed sum is negative.
THEOREM AdditionCarries ==
  ASSUME NEW v1 \in Word, NEW v2 \in Word, NEW c \in 0 .. 1
  PROVE  LET tmp == Wrap(v1 + v2 + c)
             cc  == AddFlags(v1, v2, tmp)
             sum == Signed(v1) + Signed(v2) + c
         IN  /\ v1 + v2 + c = tmp + Modulus * Carry(cc)
             /\ cc.v <=> sum \notin -Half .. Half - 1
             /\ ~(cc.n <=> cc.v) <=> sum < 0
             /\ ~cc.v => Signed(tmp) = sum
             /\ cc.n <=> Signed(tmp) < 0
             /\ cc.z <=> tmp = 0
<1> DEFINE tmp == Wrap(v1 + v2 + c)
           cc  == AddFlags(v1, v2, tmp)
           s1 == Signed(v1)
           s2 == Signed(v2)
           st == Signed(tmp)
<1>1. /\ tmp \in Word
      /\ tmp = IF v1 + v2 + c >= Half + Half THEN v1 + v2 + c - Half - Half ELSE v1 + v2 + c
  <2>1. tmp \in Word /\ tmp = IF v1 + v2 + c >= Modulus THEN v1 + v2 + c - Modulus ELSE v1 + v2 + c
    BY WrapSum
  <2>2. v1 \in Nat /\ v2 \in Nat /\ c \in Nat /\ Half \in Nat /\ Modulus = Half + Half
    BY Words
  <2> HIDE DEF tmp
  <2> QED BY <2>1, <2>2
<1>2. /\ v1 \in Nat /\ v2 \in Nat /\ v1 < Half + Half /\ v2 < Half + Half /\ c \in 0 .. 1
      /\ Half \in Nat /\ Half >= 1 /\ Modulus = Half + Half /\ tmp \in Nat /\ tmp < Half + Half
  BY <1>1, Words
<1>3. /\ s1 = (IF v1 >= Half THEN v1 - Half - Half ELSE v1) /\ s1 \in Int
      /\ s2 = (IF v2 >= Half THEN v2 - Half - Half ELSE v2) /\ s2 \in Int
      /\ st = (IF tmp >= Half THEN tmp - Half - Half ELSE tmp) /\ st \in Int
  BY <1>1, <1>2, SignedWord DEF Negative
<1>4. /\ cc.n <=> tmp >= Half
      /\ cc.z <=> tmp = 0
      /\ cc.v <=> (v1 >= Half <=> v2 >= Half) /\ ~(tmp >= Half <=> v1 >= Half)
      /\ cc.c <=> \/ v1 >= Half /\ v2 >= Half
                  \/ ~(tmp >= Half) /\ (v1 >= Half \/ v2 >= Half)
  <2> HIDE DEF tmp
  <2>1. /\ cc.n = Negative(tmp)
        /\ cc.z = (tmp = 0)
        /\ cc.v = (Negative(v1) = Negative(v2) /\ Negative(tmp) # Negative(v1))
        /\ cc.c = ((Negative(v1) /\ Negative(v2)) \/ (~Negative(tmp) /\ (Negative(v1) \/ Negative(v2))))
    BY DEF AddFlags, Flags
  <2> HIDE DEF cc
  <2>2. ASSUME NEW v PROVE Negative(v) \in BOOLEAN /\ (Negative(v) <=> v >= Half)
    BY DEF Negative
  <2>3. cc.n <=> Negative(tmp)
    BY <2>1, <2>2
  <2>4. cc.z <=> tmp = 0
    BY <2>1
  <2>5. cc.v <=> (Negative(v1) <=> Negative(v2)) /\ ~(Negative(tmp) <=> Negative(v1))
    BY <2>1, <2>2
  <2>6. cc.c <=> (Negative(v1) /\ Negative(v2)) \/ (~Negative(tmp) /\ (Negative(v1) \/ Negative(v2)))
    BY <2>1, <2>2
  <2> QED BY <2>2, <2>3, <2>4, <2>5, <2>6
<1>5. Modulus * Carry(cc) = IF cc.c THEN Half + Half ELSE 0
  BY <1>2 DEF Carry
<1> HIDE DEF tmp, cc, s1, s2, st
<1>6. v1 + v2 + c = tmp + Modulus * Carry(cc)
  BY <1>1, <1>2, <1>4, <1>5
<1>7. cc.v <=> s1 + s2 + c \notin -Half .. Half - 1
  BY <1>1, <1>2, <1>3, <1>4
<1>10. ~(cc.n <=> cc.v) <=> s1 + s2 + c < 0
  BY <1>1, <1>2, <1>3, <1>4
<1>8. ~cc.v => st = s1 + s2 + c
  BY <1>1, <1>2, <1>3, <1>4
<1>9. cc.n <=> st < 0
  BY <1>2, <1>3, <1>4
<1> QED BY <1>4, <1>6, <1>7, <1>8, <1>9, <1>10 DEF tmp, cc, s1, s2, st

\* What the flags of a subtraction say (fnSUBcc, fnSUBCcc): the carry is the borrow
\* out of the upper bit; overflow is set exactly when the signed difference is not a
\* signed word; negative differs from overflow exactly when it is negative.
THEOREM SubtractionBorrows ==
  ASSUME NEW v1 \in Word, NEW v2 \in Word, NEW c \in 0 .. 1
  PROVE  LET tmp == Wrap(v1 - v2 - c)
             cc  == SubFlags(v1, v2, c, tmp)
             difference == Signed(v1) - Signed(v2) - c
         IN  /\ v1 - v2 - c = tmp - Modulus * Carry(cc)
             /\ cc.v <=> difference \notin -Half .. Half - 1
             /\ ~(cc.n <=> cc.v) <=> difference < 0
             /\ ~cc.v => Signed(tmp) = difference
             /\ cc.n <=> Signed(tmp) < 0
             /\ cc.z <=> tmp = 0
<1> DEFINE tmp == Wrap(v1 - v2 - c)
           cc  == SubFlags(v1, v2, c, tmp)
           s1 == Signed(v1)
           s2 == Signed(v2)
           st == Signed(tmp)
<1>1. /\ tmp \in Word
      /\ tmp = IF v1 - v2 - c < 0 THEN v1 - v2 - c + Half + Half ELSE v1 - v2 - c
  <2>1. tmp \in Word /\ tmp = IF v1 - v2 - c < 0 THEN v1 - v2 - c + Modulus ELSE v1 - v2 - c
    BY WrapDifference
  <2>2. v1 \in Nat /\ v2 \in Nat /\ c \in Nat /\ Half \in Nat /\ Modulus = Half + Half
    BY Words
  <2> HIDE DEF tmp
  <2> QED BY <2>1, <2>2
<1>2. /\ v1 \in Nat /\ v2 \in Nat /\ v1 < Half + Half /\ v2 < Half + Half /\ c \in 0 .. 1
      /\ Half \in Nat /\ Half >= 1 /\ Modulus = Half + Half /\ tmp \in Nat /\ tmp < Half + Half
  BY <1>1, Words
<1>3. /\ s1 = (IF v1 >= Half THEN v1 - Half - Half ELSE v1) /\ s1 \in Int
      /\ s2 = (IF v2 >= Half THEN v2 - Half - Half ELSE v2) /\ s2 \in Int
      /\ st = (IF tmp >= Half THEN tmp - Half - Half ELSE tmp) /\ st \in Int
  BY <1>1, <1>2, SignedWord DEF Negative
<1>4. /\ cc.n <=> tmp >= Half
      /\ cc.z <=> tmp = 0
      /\ cc.v <=> ~(v1 >= Half <=> v2 >= Half) /\ (tmp >= Half <=> v2 >= Half)
      /\ cc.c <=> v1 < v2 \/ (v1 = v2 /\ c = 1)
  <2> HIDE DEF tmp
  <2>1. /\ cc.n = Negative(tmp)
        /\ cc.z = (tmp = 0)
        /\ cc.v = (Negative(v1) # Negative(v2) /\ Negative(tmp) = Negative(v2))
        /\ cc.c = (v1 < v2 \/ (v1 = v2 /\ c = 1))
    BY DEF SubFlags, Flags
  <2> HIDE DEF cc
  <2>2. ASSUME NEW v PROVE Negative(v) \in BOOLEAN /\ (Negative(v) <=> v >= Half)
    BY DEF Negative
  <2>3. cc.n <=> Negative(tmp)
    BY <2>1, <2>2
  <2>4. cc.z <=> tmp = 0
    BY <2>1
  <2>5. cc.v <=> ~(Negative(v1) <=> Negative(v2)) /\ (Negative(tmp) <=> Negative(v2))
    BY <2>1, <2>2
  <2>6. cc.c <=> v1 < v2 \/ (v1 = v2 /\ c = 1)
    BY <2>1, <2>2
  <2> QED BY <2>2, <2>3, <2>4, <2>5, <2>6
<1>5. Modulus * Carry(cc) = IF cc.c THEN Half + Half ELSE 0
  BY <1>2 DEF Carry
<1> HIDE DEF tmp, cc, s1, s2, st
<1>6. v1 - v2 - c = tmp - Modulus * Carry(cc)
  BY <1>1, <1>2, <1>4, <1>5
<1>7. cc.v <=> s1 - s2 - c \notin -Half .. Half - 1
  BY <1>1, <1>2, <1>3, <1>4
<1>10. ~(cc.n <=> cc.v) <=> s1 - s2 - c < 0
  BY <1>1, <1>2, <1>3, <1>4
<1>8. ~cc.v => st = s1 - s2 - c
  BY <1>1, <1>2, <1>3, <1>4
<1>9. cc.n <=> st < 0
  BY <1>2, <1>3, <1>4
<1> QED BY <1>4, <1>6, <1>7, <1>8, <1>9, <1>10 DEF tmp, cc, s1, s2, st

-----------------------------------------------------------------------------
(* Instructions *)

\* What ADDcc and ADDCcc leave, as sums with the carry they take in.
LEMMA SumResult ==
  ASSUME NEW op \in {"ADDcc", "ADDCcc"}, NEW v1 \in Word, NEW v2 \in Word, NEW cc
  PROVE  LET c == IF op = "ADDCcc" THEN Carry(cc) ELSE 0
             result == Arithmetic(op, v1, v2, cc)
         IN  /\ c \in 0 .. 1
             /\ result.rd = Wrap(v1 + v2 + c)
             /\ result.cc = AddFlags(v1, v2, Wrap(v1 + v2 + c))
<1>1. Carry(cc) \in 0 .. 1
  BY DEF Carry
<1>2. v1 \in Nat /\ v2 \in Nat /\ v1 + v2 + 0 = v1 + v2
  BY Words
<1>3. CASE op = "ADDcc"
  <2>1. Value(op, v1, v2, cc) = Wrap(v1 + v2)
    BY <1>3 DEF Value
  <2> QED BY <1>2, <1>3, <2>1 DEF Arithmetic, Result
<1>4. CASE op = "ADDCcc"
  <2>1. Value(op, v1, v2, cc) = Wrap(v1 + v2 + Carry(cc))
    BY <1>4 DEF Value
  <2> QED BY <1>1, <1>4, <2>1 DEF Arithmetic, Result
<1> QED BY <1>3, <1>4

\* What SUBcc and SUBCcc leave, as differences with the borrow they take in.
LEMMA DifferenceResult ==
  ASSUME NEW op \in {"SUBcc", "SUBCcc"}, NEW v1 \in Word, NEW v2 \in Word, NEW cc
  PROVE  LET c == IF op = "SUBCcc" THEN Carry(cc) ELSE 0
             result == Arithmetic(op, v1, v2, cc)
         IN  /\ c \in 0 .. 1
             /\ result.rd = Wrap(v1 - v2 - c)
             /\ result.cc = SubFlags(v1, v2, c, Wrap(v1 - v2 - c))
<1>1. Carry(cc) \in 0 .. 1
  BY DEF Carry
<1>2. v1 \in Nat /\ v2 \in Nat /\ v1 - v2 - 0 = v1 - v2
  BY Words
<1>3. CASE op = "SUBcc"
  <2>1. Value(op, v1, v2, cc) = Wrap(v1 - v2)
    BY <1>3 DEF Value
  <2> QED BY <1>2, <1>3, <2>1 DEF Arithmetic, Result
<1>4. CASE op = "SUBCcc"
  <2>1. Value(op, v1, v2, cc) = Wrap(v1 - v2 - Carry(cc))
    BY <1>4 DEF Value
  <2> QED BY <1>1, <1>4, <2>1 DEF Arithmetic, Result
<1> QED BY <1>3, <1>4

\* A difference of two words, wrapped once, is the difference modulo the word.
LEMMA WrapIsModulo ==
  ASSUME NEW x \in Word, NEW y \in Word
  PROVE  Wrap(x - y) = (x - y) % Modulus
<1>1. x \in Int /\ y \in Int /\ Modulus \in Nat \ {0}
      /\ x >= 0 /\ y >= 0 /\ x < Modulus /\ y < Modulus
  BY Words DEF Word
<1>2. CASE x - y < 0
  <2>1. (x - y) % Modulus = x - y + Modulus
    BY <1>1, <1>2
  <2> QED BY <1>1, <1>2, <2>1 DEF Wrap
<1>3. CASE x - y >= 0
  <2>1. (x - y) % Modulus = x - y
    BY <1>1, <1>3
  <2> QED BY <1>1, <1>3, <2>1 DEF Wrap
<1> QED BY <1>1, <1>2, <1>3

\* The conditions of fnBPcc.
Conditions == {"A", "N", "NE", "E", "G", "LE", "GE", "L", "GU", "LEU", "CC", "CS",
               "POS", "NEG", "VC", "VS"}

\* Comparing is subtracting: after SUBcc every condition of a branch, a conditional
\* move or a trap (fnBPcc) holds exactly when its two operands compare as its name
\* says, signed or unsigned, overflow included.
THEOREM ConditionsCompare ==
  ASSUME NEW x \in Word, NEW y \in Word, NEW old, NEW cond \in Conditions
  PROVE  Holds(cond, Arithmetic("SUBcc", x, y, old).cc) <=> Compares(cond, x, y)
<1> DEFINE cc  == Arithmetic("SUBcc", x, y, old).cc
           tmp == Wrap(x - y)
           sx  == Signed(x)
           sy  == Signed(y)
           st  == Signed(tmp)
<1>1. cc = SubFlags(x, y, 0, tmp) /\ tmp = Wrap(x - y - 0)
  <2>1. x - y - 0 = x - y
    BY Words
  <2> QED BY <2>1, DifferenceResult
<1>2. x \in Nat /\ y \in Nat /\ Half \in Nat /\ Half >= 1
      /\ sx \in Int /\ sy \in Int /\ -Half <= sx /\ sx < Half /\ -Half <= sy /\ sy < Half
  BY Words, SignedWord
<1>3. /\ cc.v <=> sx - sy - 0 \notin -Half .. Half - 1
      /\ ~(cc.n <=> cc.v) <=> sx - sy - 0 < 0
      /\ cc.n <=> st < 0
      /\ cc.z <=> tmp = 0
  <2> HIDE DEF cc, tmp
  <2> QED BY <1>1, SubtractionBorrows
<1>4. /\ tmp \in Word
      /\ tmp = IF x - y - 0 < 0 THEN x - y - 0 + Modulus ELSE x - y - 0
  <2> HIDE DEF tmp
  <2> QED BY <1>1, WrapDifference
<1>5. cc.c <=> x < y
  <2>1. cc.c = (x < y \/ (x = y /\ 0 = 1))
    <3> HIDE DEF cc, tmp
    <3> QED BY <1>1 DEF SubFlags, Flags
  <2> HIDE DEF cc
  <2>2. CASE x < y
    <3>1. cc.c = TRUE
      BY <2>1, <2>2
    <3> QED BY <2>2, <3>1
  <2>3. CASE ~(x < y)
    <3>1. ~(x < y \/ (x = y /\ 0 = 1))
      <4>1. ~(0 = 1)
        OBVIOUS
      <4> QED BY <2>3, <4>1
    <3> QED BY <2>1, <2>3, <3>1
  <2> QED BY <2>2, <2>3
<1>6. tmp = 0 <=> x = y
  <2> HIDE DEF tmp
  <2> QED BY <1>2, <1>4, Words DEF Word
<1>7. sx = sy <=> x = y
  BY <1>2, SignedWord, Words
<1>8. Negative(tmp) <=> st < 0
  <2> HIDE DEF tmp
  <2> QED BY <1>4, SignedWord
<1>9. tmp = (x - y) % Modulus
  BY WrapIsModulo
<1> HIDE DEF tmp
<1>10. /\ cc.z <=> x = y
       /\ cc.n # cc.v <=> sx < sy
       /\ cc.c <=> x < y
       /\ cc.v <=> sx - sy \notin -Half .. Half - 1
       /\ cc.n <=> Negative((x - y) % Modulus)
       /\ cc.n \in BOOLEAN /\ cc.v \in BOOLEAN /\ cc.z \in BOOLEAN /\ cc.c \in BOOLEAN
  <2>1. cc.n \in BOOLEAN /\ cc.v \in BOOLEAN /\ cc.z \in BOOLEAN /\ cc.c \in BOOLEAN
    <3> HIDE DEF cc
    <3> QED BY <1>1 DEF SubFlags, Flags, Negative
  <2> HIDE DEF cc, sx, sy, st
  <2>2. sx - sy - 0 < 0 <=> sx < sy
    BY <1>2
  <2>3. cc.n # cc.v <=> sx < sy
    BY <1>3, <2>1, <2>2
  <2>4. sx - sy - 0 = sx - sy
    BY <1>2
  <2>5. cc.n <=> Negative((x - y) % Modulus)
    BY <1>3, <1>8, <1>9
  <2> QED BY <1>3, <1>5, <1>6, <2>1, <2>3, <2>4, <2>5
<1> HIDE DEF cc
<1>11. CASE cond \in {"A", "N", "E", "NE"}
  BY <1>10, <1>11 DEF Holds, Compares
<1>12. CASE cond \in {"L", "GE", "G", "LE"}
  BY <1>2, <1>7, <1>10, <1>12 DEF Holds, Compares
<1>13. CASE cond \in {"CS", "CC", "GU", "LEU"}
  BY <1>2, <1>10, <1>13 DEF Holds, Compares
<1>14. CASE cond \in {"POS", "NEG", "VC", "VS"}
  BY <1>10, <1>14 DEF Holds, Compares
<1> QED BY <1>11, <1>12, <1>13, <1>14 DEF Conditions, cc

\* Every condition on a register (fnBPr, fnMOVR) compares its signed value with zero.
THEOREM RegisterConditions ==
  ASSUME NEW v \in Word, NEW cond \in {"Z", "NZ", "LZ", "GEZ", "LEZ", "GZ"}
  PROVE  RegisterHolds(cond, v) <=> Compares(cond, v, 0)
<1>1. /\ Negative(v) <=> Signed(v) < 0
      /\ v = 0 <=> Signed(v) = 0
      /\ Signed(v) \in Int /\ v \in Int /\ Negative(v) \in BOOLEAN
  BY SignedWord, Words DEF Negative
<1>2. CASE cond \in {"Z", "NZ"}
  BY <1>2 DEF RegisterHolds, Compares
<1>3. CASE cond \in {"LZ", "GEZ"}
  <2>1. Signed(v) >= 0 <=> ~(Signed(v) < 0)
    BY <1>1
  <2> QED BY <1>1, <1>3, <2>1 DEF RegisterHolds, Compares
<1>4. CASE cond \in {"LEZ", "GZ"}
  <2>1. Signed(v) <= 0 <=> Signed(v) < 0 \/ Signed(v) = 0
    BY <1>1
  <2>2. Signed(v) > 0 <=> ~(Signed(v) < 0) /\ Signed(v) # 0
    BY <1>1
  <2>3. CASE cond = "LEZ"
    <3>1. RegisterHolds(cond, v) <=> v = 0 \/ Negative(v)
      BY <2>3 DEF RegisterHolds
    <3>2. Compares(cond, v, 0) <=> Signed(v) <= 0
      BY <2>3 DEF Compares
    <3> QED BY <1>1, <2>1, <3>1, <3>2
  <2>4. CASE cond = "GZ"
    <3>1. RegisterHolds(cond, v) <=> v # 0 /\ ~Negative(v)
      BY <2>4 DEF RegisterHolds
    <3>2. Compares(cond, v, 0) <=> Signed(v) > 0
      BY <2>4 DEF Compares
    <3> QED BY <1>1, <2>2, <3>1, <3>2
  <2> QED BY <1>4, <2>3, <2>4
<1> QED BY <1>2, <1>3, <1>4

\* ADDcc of the lower words and ADDCcc of the upper ones add double words: the two
\* results are the exact sum, up to the carry they leave.
THEOREM DoubleSum ==
  ASSUME NEW h1 \in Word, NEW l1 \in Word, NEW h2 \in Word, NEW l2 \in Word, NEW old
  PROVE  LET low  == Arithmetic("ADDcc", l1, l2, old)
             high == Arithmetic("ADDCcc", h1, h2, low.cc)
         IN  (h1 * Modulus + l1) + (h2 * Modulus + l2)
               = (high.rd * Modulus + low.rd) + Modulus * (Modulus * Carry(high.cc))
<1> DEFINE low  == Arithmetic("ADDcc", l1, l2, old)
           high == Arithmetic("ADDCcc", h1, h2, low.cc)
           c  == Carry(low.cc)
           c2 == Carry(high.cc)
           m  == Modulus
           rl == low.rd
           rh == high.rd
<1>1. /\ rl = Wrap(l1 + l2 + 0) /\ low.cc = AddFlags(l1, l2, Wrap(l1 + l2 + 0))
  BY SumResult
<1>2. /\ c \in 0 .. 1 /\ c2 \in 0 .. 1
  BY DEF Carry
<1>3. /\ rh = Wrap(h1 + h2 + c) /\ high.cc = AddFlags(h1, h2, Wrap(h1 + h2 + c))
  BY SumResult
<1>4. l1 + l2 + 0 = rl + m * c /\ rl \in Word
  <2>1. l1 + l2 + 0 = Wrap(l1 + l2 + 0) + Modulus * Carry(AddFlags(l1, l2, Wrap(l1 + l2 + 0)))
    BY AdditionCarries
  <2> QED BY <1>1, <2>1, WrapSum
<1>5. h1 + h2 + c = rh + m * c2 /\ rh \in Word
  <2>1. h1 + h2 + c = Wrap(h1 + h2 + c) + Modulus * Carry(AddFlags(h1, h2, Wrap(h1 + h2 + c)))
    <3> HIDE DEF c
    <3> QED BY <1>2, AdditionCarries
  <2>2. Wrap(h1 + h2 + c) \in Word
    <3> HIDE DEF c
    <3> QED BY <1>2, WrapSum
  <2> QED BY <1>3, <2>1, <2>2
<1>6. /\ h1 \in Int /\ h2 \in Int /\ l1 \in Int /\ l2 \in Int /\ rl \in Int /\ rh \in Int /\ m \in Int
  <2> HIDE DEF rl, rh
  <2> QED BY <1>4, <1>5, Words
<1> HIDE DEF low, high, c, c2, m, rl, rh
<1>7. h1 * m + h2 * m + m * c = rh * m + m * (m * c2)
  <2>1. m * (h1 + h2 + c) = m * (rh + m * c2)
    BY <1>5
  <2>2. m * (h1 + h2 + c) = h1 * m + h2 * m + m * c
    BY <1>2, <1>6
  <2>3. m * (rh + m * c2) = rh * m + m * (m * c2)
    BY <1>2, <1>6
  <2> QED BY <2>1, <2>2, <2>3
<1>8. (h1 * m + l1) + (h2 * m + l2) = (rh * m + rl) + m * (m * c2)
  BY <1>2, <1>4, <1>6, <1>7
<1> QED BY <1>8 DEF low, high, c, c2, m, rl, rh

\* SUBcc of the lower words and SUBCcc of the upper ones subtract double words: the
\* two results are the exact difference, up to the borrow they leave.
THEOREM DoubleDifference ==
  ASSUME NEW h1 \in Word, NEW l1 \in Word, NEW h2 \in Word, NEW l2 \in Word, NEW old
  PROVE  LET low  == Arithmetic("SUBcc", l1, l2, old)
             high == Arithmetic("SUBCcc", h1, h2, low.cc)
         IN  (h1 * Modulus + l1) - (h2 * Modulus + l2)
               = (high.rd * Modulus + low.rd) - Modulus * (Modulus * Carry(high.cc))
<1> DEFINE low  == Arithmetic("SUBcc", l1, l2, old)
           high == Arithmetic("SUBCcc", h1, h2, low.cc)
           c  == Carry(low.cc)
           c2 == Carry(high.cc)
           m  == Modulus
           rl == low.rd
           rh == high.rd
<1>1. /\ rl = Wrap(l1 - l2 - 0) /\ low.cc = SubFlags(l1, l2, 0, Wrap(l1 - l2 - 0))
  BY DifferenceResult
<1>2. /\ c \in 0 .. 1 /\ c2 \in 0 .. 1
  BY DEF Carry
<1>3. /\ rh = Wrap(h1 - h2 - c) /\ high.cc = SubFlags(h1, h2, c, Wrap(h1 - h2 - c))
  BY DifferenceResult
<1>4. l1 - l2 - 0 = rl - m * c /\ rl \in Word
  <2>1. l1 - l2 - 0 = Wrap(l1 - l2 - 0) - Modulus * Carry(SubFlags(l1, l2, 0, Wrap(l1 - l2 - 0)))
    BY SubtractionBorrows
  <2> QED BY <1>1, <2>1, WrapDifference
<1>5. h1 - h2 - c = rh - m * c2 /\ rh \in Word
  <2>1. h1 - h2 - c = Wrap(h1 - h2 - c) - Modulus * Carry(SubFlags(h1, h2, c, Wrap(h1 - h2 - c)))
    <3> HIDE DEF c
    <3> QED BY <1>2, SubtractionBorrows
  <2>2. Wrap(h1 - h2 - c) \in Word
    <3> HIDE DEF c
    <3> QED BY <1>2, WrapDifference
  <2> QED BY <1>3, <2>1, <2>2
<1>6. /\ h1 \in Int /\ h2 \in Int /\ l1 \in Int /\ l2 \in Int /\ rl \in Int /\ rh \in Int /\ m \in Int
  <2> HIDE DEF rl, rh
  <2> QED BY <1>4, <1>5, Words
<1> HIDE DEF low, high, c, c2, m, rl, rh
<1>7. h1 * m - h2 * m - m * c = rh * m - m * (m * c2)
  <2>1. m * (h1 - h2 - c) = m * (rh - m * c2)
    BY <1>5
  <2>2. m * (h1 - h2 - c) = h1 * m - h2 * m - m * c
    BY <1>2, <1>6
  <2>3. m * (rh - m * c2) = rh * m - m * (m * c2)
    BY <1>2, <1>6
  <2> QED BY <2>1, <2>2, <2>3
<1>8. (h1 * m + l1) - (h2 * m + l2) = (rh * m + rl) - m * (m * c2)
  BY <1>2, <1>4, <1>6, <1>7
<1> QED BY <1>8 DEF low, high, c, c2, m, rl, rh
=============================================================================
