------------------------------- MODULE Traps -------------------------------
\* Traps, interrupts and address translation of one processor: SaveCPUState, the
\* trap half of ExceptionHandler and ProcessSerializedInstruction (except.cc), the
\* fetch of instructions and interrupts (exec.cc) and the translation of data
\* addresses (memunit.hh), around the buffers of Tlb. Instructions execute in
\* order here, as they graduate; what runs ahead of graduation shows as lookups of
\* arbitrary pages and as an interrupt that waits in the fetch queue. The handlers
\* are the kernel's, which is not part of the simulator: Handler(_, _) gives them.
EXTENDS Tlb

CONSTANTS Contexts, Program(_), DataPages, Initial(_), \* of UserProgram
          PageOf(_),      \* the page of a program counter
          KernelPage,     \* the page of the kernel's save area
          Handler(_, _),  \* the kernel's handler of an exception, by kind of buffer
          Remap(_, _, _), \* the kernel's answer to a fault: the new page table word
          PageTables, Memory, Buffers, \* initial page tables, memory, sets of buffers
          Posts,          \* interrupts the devices post, by level
          NUM_TRAPS

VARIABLES cpu,   \* program counters, globals (g, and word: the one that holds page table
                 \* words), condition codes, window, pstate, interrupt level, trap stack
          mmu,   \* the buffers and their registers
          irq,   \* interrupts: pending, fetched, left to post
          mem,   \* data, page tables, stores on their way, the kernel's save area
          owner, \* ghost: whose each register of the first trap level is
          error  \* a call of YS__errmsg
vars == <<cpu, mmu, irq, mem, owner, error>>

Saved == {"TPC", "TNPC", "TSTATE", "G"}
Levels == DOMAIN Posts
At(code, n) == [code |-> code, n |-> n]
UserState == {"IE", "ITE", "DTE"}
NoTrap == [TPC |-> At("user", 0), TNPC |-> At("user", 0), TT |-> "none",
           TSTATE |-> [pstate |-> {}, cc |-> FALSE, cwp |-> 0]]
Fresh(c) == [TPC |-> At("user", 1), TNPC |-> At("user", 2), G |-> 0,
             TSTATE |-> [pstate |-> UserState, cc |-> FALSE, cwp |-> c]]

Init ==
  /\ cpu = [pc |-> At("user", 1), npc |-> At("user", 2), g |-> [ag \in 0 .. 1 |-> 0],
            word |-> NoData, cc |-> FALSE, cwp |-> 0, pstate |-> UserState, tl |-> 0, pil |-> 0,
            lvl |-> [l \in 1 .. NUM_TRAPS - 1 |-> NoTrap]]
  /\ \E b \in Buffers :
       mmu = [i |-> b.i, d |-> b.d, unified |-> b.unified, wired |-> b.wired, context |-> 0, index |-> 0,
              badaddr |-> 0, tag |-> [page |-> 0, valid |-> TRUE]]
  /\ irq = [pending |-> {}, fetched |-> 0, left |-> Posts]
  /\ mem = [data |-> Memory, pt |-> PageTables, store |-> <<>>,
            save |-> [c \in Contexts |-> Fresh(c)]]
  /\ owner = [r \in Saved |-> 0] /\ error = "none"

-----------------------------------------------------------------------------
\* Translation.
EntryAddress(c, page) == c * 8 + page
Privileged == "PRIV" \in cpu.pstate
WithTlb(m, which, t) ==
  IF m.unified THEN [m EXCEPT !.i.entries = t.entries, !.d.entries = t.entries, ![which] = t]
  ELSE [m EXCEPT ![which] = t]
Translate(m, which, page, write) ==
  IF (IF which = "i" THEN "ITE" ELSE "DTE") \in cpu.pstate
  THEN LookUp(m[which], page, m.context, write, Privileged,
              tlb_read_word(mem.pt, mem.store, EntryAddress(m.context, page), 2))
  ELSE [result |-> "HIT", tlb |-> m[which], data |-> [NoData EXCEPT !.frame = <<"data", 9, page>>]]

-----------------------------------------------------------------------------
\* Traps.

\* The processor state of the next trap level (SaveCPUState). The mutant leaves
\* the next program counter out.
SaveCPUStateWithoutNpc(c, code) ==
  [c EXCEPT !.tl = @ + 1,
            !.lvl[c.tl + 1] = [TPC |-> c.pc, TNPC |-> [c.pc EXCEPT !.n = @ + 1], TT |-> code,
                               TSTATE |-> [pstate |-> c.pstate, cc |-> c.cc, cwp |-> c.cwp]],
            !.pstate = ((@ \cup {"PRIV", "AG", "DTE"}) \ {"IE", "ITE"})
                       \ (IF code \in {"ITLB_MISS", "DTLB_MISS", "INSTR_FAULT", "DATA_FAULT"}
                          THEN {"DTE"} ELSE {})]
SaveCPUState(c, code) ==
  [c EXCEPT !.tl = @ + 1,
            !.lvl[c.tl + 1] = [TPC |-> c.pc, TNPC |-> c.npc, TT |-> code,
                               TSTATE |-> [pstate |-> c.pstate, cc |-> c.cc, cwp |-> c.cwp]],
            !.pstate = ((@ \cup {"PRIV", "AG", "DTE"}) \ {"IE", "ITE"})
                       \ (IF code \in {"ITLB_MISS", "DTLB_MISS", "INSTR_FAULT", "DATA_FAULT"}
                          THEN {"DTE"} ELSE {})]

\* What the handler finds in the registers of the buffers.
MissRegisters(m, code, page) ==
  CASE code = "ITLB_MISS" -> [m EXCEPT !.badaddr = page, !.index = MissEntry(m.i, page),
                                       !.tag = [page |-> page, valid |-> TRUE]]
    [] code = "DTLB_MISS" -> [m EXCEPT !.badaddr = page, !.index = MissEntry(m.d, page),
                                       !.tag = [page |-> page, valid |-> TRUE]]
    [] code \in {"INSTR_FAULT", "DATA_FAULT"} -> [m EXCEPT !.badaddr = page]
    [] OTHER -> m

\* A trap flushes the pipeline, an interrupt in the fetch queue included.
Trap(code, m, page, pending) ==
  /\ IF cpu.tl + 1 >= NUM_TRAPS
     THEN error' = "maximum trap level" /\ UNCHANGED <<cpu, mmu>>
     ELSE /\ cpu' = [SaveCPUState(cpu, code) EXCEPT !.pc = At(code, 1), !.npc = At(code, 2)]
          /\ mmu' = MissRegisters(m, code, page)
          /\ UNCHANGED error
  /\ irq' = [irq EXCEPT !.pending = pending, !.fetched = 0]
  /\ UNCHANGED <<mem, owner>>

Code(kind, result) == IF kind = "i" THEN IF result = "MISS" THEN "ITLB_MISS" ELSE "INSTR_FAULT"
                      ELSE IF result = "MISS" THEN "DTLB_MISS" ELSE "DATA_FAULT"

-----------------------------------------------------------------------------
\* Instructions. Each is given the buffers its fetch left.
Advance(c) == [c EXCEPT !.pc = c.npc, !.npc = [c.npc EXCEPT !.n = @ + 1]]
AG == IF "AG" \in cpu.pstate THEN 1 ELSE 0
G == cpu.g[AG]
Finish(c, m) == cpu' = Advance(c) /\ mmu' = m
Undisturbed == UNCHANGED <<irq, error>>
\* A serialized instruction flushes what was fetched behind it. The mutant does not.
SerializedLate == UNCHANGED irq
Serialized == irq' = [irq EXCEPT !.fetched = 0]

Compute(in, m) ==
  /\ in.op \in {"ADD", "JMP", "BCC"}
  /\ LET n == Advance(cpu)
         goto(k) == [n EXCEPT !.npc = At("user", k)]
     IN cpu' = CASE in.op = "ADD" -> [n EXCEPT !.g[AG] = (@ + 1) % 4, !.cc = G = 3]
                 [] in.op = "JMP" -> goto(in.k)
                 [] in.op = "BCC" -> IF cpu.cc THEN n ELSE goto(in.k)
  /\ mmu' = m /\ Undisturbed /\ UNCHANGED <<mem, owner>>

\* Loads and stores of programs, and those of the kernel to its save area.
IsWrite(in) == in.op \in {"ST", "SAVE"}
Access(in, m) ==
  /\ in.op \in {"LD", "ST", "SAVE", "RESTORE"}
  /\ \E r \in {Translate(m, "d", IF in.op \in {"LD", "ST"} THEN in.page ELSE KernelPage, IsWrite(in))} :
       LET after == WithTlb(m, "d", r.tlb)
       IN IF r.result # "HIT"
          THEN Trap(Code("d", r.result), after, IF in.op \in {"LD", "ST"} THEN in.page ELSE KernelPage,
                    irq.pending)
          ELSE /\ CASE in.op = "LD" -> /\ Finish([cpu EXCEPT !.g[AG] = mem.data[r.data.frame]], after)
                                       /\ UNCHANGED <<mem, owner, irq, error>>
                    [] in.op = "ST" -> /\ Finish(cpu, after)
                                       /\ mem' = [mem EXCEPT !.data[r.data.frame] = G]
                                       /\ UNCHANGED <<owner, irq, error>>
                    [] in.op = "SAVE" ->
                         /\ Finish(cpu, after) /\ Serialized
                         /\ mem' = [mem EXCEPT !.save[m.context][in.r] =
                                      IF in.r = "G" THEN cpu.g[0] ELSE cpu.lvl[cpu.tl][in.r]]
                         /\ UNCHANGED <<owner, error>>
                    [] in.op = "RESTORE" ->
                         /\ LET v == mem.save[m.context][in.r]
                            IN Finish(IF in.r = "G" THEN [cpu EXCEPT !.g[0] = v]
                                      ELSE [cpu EXCEPT !.lvl[cpu.tl][in.r] = v], after)
                         /\ owner' = [owner EXCEPT ![in.r] = m.context]
                         /\ Serialized /\ UNCHANGED <<mem, error>>

SystemTrap(in, m) == in.op = "TRAP" /\ Trap("SYSTRAP", m, 0, irq.pending)

\* RDPR: the privileged registers. The random registers count down, one step at
\* each graduation cycle, to the wired entries: between two instructions any
\* number of cycles pass.
Random(r, m) == IF r = "IRANDOM" THEN m.wired.i .. m.i.size - 1 ELSE m.wired.d .. m.d.size - 1
Read(r, m) ==
  CASE r = "TLB_TAG" -> {m.tag.page} [] r = "BADADDR" -> {m.badaddr}
    [] r = "CONTEXT" -> {m.context}  [] r = "TL" -> {cpu.tl}
    [] r \in {"IRANDOM", "DRANDOM"} -> Random(r, m)
RDPR(in, m) ==
  /\ in.op = "RDPR"
  /\ \E v \in Read(in.r, m) : Finish([cpu EXCEPT !.g[AG] = v], m)
  /\ Serialized /\ UNCHANGED <<mem, owner, error>>

\* WRPR, of an immediate or of a global register.
WRPR(in, m) ==
  /\ in.op = "WRPR"
  /\ LET v == IF in.imm THEN in.k ELSE G
         written ==
           CASE in.r = "INDEX"   -> [m EXCEPT !.index = v]
             [] in.r = "TLB_TAG" -> [m EXCEPT !.tag = [page |-> v, valid |-> in.valid]]
             [] in.r = "CONTEXT" -> [m EXCEPT !.context = v]
             [] in.r = "IWIRED"  -> [m EXCEPT !.wired.i = v]
             [] in.r = "DWIRED"  -> [m EXCEPT !.wired.d = v]
             [] in.r = "IDATA"   -> WithTlb(m, "i", WriteEntry(m.i, m.index, m.tag, m.context, cpu.word))
             [] in.r = "DDATA"   -> WithTlb(m, "d", WriteEntry(m.d, m.index, m.tag, m.context, cpu.word))
             [] in.r = "COMMAND" ->
                 (CASE v = "IPROBE" -> [m EXCEPT !.index = ProbeEntry(m.i, m.tag.page)]
                    [] v = "DPROBE" -> [m EXCEPT !.index = ProbeEntry(m.d, m.tag.page)]
                    [] v = "IFLUSH" -> WithTlb(m, "i", Flush(m.i))
                    [] v = "DFLUSH" -> WithTlb(m, "d", Flush(m.d)))
             [] OTHER -> m
         c == CASE in.r = "PSTATE" -> [cpu EXCEPT !.pstate = v]
                [] in.r = "PIL"    -> [cpu EXCEPT !.pil = v]
                [] in.r = "CWP"    -> [cpu EXCEPT !.cwp = v]
                [] OTHER           -> cpu
     IN /\ Finish(c, written)
        /\ error' = IF in.r \in {"IDATA", "DDATA"} /\ m.index < 0 THEN "write outside the buffer"
                    ELSE error
  /\ Serialized /\ UNCHANGED <<mem, owner>>

\* DONE and RETRY.
Resumed(c, retry) ==
  LET t == c.lvl[c.tl]
  IN [c EXCEPT !.pc = IF retry THEN t.TPC ELSE t.TNPC,
               !.npc = IF retry THEN t.TNPC ELSE [t.TNPC EXCEPT !.n = @ + 1],
               !.pstate = t.TSTATE.pstate, !.cwp = t.TSTATE.cwp, !.cc = t.TSTATE.cc,
               !.tl = @ - 1]
DONERETRY(in, m) ==
  /\ in.op \in {"DONE", "RETRY"}
  /\ IF cpu.tl = 0 THEN error' = "trap level 0" /\ UNCHANGED cpu
     ELSE cpu' = Resumed(cpu, in.op = "RETRY") /\ UNCHANGED error
  /\ mmu' = m /\ Serialized /\ UNCHANGED <<mem, owner>>

\* The kernel's other instructions: it reads and writes page tables at physical
\* addresses, answers faults, flips condition codes and changes address space.
PageTableWord(w) == tlb_read_word(mem.pt, mem.store, w, 2)
KernelStep(in, m) ==
  /\ in.op \in {"LDPTE", "STPTE", "REMAP", "OTHER", "CMP"}
  /\ LET w == EntryAddress(m.context, m.tag.page)
         fixed == Remap(m.context, m.tag.page, cpu.word)
     IN /\ in.op = "STPTE" => mem.store = <<>>
        /\ Finish(CASE in.op = "LDPTE" -> [cpu EXCEPT !.word = PageTableWord(w)]
                    [] in.op = "REMAP" -> [cpu EXCEPT !.word = fixed]
                    [] in.op = "OTHER" -> [cpu EXCEPT !.g[AG] = 1 - m.context]
                    [] in.op = "CMP"   -> [cpu EXCEPT !.cc = ~@]
                    [] OTHER           -> cpu, m)
        /\ mem' = CASE in.op = "STPTE" ->
                         [mem EXCEPT !.store = <<[op |-> "STW", addr |-> w, a |-> cpu.word, b |-> cpu.word,
                                                  ready |-> TRUE, tag |-> 1]>>]
                    [] in.op = "REMAP" /\ fixed.frame # cpu.word.frame ->
                         [mem EXCEPT !.data[fixed.frame] = mem.data[cpu.word.frame]]
                    [] OTHER -> mem
  /\ Undisturbed /\ UNCHANGED owner

-----------------------------------------------------------------------------
\* The instruction at pc: fetched through the buffer, or the handler's.
Text(frame, n) == Program(frame[2])[n]
There == IF cpu.pc.code = "user" THEN cpu.pc.n \in DOMAIN Program(mmu.context)
         ELSE cpu.pc.n \in DOMAIN Handler(cpu.pc.code, mmu.d)
Step ==
  /\ error = "none" /\ There
  /\ \E r \in {IF cpu.pc.code = "user" THEN Translate(mmu, "i", PageOf(cpu.pc.n), FALSE)
               ELSE Translate(mmu, "i", 0, FALSE)} :
       \E m \in {WithTlb(mmu, "i", r.tlb)} :
         IF r.result # "HIT" THEN Trap(Code("i", r.result), m, PageOf(cpu.pc.n), irq.pending)
         ELSE \E in \in {IF cpu.pc.code = "user" THEN Text(r.data.frame, cpu.pc.n)
                         ELSE Handler(cpu.pc.code, mmu.d)[cpu.pc.n]} :
           \/ Compute(in, m)
           \/ Access(in, m)
           \/ SystemTrap(in, m)
           \/ RDPR(in, m)
           \/ WRPR(in, m)
           \/ DONERETRY(in, m)
           \/ KernelStep(in, m)

\* Interrupts: posted by a device, put into the fetch queue when the processor
\* accepts one of its level, and taken when the instructions before it are done.
ExternalInterrupt(n) ==
  /\ irq.left[n] > 0
  /\ irq' = [irq EXCEPT !.pending = @ \cup {n}, !.left[n] = @ - 1]
  /\ UNCHANGED <<cpu, mmu, mem, owner, error>>
Highest == CHOOSE n \in irq.pending : \A o \in irq.pending : o <= n
FetchInterrupt ==
  /\ irq.fetched = 0 /\ irq.pending # {} /\ "IE" \in cpu.pstate
  /\ Highest > cpu.pil
  /\ irq' = [irq EXCEPT !.fetched = Highest]
  /\ UNCHANGED <<cpu, mmu, mem, owner, error>>
InterruptCode(n) == IF n = 1 THEN "INTERRUPT_01" ELSE "INTERRUPT_02"
TakeInterrupt ==
  /\ irq.fetched # 0 /\ error = "none"
  /\ Trap(InterruptCode(irq.fetched), mmu, 0, irq.pending \ {irq.fetched})

\* An instruction that will never graduate looks up its address.
Speculate(which, page) ==
  /\ \E r \in {Translate(mmu, which, page, FALSE)} : mmu' = WithTlb(mmu, which, r.tlb)
  /\ mmu' # mmu
  /\ UNCHANGED <<cpu, irq, mem, owner, error>>

\* The store of a page table word reaches memory.
Drain ==
  /\ mem.store # <<>>
  /\ mem' = [mem EXCEPT !.pt[mem.store[1].addr] = mem.store[1].a, !.store = <<>>]
  /\ UNCHANGED <<cpu, mmu, irq, owner, error>>

Next ==
  \/ Step
  \/ TakeInterrupt
  \/ FetchInterrupt
  \/ \E n \in Levels : ExternalInterrupt(n)
  \/ \E which \in {"i", "d"} : \E page \in DataPages : Speculate(which, page)
  \/ Drain

Spec == Init /\ [][Next]_vars
FairSpec == Spec /\ WF_vars(Step) /\ WF_vars(FetchInterrupt) /\ WF_vars(TakeInterrupt) /\ WF_vars(Drain)

\* An interrupt that waits in the fetch queue is one the processor still accepts:
\* an instruction before it that masks its level takes it out of the queue.
InterruptsArePermitted == irq.fetched # 0 => "IE" \in cpu.pstate /\ irq.fetched > cpu.pil
=============================================================================
