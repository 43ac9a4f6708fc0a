------------------------------ MODULE MCTraps ------------------------------
\* Two address spaces on one processor, interrupted twice. Pages 0 and 1 are code,
\* 2 and 4 data, 3 the kernel's. Page 4 is one frame that both spaces may only
\* read, copied at the first store; the second page of code of space 1 is not in
\* memory at first.
EXTENDS Traps

AllContexts == {0, 1}
UserPages == {2, 4}
CodePage(n) == IF n <= 3 THEN 0 ELSE 1
Op(op) == [op |-> op]
To(op, page) == [op |-> op, page |-> page]
Code0 == <<Op("ADD"), [op |-> "JMP", k |-> 5], To("ST", 4), Op("ADD"), Op("TRAP"), To("ST", 2),
           To("LD", 4)>>
Code1 == <<To("LD", 4), Op("ADD"), [op |-> "BCC", k |-> 5], To("ST", 2), To("ST", 4)>>
Programs(c) == IF c = 0 THEN Code0 ELSE Code1
FirstData(p) == IF p = 4 THEN 2 ELSE 0

Pte(frame) == [frame |-> frame, mvalid |-> TRUE, rdonly |-> FALSE, priv |-> FALSE]
FirstWord(c, page) ==
  CASE page \in {0, 1} -> [Pte(<<"code", c, page>>) EXCEPT !.rdonly = TRUE, !.mvalid = <<c, page>> # <<1, 1>>]
    [] page = 2 -> Pte(<<"data", c, page>>)
    [] page = 3 -> [Pte(<<"kernel", 0, page>>) EXCEPT !.priv = TRUE]
    [] page = 4 -> [Pte(<<"data", 8, page>>) EXCEPT !.rdonly = TRUE]
Words == {c * 8 + page : c \in AllContexts, page \in 0 .. 4}
FirstTables == [w \in Words |-> FirstWord(w \div 8, w % 8)]
Frames == {<<"data", c, p>> : c \in AllContexts, p \in UserPages} \cup {<<"data", 8, 4>>}
FirstMemory == [f \in Frames |-> FirstData(f[3])]
KernelRemap(c, page, word) ==
  IF ~word.mvalid THEN [word EXCEPT !.mvalid = TRUE]
  ELSE [word EXCEPT !.rdonly = FALSE, !.frame = <<"data", c, page>>]

\* The kernel.
RD(r) == [op |-> "RDPR", r |-> r]
WR(r) == [op |-> "WRPR", r |-> r, imm |-> FALSE, k |-> 0, valid |-> TRUE]
WRI(r, k) == [op |-> "WRPR", r |-> r, imm |-> TRUE, k |-> k, valid |-> FALSE]
Move(op, r) == [op |-> op, r |-> r]
Fill(kind, t) == (IF t.type = "FULLY" THEN <<RD(IF kind = "I" THEN "IRANDOM" ELSE "DRANDOM"), WR("INDEX")>>
                  ELSE <<>>)
                 \o <<Op("LDPTE"), WR(IF kind = "I" THEN "IDATA" ELSE "DDATA"), Op("RETRY")>>
Empty(kind, t) == IF t.size = 2 THEN <<WRI("INDEX", 0), WR(kind), WRI("INDEX", 1), WR(kind)>>
                  ELSE <<WRI("INDEX", 0), WR(kind), WRI("INDEX", 1), WR(kind), WRI("INDEX", 2), WR(kind),
                         WRI("INDEX", 3), WR(kind)>>
Fault(kind, t) == <<RD("BADADDR"), WR("TLB_TAG"), Op("LDPTE"), Op("REMAP"), Op("STPTE")>>
                  \o (IF t.tagged THEN <<WRI("TLB_TAG", 0)>> \o Empty(kind \o "DATA", t)
                      ELSE <<WRI("COMMAND", kind \o "PROBE"), WR(kind \o "DATA")>>)
                  \o <<Op("RETRY")>>
SwitchTo(t) == <<Op("OTHER"), WR("CONTEXT")>>
               \o (IF t.tagged THEN <<>> ELSE <<WRI("COMMAND", "IFLUSH"), WRI("COMMAND", "DFLUSH")>>)
Masked == {"PRIV", "AG", "DTE"}
Kernel(code, t) ==
  CASE code = "ITLB_MISS"    -> Fill("I", t)
    [] code = "DTLB_MISS"    -> Fill("D", t)
    [] code = "INSTR_FAULT"  -> Fault("I", t)
    [] code = "DATA_FAULT"   -> Fault("D", t)
    [] code = "SYSTRAP"      -> <<Op("CMP"), Op("DONE")>>
    [] code = "INTERRUPT_02" -> <<Op("CMP"), WRI("CWP", 3), Op("RETRY")>>
    [] code = "INTERRUPT_01" ->
         <<WRI("PIL", 1), WRI("PSTATE", Masked \cup {"IE"}), Move("SAVE", "TPC"), Move("SAVE", "TNPC"),
           Move("SAVE", "TSTATE"), Move("SAVE", "G")>>
         \o SwitchTo(t)
         \o <<Move("RESTORE", "TPC"), Move("RESTORE", "TNPC"), Move("RESTORE", "TSTATE"), Move("RESTORE", "G"),
              WRI("PSTATE", Masked), WRI("PIL", 0), Op("RETRY")>>

\* The buffers: each kind, and one buffer for instructions and data.
Pair(type, size, assoc, tagged, wired) ==
  [i |-> NewTLB(type, size, assoc, tagged), d |-> NewTLB(type, size, assoc, tagged),
   unified |-> FALSE, wired |-> [i |-> 0, d |-> wired]]
AllBuffers == {Pair("FULLY", 2, 2, FALSE, 1), Pair("DIRECT", 2, 1, FALSE, 0), Pair("SET", 4, 2, TRUE, 0),
               Pair("PERFECT", 2, 2, FALSE, 0), [Pair("SET", 4, 2, FALSE, 0) EXCEPT !.unified = TRUE]}
Interrupts == [n \in 1 .. 2 |-> 1]

-----------------------------------------------------------------------------
\* Refinement: what each address space sees of its registers and memory, wherever
\* the kernel has put them.
Live == IF cpu.tl = 0
        THEN [TPC |-> cpu.pc, TNPC |-> cpu.npc, G |-> cpu.g[0], TSTATE |-> [cc |-> cpu.cc, cwp |-> cpu.cwp]]
        ELSE [TPC |-> cpu.lvl[1].TPC, TNPC |-> cpu.lvl[1].TNPC, G |-> cpu.g[0], TSTATE |-> cpu.lvl[1].TSTATE]
Register(c, r) == IF owner[r] = c THEN Live[r] ELSE mem.save[c][r]
Threads == [c \in Contexts |->
  [pc |-> Register(c, "TPC").n, npc |-> Register(c, "TNPC").n, g |-> Register(c, "G"),
   cc |-> Register(c, "TSTATE").cc, cwp |-> Register(c, "TSTATE").cwp,
   data |-> [p \in DataPages |-> mem.data[PageTableWord(EntryAddress(c, p)).frame]]]]
User == INSTANCE UserProgram WITH thread <- Threads

\* Traps, interrupts, translation misses, faults and changes of address space are
\* invisible to a program: every step is an instruction of one address space, with
\* its own registers and memory, or none (SaveCPUState, DONERETRY, except.cc).
TrapsAreInvisible == User!Spec

\* No call of YS__errmsg: the trap stack suffices, the entry a miss should fill
\* exists and DONE and RETRY have a trap to return from (tlb.cc:289, except.cc:753).
NoFault == error = "none"

\* While a program runs, what a buffer answers for a page is what the page table of
\* its address space says, the stores to it that have not reached memory included.
Agrees(t, page) ==
  LET n == Found(t, page, mmu.context)
  IN n # -1 => t.entries[n].data = PageTableWord(EntryAddress(mmu.context, page))
TlbAgreesWithPageTable ==
  cpu.tl = 0 => (\A page \in {0, 1} : Agrees(mmu.i, page)) /\ (\A page \in DataPages : Agrees(mmu.d, page))

\* Translation works and never runs out of room.
TranslationHolds == NoFault /\ TlbAgreesWithPageTable

\* With a buffer each for instructions and data, the running program ends: no
\* instruction misses forever, and no accepted interrupt is lost.
EveryRunEnds ==
  mmu.unified \/ <>[](/\ cpu.tl = 0 /\ cpu.pc.n \notin DOMAIN Program(mmu.context)
                      /\ \A n \in irq.pending : n <= cpu.pil)
=============================================================================
