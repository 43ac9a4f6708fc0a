------------------------------ MODULE Pipeline ------------------------------
(***************************************************************************)
(* The out-of-order core of the simulated processor: decode and rename,    *)
(* the shadow mappers of the branches, the functional units and their      *)
(* queues, the active list, the tag converter and the exception handler    *)
(* (src/src/Processor/exec.cc, branchpred.cc, active.cc, except.cc).       *)
(*                                                                         *)
(* The phases of a cycle are separate actions: latencies depend on the     *)
(* instruction and on the caches, so any instruction in execution may      *)
(* finish next.  The state of a processor is one record, proc, and an      *)
(* operator named after a function of the code takes such a record to the  *)
(* next one.  Floating-point and paired registers are left out; the memory *)
(* unit (MemoryUnit.tla) is seen through the answers it gives to loads.    *)
(*                                                                         *)
(* An instruction is identified by its tag.  Queues of the code hold       *)
(* instances with their tags and skip the ones that were flushed since;    *)
(* here a flushed instruction leaves them with its flush, except in        *)
(* ReadyQueue, where a skipped entry gives a unit back.                    *)
(***************************************************************************)
EXTENDS Instructions, FiniteSets, SequencesExt

CONSTANTS
    MAX_ACTIVE,     \* instructions in the active list
    MAX_SPEC,       \* shadow mappers
    ALU_UNITS,      \* units of the one functional unit modelled
    MAX_ALU,        \* size of its issue queue, max_active_instr[uALU]
    MAX_MEM,        \* and of the memory queue, max_active_instr[uMEM]
    MaxTag          \* bound: instructions decoded in a behaviour

ASSUME PipelineAssumption ==
    /\ {MAX_ACTIVE, MAX_SPEC, ALU_UNITS, MAX_ALU, MAX_MEM, MaxTag} \subseteq Nat \ {0}

NoTag == 0          \* no stall, no saved instruction
NumPhys == Cardinality(LogRegs) + 2 * MAX_ACTIVE       \* NO_OF_PHY_INT_REGS
PhysRegs == 0 .. NumPhys - 1
WindowTraps == {"WINOVERFLOW", "WINUNDERFLOW", "CLEANWINDOW"}
SoftExceptions == {"SOFT_SL_COHE"}
Unit(i) == IF i.k = "ld" THEN "uMEM" ELSE "uALU"

VARIABLES prog, proc

vars == <<prog, proc>>

\* TheBadPC: the instruction that carries an exception of the fetch stage
Nop == [k |-> "op", s1 |-> "z", s2 |-> "z", d |-> "z", cc |-> FALSE,
        annul |-> FALSE, tgt |-> 0]

-----------------------------------------------------------------------------
(* Registers and stalls *)

\* Stack::reset leaves 0 .. NumPhys-2; the mapper takes its registers off the top.
ResetMap == [r \in LogRegs |-> IF r = ZEROREG THEN 0 ELSE NumPhys - 1 - r]
ResetFree == [k \in 1 .. 2 * MAX_ACTIVE |-> 2 * MAX_ACTIVE - k]     \* top first

AddFreeReg(p, r) == IF r = 0 THEN p ELSE [p EXCEPT !.free = <<r>> \o @]

Unstall(p) == [p EXCEPT !.stall_the_rest = NoTag, !.badbr = FALSE]

\* check_dependencies() != 0: the instruction waits in inst_save
Stall(p, t) == [p EXCEPT !.stall_the_rest = t, !.badbr = FALSE, !.inst_save = t]

\* A DEBUG check of the code that would end the simulation
Error(p, failed) == [p EXCEPT !.error = @ \/ failed]

Undo(p, i) ==       \* unupdate CWP
    LET c == WindowChange(i.code) IN
    [p EXCEPT !.win.cwp = ((@ + NUM_WINS) - c) % NUM_WINS,
              !.win.cansave = @ + c, !.win.canrestore = @ - c]
MustUndo(i) == i.strucdep # 2 /\ i.exception \notin WindowTraps

-----------------------------------------------------------------------------
(* Functional units and their queues *)

Issue(p, t) ==
    [p EXCEPT !.ReadyQueue = Append(@, t), !.UnitsFree = @ - 1,
              !.active_instr["uALU"] = @ - 1, !.inst[t].issued = TRUE]

SendToFU(p, t) ==
    LET i == p.inst[t]
        q == [p EXCEPT !.inst[t].a = p.phy[i.prs1], !.inst[t].b = p.phy[i.prs2],
                       !.inst[t].cc = p.phy[i.prscc]] IN
    CASE Unit(i.code) = "uMEM" -> q
      [] Unit(i.code) # "uMEM" /\ q.UnitsFree = 0 -> [q EXCEPT !.UnitQ = Append(@, t)]
      [] OTHER -> Issue(q, t)

LetOneUnitStalledGuyGo(p) ==
    LET q == [p EXCEPT !.UnitsFree = @ + 1] IN
    IF p.UnitQ = <<>> THEN q ELSE Issue([q EXCEPT !.UnitQ = Tail(@)], Head(p.UnitQ))

ClearBusy(p, w) ==
    LET q == [p EXCEPT !.inst[w.tag].busybits = @ \ {w.bit}] IN
    IF q.inst[w.tag].busybits = {} THEN SendToFU(q, w.tag) ELSE q

\* register r is no longer busy: wake its waiters in the order they came
ClearAll(p, r) ==
    LET q == FoldLeft(ClearBusy, [p EXCEPT !.busy = @ \ {r}], p.dist_stallq[r]) IN
    [q EXCEPT !.dist_stallq[r] = <<>>]

-----------------------------------------------------------------------------
(* Decode *)

\* What the predictors may answer: [taken, branch_pred]
Predictions(i, at) ==
    CASE i.k = "ba" -> {[taken |-> 2, target |-> i.tgt]}
      [] i.k = "jmp" -> {[taken |-> 3, target |-> NoPC]}
      [] i.k = "ret" -> {[taken |-> 1, target |-> x] : x \in {i.tgt, i.tgt + 1}}
      [] i.k = "bcc" -> {[taken |-> 1, target |-> i.tgt], [taken |-> 0, target |-> at + 2]}
      [] OTHER -> {[taken |-> 0, target |-> NoPC]}

\* decode_branch_instruction(): where to fetch next, and who saves the mappers
DecodeBranch(p, i, b) ==
    LET skip == i.annul /\ (i.k \in UncondBranch \/ b.taken = 0)
        to == IF i.k \in UncondBranch THEN b.target ELSE p.npc + 1 IN
    IF i.k \notin ControlTransfer THEN [p EXCEPT !.pc = p.npc, !.npc = p.npc + 1]
    ELSE [p EXCEPT !.pc = IF skip THEN to ELSE p.npc,
                   !.npc = IF skip THEN to + 1
                           ELSE IF b.taken = 0 THEN p.npc + 1 ELSE b.target,
                   !.copymappernext = ~i.annul /\ b.taken \in {0, 1},
                   !.unpredbranch = @ \/ b.taken = 3]

BranchDep(p, i, b) ==
    CASE i.k \in ControlTransfer /\ b.taken = 3 -> 1
      [] i.k \in ControlTransfer /\ i.annul /\ b.taken \in {0, 1} -> 2
      [] OTHER -> IF p.copymappernext THEN 2 ELSE 0

\* decode_instruction() and AddtoTagConverter()
DecodeInstruction(p, i, b, e) ==
    LET t == p.instruction_count
        w == p.win.cwp
        trapped == WindowTrap(i, p.win.cansave, p.win.canrestore, p.win.cleanwin)
        ok == trapped = "OK"
        new == IF ok THEN ((w + NUM_WINS) + WindowChange(i)) % NUM_WINS ELSE w
        inst == [code |-> i, pc |-> p.pc, npc |-> p.npc, win_num |-> new,
                 prs1 |-> p.intmapper[ArchToLog(w, i.s1)],
                 prs2 |-> p.intmapper[ArchToLog(w, i.s2)],
                 prscc |-> p.intmapper[ArchToLog(w, SrcCC(i))],
                 lrd |-> IF ok THEN ArchToLog(new, i.d) ELSE ZEROREG,
                 lrcc |-> IF ok /\ i.cc THEN ArchToLog(new, "cc") ELSE ZEROREG,
                 prd |-> 0, prcc |-> 0, a |-> 0, b |-> 0, cc |-> 0,
                 strucdep |-> 2, branchdep |-> BranchDep(p, i, b), busybits |-> {},
                 exception |-> IF e = "OK" THEN trapped ELSE e,
                 taken |-> b.taken, branch_pred |-> b.target, newpc |-> b.target,
                 mispredicted |-> FALSE, issued |-> FALSE]
        q == [Unstall(p) EXCEPT !.instruction_count = t + 1,
                       !.tag_cvt = Append(@, [tag |-> t, count |-> 0]),
                       !.inst = (t :> inst) @@ @,
                       !.copymappernext = FALSE] IN
    DecodeBranch(q, i, b)

-----------------------------------------------------------------------------
(* Rename: check_dependencies() *)

AddToActiveList(p, t, l, r) ==
    [p EXCEPT !.active_list = Append(@, [tag |-> t, log |-> l, phyreg |-> p.intmapper[l],
                                         done |-> FALSE, exception |-> "OK"]),
              !.intmapper[l] = r,
              !.busy = IF r = 0 THEN @ ELSE @ \cup {r}]

\* cases 2 and 4: the destination register, and the window it is in
RenameDestination(p, t) ==
    LET i == p.inst[t]
        c == WindowChange(i.code)
        needs == i.lrd # ZEROREG
        prd == IF needs THEN Head(p.free) ELSE 0
        rest == IF needs THEN Tail(p.free) ELSE p.free IN
    IF needs /\ p.free = <<>> THEN Stall(p, t)
    ELSE IF Len(p.active_list) = 2 * MAX_ACTIVE
    THEN Stall(AddFreeReg([p EXCEPT !.free = rest], prd), t)
    ELSE LET q == [p EXCEPT !.free = rest, !.win.cwp = i.win_num,
                            !.inst[t].prd = prd, !.inst[t].strucdep = 5] IN
         AddToActiveList(IF i.exception \in {"WINOVERFLOW", "WINUNDERFLOW"} THEN q
                         ELSE [q EXCEPT !.win.cansave = @ - c, !.win.canrestore = @ + c],
                         t, i.lrd, prd)

\* cases 5 and 6: the condition codes
RenameConditionCodes(p, t) ==
    LET i == p.inst[t]
        needs == i.lrcc # ZEROREG
        prcc == IF needs THEN Head(p.free) ELSE 0 IN
    IF needs /\ p.free = <<>> THEN Stall(p, t)
    ELSE AddToActiveList([p EXCEPT !.free = IF needs THEN Tail(@) ELSE @,
                                   !.inst[t].prcc = prcc, !.inst[t].strucdep = 0],
                         t, i.lrcc, prcc)

AddBranchQ(p, t) ==
    [p EXCEPT !.branchq = Append(@, [tag |-> t, imap |-> p.intmapper]),
              !.inst[t].branchdep = 0]

BranchDependenciesWithoutStall(p, t) ==
    LET i == p.inst[t]
        q == IF i.branchdep # 2 THEN p
             ELSE IF Len(p.branchq) < MAX_SPEC THEN AddBranchQ(p, t)
             ELSE [p EXCEPT !.BranchDepQ = Append(@, t)] IN
    IF q.unpredbranch /\ (i.branchdep # 1 \/ i.code.annul)
    THEN [q EXCEPT !.stall_the_rest = t, !.badbr = TRUE] ELSE q

\* a branch or delay slot that must save the mappers, and the stall behind a
\* target that could not be predicted
BranchDependencies(p, t) ==
    LET i == p.inst[t]
        q == IF i.branchdep # 2 THEN p
             ELSE IF Len(p.branchq) < MAX_SPEC THEN AddBranchQ(p, t)
             ELSE [p EXCEPT !.stall_the_rest = t, !.BranchDepQ = Append(@, t)] IN
    IF q.unpredbranch /\ (i.branchdep # 1 \/ i.code.annul)
    THEN [q EXCEPT !.stall_the_rest = t, !.badbr = TRUE] ELSE q

\* true dependencies, the memory queue, SYNC, and issue
DataDependencies(p, t) ==
    LET i == p.inst[t]
        Wait(q, w) ==
            IF w.reg \notin p.busy THEN q
            ELSE [q EXCEPT !.inst[t].busybits = @ \cup {w.bit},
                           !.dist_stallq[w.reg] = Append(@, [tag |-> t, bit |-> w.bit])]
        q == FoldLeft(Wait,
                [p EXCEPT !.mem = IF Unit(i.code) = "uMEM" THEN @ \cup {t} ELSE @,
                          !.sync = i.code.k = "sync"],
                <<[reg |-> i.prs1, bit |-> "rs1"], [reg |-> i.prs2, bit |-> "rs2"],
                  [reg |-> i.prscc, bit |-> "rscc"]>>) IN
    IF q.inst[t].busybits = {} THEN SendToFU(q, t) ELSE q

CheckDependencies(p, t) ==
    LET u == Unit(p.inst[t].code)
        start == [p EXCEPT !.inst_save = NoTag]
        one == IF p.inst[t].strucdep = 2 THEN RenameDestination(start, t) ELSE start
        two == IF one.inst_save = t THEN one ELSE RenameConditionCodes(one, t)
        in == [two EXCEPT !.active_instr[u] = @ + 1] IN
    IF p.active_instr[u] >= (IF u = "uMEM" THEN MAX_MEM ELSE MAX_ALU) THEN Stall(p, t)
    ELSE IF two.inst_save = t THEN two
    ELSE DataDependencies(
            BranchDependencies(IF in.stall_the_rest = t THEN Unstall(in) ELSE in, t), t)

-----------------------------------------------------------------------------
(* Flushing *)

FlushBranchQ(p, t) == [p EXCEPT !.branchq = SelectSeq(@, LAMBDA b : b.tag < t)]

\* Instruction t is gone: DeleteInstance, and the queues that would skip it
DeleteInstance(p, t) ==
    LET Other(x) == x # t IN
    [p EXCEPT !.inst = [x \in DOMAIN @ \ {t} |-> @[x]],
              !.Running = @ \ {t}, !.mem = @ \ {t},
              !.UnitQ = SelectSeq(@, Other), !.BranchDepQ = SelectSeq(@, Other),
              !.dist_stallq = [r \in PhysRegs |-> SelectSeq(@[r], LAMBDA w : w.tag # t)]]

\* The instruction in inst_save has not been renamed, or not wholly.
FlushStallQ(p, t) ==
    LET s == p.inst_save IN
    IF s = NoTag \/ s <= t THEN p
    ELSE LET q == IF MustUndo(p.inst[s]) THEN Undo(p, p.inst[s]) ELSE p IN
         DeleteInstance([q EXCEPT !.inst_save = NoTag, !.tag_cvt = Front(@)], s)

ReturnOneRegister(p, t) ==
    LET i == p.inst[t]
        q == ClearAll(AddFreeReg(p, i.prd), i.prd)
        u == Unit(i.code)
        s == [q EXCEPT !.active_instr[u] = IF u = "uMEM" \/ ~i.issued THEN @ - 1 ELSE @] IN
    DeleteInstance(IF MustUndo(i) THEN Undo(s, i) ELSE s, t)

\* What a flushed instruction gives back once its second element leaves
ReturnResources(p, t) ==
    LET i == p.inst[t]
        q == ClearAll(AddFreeReg(p, i.prd), i.prd)
        r == ClearAll(AddFreeReg(q, i.prcc), i.prcc)
        u == Unit(i.code)
        s == [r EXCEPT !.active_instr[u] = IF u = "uMEM" \/ ~i.issued THEN @ - 1 ELSE @,
                       !.sync = @ /\ i.code.k # "sync"] IN
    DeleteInstance(IF MustUndo(i) THEN Undo(s, i) ELSE s, t)

\* One turn of flush_active_list's loop: the element at the tail.
FlushElement(p, e) ==
    IF p.tag_cvt = <<>> THEN Error(p, TRUE)         \* no translation for this tag
    ELSE LET l == Last(p.tag_cvt)
             q == Error([p EXCEPT !.active_list = Front(@)], l.tag # e.tag) IN
         IF l.count = 0
         THEN [q EXCEPT !.tag_cvt = Append(Front(@), [l EXCEPT !.count = 1])]
         ELSE ReturnResources([q EXCEPT !.tag_cvt = Front(@)], l.tag)

FlushActiveList(p, t) ==
    FoldLeft(FlushElement,
             [Unstall(p) EXCEPT !.copymappernext = FALSE, !.unpredbranch = FALSE],
             Reverse(SelectSeq(p.active_list, LAMBDA e : e.tag > t)))

-----------------------------------------------------------------------------
(* Resolving branches *)

\* A branch waiting for a shadow mapper gets the one that was freed.
ReviveBranch(p) ==
    IF p.BranchDepQ = <<>> THEN p
    ELSE LET t == Head(p.BranchDepQ) IN
         Unstall(AddBranchQ(Error([p EXCEPT !.BranchDepQ = Tail(@)],
                                  Len(p.branchq) >= MAX_SPEC \/ p.stall_the_rest # t), t))

\* The instruction the shadow mapper of a branch belongs to: itself when its
\* slot is annulled, else its delay slot.
MapperTag(p, t) == IF p.inst[t].code.annul THEN t ELSE t + 1
SlotMissing(p, t) == MapperTag(p, t) = Last(p.tag_cvt).tag + 1

StopWaitingInQueue(p, m) ==
    [Unstall(Error(p, p.stall_the_rest # m)) EXCEPT !.inst[m].branchdep = 0]

\* It never got its mapper: stop waiting for one.
StopWaiting(p, m) ==
    LET head == IF p.BranchDepQ = <<>> THEN m ELSE Head(p.BranchDepQ) IN
    [Unstall(Error(p, p.stall_the_rest # m \/ head # m))
        EXCEPT !.inst[m].branchdep = 0,
               !.BranchDepQ = IF @ = <<>> THEN @ ELSE Tail(@)]

GoodPrediction(p, t) ==
    LET m == MapperTag(p, t) IN
    CASE SlotMissing(p, t) -> [p EXCEPT !.copymappernext = FALSE]
      [] ~SlotMissing(p, t) /\ (\E k \in DOMAIN p.branchq : p.branchq[k].tag = m) ->
            ReviveBranch([p EXCEPT !.branchq = SelectSeq(@, LAMBDA b : b.tag # m)])
      [] OTHER -> IF p.inst[m].branchdep = 2 THEN StopWaiting(p, m) ELSE p

\* CopyBranchQ(): the mappers as they were saved
CopyBranchQ(p, m) ==
    LET saved == SelectSeq(p.branchq, LAMBDA b : b.tag = m) IN
    IF saved = <<>> THEN p ELSE [p EXCEPT !.intmapper = Head(saved).imap]

BadPrediction(p, t) ==
    LET m == MapperTag(p, t)
        q == [p EXCEPT !.inst[m].npc = p.pc]
        r == IF p.inst[m].branchdep = 2 THEN StopWaiting(q, m) ELSE CopyBranchQ(q, m) IN
    IF SlotMissing(p, t) THEN [p EXCEPT !.copymappernext = FALSE]
    ELSE FlushActiveList(FlushStallQ(FlushBranchQ(r, m), m), m)

RedirectPastSlot(p, t) ==
    LET i == p.inst[t] IN
    [p EXCEPT !.pc = i.newpc, !.npc = i.newpc + 1]

\* Where to fetch after a misprediction, by what has been decoded since.
Redirect(p, t) ==
    LET i == p.inst[t]
        slot == \/ p.copymappernext /\ t + 1 = p.instruction_count
                \/ i.code.annul /\ i.code.k \in CondBranch /\ i.taken = 0 IN
    [p EXCEPT !.pc = IF slot THEN i.pc + 1 ELSE i.newpc,
              !.npc = IF slot THEN i.newpc ELSE i.newpc + 1]

\* HandleUnPredicted() and the code around it: the target is known at last.
ResolveUnpredicted(p, t) ==
    LET i == p.inst[t]
        m == MapperTag(p, t)
        none == i.code.annul \/ t + 1 # p.instruction_count
        q == [p EXCEPT !.pc = IF none THEN i.newpc ELSE i.pc + 1,
                       !.npc = IF none THEN i.newpc + 1 ELSE i.newpc,
                       !.unpredbranch = FALSE]
        r == IF m = p.instruction_count THEN q
             ELSE [q EXCEPT !.inst[m].npc = q.pc, !.inst[m].branchdep = 0] IN
    IF p.stall_the_rest = t \/ p.badbr THEN Unstall(r) ELSE r

ResolveBranch(p, t) ==
    LET i == p.inst[t]
        q == IF i.branchdep = 1 THEN ResolveUnpredicted(p, t) ELSE p IN
    CASE i.code.k \notin ControlTransfer -> p
      [] i.code.k = "ba" \/ q.inst[t].branchdep = 1 -> q
      [] i.code.k \in ControlTransfer /\ i.code.k # "ba" /\ q.inst[t].branchdep # 1 ->
            IF i.mispredicted THEN BadPrediction(Redirect(q, t), t)
            ELSE GoodPrediction(q, t)

-----------------------------------------------------------------------------
(* Completion: update_cycle() *)

MarkDone(p, t) ==
    [p EXCEPT !.active_list =
        [k \in DOMAIN @ |-> IF @[k].tag # t THEN @[k]
                            ELSE [@[k] EXCEPT !.done = TRUE,
                                              !.exception = p.inst[t].exception]]]

WriteBack(p, r, v) ==
    ClearAll(IF r = 0 THEN p ELSE [p EXCEPT !.phy[r] = v], r)

UpdateCycle(p, t) ==
    LET i == p.inst[t]
        q == IF p.stall_the_rest = t /\ i.branchdep = 0 /\ ~p.unpredbranch
             THEN Unstall(p) ELSE p
        r == ResolveBranch(q, t) IN
    IF i.exception \notin SoftExceptions \cup {"OK"} THEN MarkDone(r, t)
    ELSE MarkDone(WriteBack(WriteBack(r, i.prd, Result(i.code, i.pc, i.a, i.b)),
                            i.prcc, CondCodes(i.code, i.pc, i.a, i.b)), t)

\* the instruction's function in funcs.cc
Execute(p, t) ==
    LET i == p.inst[t]
        taken == IF Taken(i.cc) THEN 1 ELSE 0
        to == CASE i.code.k = "bcc" -> IF taken = 1 THEN i.code.tgt ELSE i.pc + 2
                [] i.code.k \in {"jmp", "ret"} -> JumpTarget(i.code, i.a)
                [] OTHER -> i.newpc IN
    [p EXCEPT !.inst[t].newpc = to,
              !.inst[t].mispredicted = IF i.code.k = "bcc" THEN taken # i.taken
                                       ELSE to # i.branch_pred,
              !.inst[t].exception = IF i.code.k \in Serialized THEN "SERIALIZE" ELSE @]

-----------------------------------------------------------------------------
(* Graduation and exceptions *)

ResetLists(p) ==
    [Unstall(p) EXCEPT !.copymappernext = FALSE, !.unpredbranch = FALSE, !.busy = {},
        !.free = ResetFree, !.intmapper = ResetMap,
        !.phy = [r \in PhysRegs |->
                    IF \E l \in LogRegs : ResetMap[l] = r
                    THEN p.log[CHOOSE l \in LogRegs : ResetMap[l] = r] ELSE @[r]]]

\* write a logical register, in its file and in its physical register
SetLog(p, l, v) == [p EXCEPT !.log[l] = v, !.phy[p.intmapper[l]] = v]

ProcessSerializedInstruction(p, i) ==
    LET next == [p EXCEPT !.pc = i.npc, !.npc = i.npc + 1] IN
    CASE i.code.k = "wr" -> SetLog(next, i.lrd, Result(i.code, i.pc, i.a, i.b))
      [] i.code.k = "retry" /\ p.trap # <<>> ->
            SetLog([p EXCEPT !.pc = Head(p.trap).pc, !.npc = Head(p.trap).npc,
                             !.win.cwp = Head(p.trap).cwp, !.trap = Tail(@)],
                   ArchToLog(0, "cc"), Head(p.trap).cc)
      [] i.code.k = "retry" /\ p.trap = <<>> -> Error(p, TRUE)
      [] OTHER -> [next EXCEPT !.win = WindowState(i.code, @)]

\* SaveCPUState(), the window of the handler and its address
EnterHandler(p, i) ==
    [p EXCEPT !.trap = <<[pc |-> i.pc, npc |-> i.npc, cwp |-> p.win.cwp,
                          cc |-> p.log[ArchToLog(0, "cc")]]>> \o @,
              !.win.cwp = HandlerWindow(i.exception, @),
              !.pc = Handler[i.exception], !.npc = Handler[i.exception] + 1]

\* ExceptionHandler(), called when the head of the active list is excepting;
\* the first of its two elements has left the list.
ExceptionHandler(p, t) ==
    LET i == p.inst[t]
        q == FlushStallQ(FlushBranchQ(p, t), t - 1)
        units == [q EXCEPT !.UnitsFree = ALU_UNITS, !.FreeingUnits = 0, !.ReadyQueue = <<>>]
        r == ResetLists(FlushActiveList(units, t - 1)) IN
    CASE i.exception = "SERIALIZE" -> ProcessSerializedInstruction(r, i)
      [] i.exception \in SoftExceptions -> [r EXCEPT !.pc = i.pc, !.npc = i.npc]
      [] OTHER -> EnterHandler(r, i)

\* the two elements of the head leave with its old registers; its results
\* become the architectural ones
GraduateHead(p, t) ==
    LET i == p.inst[t]
        e == p.active_list
        q == AddFreeReg(AddFreeReg(Error(p, {i.prd, i.prcc} \cap p.busy # {}),
                                   e[1].phyreg), e[2].phyreg) IN
    DeleteInstance(
        [q EXCEPT !.active_list = SubSeq(@, 3, Len(@)), !.tag_cvt = Tail(@),
                  !.log[i.lrd] = p.phy[i.prd],
                  !.log[i.lrcc] = p.phy[i.prcc],
                  !.sync = @ /\ i.code.k # "sync",
                  !.active_instr["uMEM"] = IF Unit(i.code) = "uMEM" THEN @ - 1 ELSE @], t)

-----------------------------------------------------------------------------
(* The phases of a cycle *)

\* decode_cycle(): an instruction from the fetch queue, or an interrupt in its place
Decode ==
    /\ proc.inst_save = NoTag /\ proc.stall_the_rest = NoTag /\ ~proc.sync
    /\ proc.instruction_count <= MaxTag
    /\ proc.pc \in PCs /\ prog[proc.pc].k # "halt"
    /\ \/ \E b \in Predictions(prog[proc.pc], proc.pc) :
            proc' = CheckDependencies(DecodeInstruction(proc, prog[proc.pc], b, "OK"),
                                      proc.instruction_count)
       \/ /\ proc.trap = <<>>             \* PSTATE_GET_IE
          /\ "INTERRUPT" \in DOMAIN Handler
          /\ LET t == proc.instruction_count
                 b == CHOOSE x \in Predictions(Nop, proc.pc) : TRUE
                 q == DecodeInstruction(proc, Nop, b, "INTERRUPT") IN
             proc' = CheckDependencies([q EXCEPT !.stall_the_rest = t, !.badbr = TRUE], t)

\* decode_cycle(): try the saved instruction again
RetryDecode ==
    /\ proc.inst_save # NoTag
    /\ proc' = CheckDependencies(proc, proc.inst_save)
    /\ proc' # proc

\* IssueQueues(), one instruction: a flushed one gives its unit back
IssueReady ==
    /\ proc.ReadyQueue # <<>>
    /\ LET t == Head(proc.ReadyQueue)
           q == [proc EXCEPT !.ReadyQueue = Tail(@)] IN
       proc' = IF t \notin DOMAIN proc.inst THEN LetOneUnitStalledGuyGo(q)
               ELSE [q EXCEPT !.FreeingUnits = @ + 1, !.Running = @ \cup {t}]

FreeUnit ==
    /\ proc.FreeingUnits > 0
    /\ proc' = LetOneUnitStalledGuyGo([proc EXCEPT !.FreeingUnits = @ - 1])

\* CompleteQueues() and update_cycle() for one instruction
Complete(t) ==
    /\ t \in proc.Running
    /\ proc' = UpdateCycle(Execute([proc EXCEPT !.Running = @ \ {t}], t), t)

\* the memory unit answers a load whose address is known
MemoryAnswer(t) ==
    /\ t \in proc.mem
    /\ proc.inst[t].busybits = {}
    /\ \E e \in {"OK", "DTLB_MISS"} :
        /\ e = "DTLB_MISS" => e \in DOMAIN Handler /\ proc.trap = <<>>
        /\ proc' = UpdateCycle([proc EXCEPT !.mem = @ \ {t}, !.inst[t].exception = e], t)

\* the memory unit finds that a finished load was speculated wrongly
FlagException(t) ==
    /\ t \in DOMAIN proc.inst
    /\ proc.inst[t].code.k = "ld" /\ proc.inst[t].exception = "OK"
    /\ \E k \in DOMAIN proc.active_list : proc.active_list[k].tag = t /\ proc.active_list[k].done
    /\ proc' = MarkDone([proc EXCEPT !.inst[t].exception = "SOFT_SL_COHE"], t)

\* remove_from_active_list(), one instruction
Graduate ==
    /\ proc.active_list # <<>>
    /\ Head(proc.active_list).done
    /\ LET t == Head(proc.active_list).tag IN
       proc' = IF Head(proc.active_list).exception = "OK" THEN GraduateHead(proc, t)
               ELSE ExceptionHandler([proc EXCEPT !.active_list = Tail(@),
                                                  !.tag_cvt[1].count = @ + 1], t)

\* the program has ended, or the bound on tags has been reached
Finished ==
    /\ proc.tag_cvt = <<>>
    /\ \/ proc.instruction_count > MaxTag
       \/ proc.pc \notin PCs
       \/ prog[proc.pc].k = "halt"
    /\ UNCHANGED proc

Init ==
    /\ prog \in Programs
    /\ \E w \in Windows :
        proc = [pc |-> 0, npc |-> 1, instruction_count |-> 1,
                stall_the_rest |-> NoTag, badbr |-> FALSE, inst_save |-> NoTag,
                copymappernext |-> FALSE, unpredbranch |-> FALSE, sync |-> FALSE,
                inst |-> <<>>, tag_cvt |-> <<>>, active_list |-> <<>>,
                branchq |-> <<>>, BranchDepQ |-> <<>>,
                intmapper |-> ResetMap, free |-> ResetFree, busy |-> {},
                phy |-> [r \in PhysRegs |-> 0], log |-> [l \in LogRegs |-> 0],
                dist_stallq |-> [r \in PhysRegs |-> <<>>],
                ReadyQueue |-> <<>>, UnitQ |-> <<>>, Running |-> {}, FreeingUnits |-> 0,
                UnitsFree |-> ALU_UNITS, active_instr |-> [u \in {"uALU", "uMEM"} |-> 0],
                mem |-> {}, win |-> w, trap |-> <<>>, error |-> FALSE]

Next ==
    /\ \/ Decode \/ RetryDecode
       \/ IssueReady \/ FreeUnit
       \/ \E t \in proc.Running : Complete(t)
       \/ \E t \in proc.mem : MemoryAnswer(t)
       \/ \E t \in DOMAIN proc.inst : FlagException(t)
       \/ Graduate
       \/ Finished
    /\ UNCHANGED prog

Spec == Init /\ [][Next]_vars

-----------------------------------------------------------------------------
(* Properties *)

TypeOK ==
    /\ prog \in Programs
    /\ proc.intmapper \in [LogRegs -> PhysRegs]
    /\ \A t \in DOMAIN proc.inst : t \in 1 .. MaxTag
    /\ {t.tag : t \in ToSet(proc.tag_cvt)} = DOMAIN proc.inst
    /\ proc.UnitsFree \in 0 .. ALU_UNITS
    /\ proc.active_instr \in [{"uALU", "uMEM"} -> 0 .. MAX_ALU + MAX_MEM]

\* No DEBUG check of the code fails: every element of the active list finds
\* its instruction in the tag converter, a branch revived or resolved while
\* it waits for a shadow mapper is the one the decoder is stalled behind, and
\* no instruction graduates while its destinations are busy.
DebugChecksHold == TypeOK /\ ~proc.error

\* Every physical register but 0 and the last is in exactly one place: free,
\* mapped, or the old mapping that an element of the active list will free.
\* A flush at any point neither loses nor duplicates one.
RegistersAreConserved ==
    \A r \in 1 .. NumPhys - 2 :
        Cardinality({k \in DOMAIN proc.free : proc.free[k] = r})
        + Cardinality({l \in LogRegs : proc.intmapper[l] = r})
        + Cardinality({k \in DOMAIN proc.active_list : proc.active_list[k].phyreg = r}) = 1

\* The mappers saved for a branch are the ones a flush to it must restore:
\* what the mapper becomes when the elements after it are undone.
ShadowMapsAreExact ==
    LET UndoMap(m, e) == [m EXCEPT ![e.log] = IF e.log = ZEROREG THEN @ ELSE e.phyreg] IN
    \A k \in DOMAIN proc.branchq :
        proc.branchq[k].imap =
            FoldLeft(UndoMap, proc.intmapper,
                     Reverse(SelectSeq(proc.active_list,
                                       LAMBDA e : e.tag > proc.branchq[k].tag)))

\* The counters that admit instructions count the instructions: a unit is
\* free, claimed by a ready instruction or freeing, and the issue queues hold
\* the renamed instructions that have not been issued, through every flush.
CountersAreExact ==
    LET renamed == {t \in DOMAIN proc.inst : proc.inst[t].strucdep = 0} IN
    /\ proc.UnitsFree + Len(proc.ReadyQueue) + proc.FreeingUnits = ALU_UNITS
    /\ proc.active_instr["uALU"] =
        Cardinality({t \in renamed : Unit(proc.inst[t].code) = "uALU" /\ ~proc.inst[t].issued})
    /\ proc.active_instr["uMEM"] =
        Cardinality({t \in renamed : Unit(proc.inst[t].code) = "uMEM"})

\* Nothing a flush gives back is lost or given back twice.
ResourcesAreConserved == RegistersAreConserved /\ CountersAreExact

\* The architectural state: that of the instruction at the head.
ArchWindow ==
    LET Renamed(k) == Cardinality({t \in DOMAIN proc.inst :
                        proc.inst[t].code.k = k /\ MustUndo(proc.inst[t])})
        c == Renamed("save") - Renamed("restore")
        w == proc.win IN
    [w EXCEPT !.cwp = ((@ + NUM_WINS * MAX_ACTIVE) - c) % NUM_WINS,
              !.cansave = @ + c, !.canrestore = @ - c]
HeadInst == proc.inst[Head(proc.tag_cvt).tag]
ArchPC == IF proc.tag_cvt = <<>> THEN proc.pc ELSE HeadInst.pc
\* the npc of a resolved branch has been reused for the address fetched next
ArchNPC ==
    CASE proc.tag_cvt = <<>> -> proc.npc
      [] proc.tag_cvt # <<>> /\ HeadInst.code.k \in ControlTransfer -> HeadInst.pc + 1
      [] OTHER -> HeadInst.npc

InOrder == INSTANCE Sequential
    WITH pc <- ArchPC, npc <- ArchNPC, reg <- proc.log, win <- ArchWindow, trap <- proc.trap

\* The pipeline implements the sequential machine: whatever is renamed,
\* predicted, flushed and replayed, each graduation is the next step of the
\* program and every exception is precise.
ImplementsSequential == InOrder!Spec
=============================================================================
