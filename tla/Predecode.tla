----------------------------- MODULE Predecode -----------------------------
\* The predecoder (Processor/predecode_instr.cc, predecode_table.cc): an
\* instruction word to the record the pipeline works on. A word names its opcode
\* and its fields; registers are names ("g1", "f2", "Y", "ICC", "FCC0"), and
\* immediate operands are fields of Width - 1 bits. Which field becomes which
\* operand, and with which type, is what is decided here.
EXTENDS IntegerUnit

\* A word: opcode, register fields, i bit, immediate, condition, annul and
\* prediction bits, condition code field, address space.
Blank == [op |-> "RESERVED", rd |-> "g0", rs1 |-> "g0", rs2 |-> "g0", i |-> FALSE,
          imm |-> 0, cond |-> "N", a |-> FALSE, p |-> FALSE, cc |-> "FCC0",
          asi |-> "NONE", sync |-> FALSE]

\* A predecoded instruction before its handler fills it in.
Instr(op) == [instruction |-> op, rd |-> "g0", rs1 |-> "g0", rs2 |-> "g0",
              rscc |-> "g0", rcc |-> "g0",
              rdType |-> "INT", rs1Type |-> "INT", rs2Type |-> "INT",
              aux1 |-> FALSE, cond |-> "N", imm |-> 0, branch |-> "none",
              annul |-> FALSE, taken |-> FALSE, wpchange |-> "none", sync |-> FALSE]

\* The sign extension of an immediate field.
SignExtend(num) == IF num >= Half \div 2 THEN num + Half ELSE num

-----------------------------------------------------------------------------
\* Branches and calls.
call_instr(w) == [Instr("CALL") EXCEPT !.rd = "o7", !.imm = w.imm, !.branch = "call"]

illtrap(w) == [Instr(w.op) EXCEPT !.rs1 = "o0", !.rd = "o0", !.rs2Type = "FP"]

\* A branch on the condition code register cc; one that always branches reads none.
OnCondition(w, cc) ==
  LET always == w.cond \in {"A", "Af"}
  IN [Instr(w.op) EXCEPT !.rs1 = IF always THEN "g0" ELSE cc, !.imm = w.imm, !.cond = w.cond,
                         !.annul = w.a, !.branch = IF always THEN "uncond" ELSE "cond"]
bpcc(w)   == [OnCondition(w, "ICC") EXCEPT !.taken = w.p]
fbpfcc(w) == [OnCondition(w, w.cc) EXCEPT !.taken = w.p]
fbfcc(w)  == [OnCondition(w, "FCC0") EXCEPT !.taken = w.imm < 0]
bicc(w)   == [OnCondition(w, "ICC") EXCEPT !.taken = w.imm < 0]

bpr(w) == [Instr(w.op) EXCEPT !.rs1 = w.rs1, !.imm = w.imm, !.cond = w.cond, !.annul = w.a,
                              !.taken = w.p, !.branch = "cond"]

sethi(w) == [Instr(w.op) EXCEPT !.imm = w.imm, !.rd = w.rd]

branch_instr(w) ==
  CASE w.op = "ILLTRAP" -> illtrap(w)
    [] w.op = "BPcc"    -> bpcc(w)
    [] w.op = "Bicc"    -> bicc(w)
    [] w.op = "BPr"     -> bpr(w)
    [] w.op = "SETHI"   -> sethi(w)
    [] w.op = "FBPfcc"  -> fbpfcc(w)
    [] w.op = "FBfcc"   -> fbfcc(w)
    [] OTHER            -> Instr("RESERVED")

-----------------------------------------------------------------------------
\* Integer operations.

\* The second operand: an immediate, or the register rs2.
Operand(in, w) ==
  IF w.i THEN [in EXCEPT !.aux1 = TRUE, !.imm = SignExtend(w.imm)]
         ELSE [in EXCEPT !.rs2 = w.rs2]

arith_3(w) == Operand([Instr(w.op) EXCEPT !.rd = w.rd, !.rs1 = w.rs1], w)

arith_3y(w) ==
  [arith_3(w) EXCEPT
     !.rcc = CASE w.op \in {"SMUL", "UMUL"} -> "Y"
               [] w.op \in {"SDIVcc", "UDIVcc"} -> "ICC"
               [] OTHER -> "g0",
     !.rscc = IF w.op \in {"SDIV", "UDIV", "SDIVcc", "UDIVcc"} THEN "Y" ELSE "g0"]

arith_3sc(w)   == [arith_3(w) EXCEPT !.rscc = "ICC"]
arith_3cc(w)   == [arith_3(w) EXCEPT !.rcc = "ICC"]
arith_3sccc(w) == [arith_3(w) EXCEPT !.rscc = "ICC", !.rcc = "ICC"]
sarith_3(w)    == [arith_3(w) EXCEPT !.wpchange = "SAVE"]
rarith_3(w)    == [arith_3(w) EXCEPT !.wpchange = "RESTORE"]

jmpl(w) ==
  [arith_3(w) EXCEPT !.branch = IF w.i /\ w.imm = 2 /\ w.rs1 \in {"o7", "i7"} THEN "return"
                                ELSE "indirect"]
ret(w) == [Operand([Instr(w.op) EXCEPT !.rs1 = w.rs1], w)
             EXCEPT !.branch = "return", !.wpchange = "RESTORE"]

\* The count of a shift is not extended.
arith_shift(w) ==
  LET in == [Instr(w.op) EXCEPT !.rd = w.rd, !.rs1 = w.rs1]
  IN IF w.i THEN [in EXCEPT !.aux1 = TRUE, !.imm = w.imm] ELSE [in EXCEPT !.rs2 = w.rs2]

\* Reads and writes of the state registers.
StateRegister(r) == IF r = "CCR" THEN "ICC" ELSE r
arith_spec1(w) == [Instr(w.op) EXCEPT !.rd = w.rd, !.rs1 = StateRegister(w.rs1),
                                      !.sync = w.rs1 = "MEMBAR" /\ w.i /\ w.sync]
arith_spec2(w) == Operand([Instr(w.op) EXCEPT !.rd = StateRegister(w.rd), !.rs1 = w.rs1], w)
rdpr(w)        == [Instr(w.op) EXCEPT !.rd = w.rd, !.rs1 = w.rs1]
wrpr(w)        == Operand([Instr(w.op) EXCEPT !.rd = w.rd, !.rs1 = w.rs1], w)
flushw(w)      == [Instr(w.op) EXCEPT !.wpchange = "FLUSHW"]

\* Conditional moves read the old value of their destination.
movcc(w) == [Operand([Instr(w.op) EXCEPT !.rd = w.rd, !.rs1 = w.rd], w)
               EXCEPT !.cond = w.cond, !.rscc = w.cc]
movr(w)  == [Operand([Instr(w.op) EXCEPT !.rd = w.rd, !.rs1 = w.rd], w)
               EXCEPT !.cond = w.cond, !.rscc = w.rs1]

\* A trap on condition decodes no condition code register.
tcc(w)  == [Operand([Instr(w.op) EXCEPT !.rs1 = w.rs1], w)
              EXCEPT !.imm = IF w.i THEN w.imm ELSE 0, !.cond = w.cond]
popc(w) == Operand([Instr(w.op) EXCEPT !.rd = w.rd], w)

savrestd(w)  == [Instr(w.op) EXCEPT !.aux1 = w.i]
doneretry(w) == [Instr(w.op) EXCEPT !.aux1 = w.i, !.sync = TRUE]

\* The address of a memory access: rs2 and an immediate, or rs2 and rscc.
Address(in, w) ==
  IF w.i THEN [in EXCEPT !.rs2 = w.rs1, !.aux1 = TRUE, !.imm = SignExtend(w.imm)]
         ELSE [in EXCEPT !.rs2 = w.rs1, !.rscc = w.rs2]
flush(w) == Address(Instr(w.op), w)

-----------------------------------------------------------------------------
\* Floating point.
Typed(in, rd, rs1, rs2) == [in EXCEPT !.rdType = rd, !.rs1Type = rs1, !.rs2Type = rs2]
Registers(w) == [Instr(w.op) EXCEPT !.rd = w.rd, !.rs1 = w.rs1, !.rs2 = w.rs2]
Register(w)  == [Instr(w.op) EXCEPT !.rd = w.rd, !.rs2 = w.rs2]

fp_3(w)   == Typed(Registers(w), "FP", "FP", "FP")
fp_3s(w)  == Typed(Registers(w), "FPHALF", "FPHALF", "FPHALF")
fp_3sd(w) == Typed(Registers(w), "FP", "FPHALF", "FPHALF")
fp_2(w)   == Typed(Register(w), "FP", "INT", "FP")
fp_2s(w)  == Typed(Register(w), "FPHALF", "INT", "FPHALF")
fp_2sd(w) == Typed(Register(w), "FP", "INT", "FPHALF")
fp_2ds(w) == Typed(Register(w), "FPHALF", "INT", "FP")

fcmp(w)  == [Typed(Registers(w), "INT", "FP", "FP") EXCEPT !.rd = w.cc]
fcmps(w) == [Typed(Registers(w), "INT", "FPHALF", "FPHALF") EXCEPT !.rd = w.cc]

\* Conditional moves: rscc is the integer register or the condition codes tested.
Move(w, tested, type) ==
  [Typed(Register(w), type, type, type) EXCEPT !.rs1 = w.rd, !.rscc = tested, !.cond = w.cond]
fmovrcc(w)  == Move(w, w.rs1, "FP")
fmovrccs(w) == Move(w, w.rs1, "FPHALF")
fmovcc(w)   == Move(w, w.cc, "FP")
fmovccs(w)  == Move(w, w.cc, "FPHALF")

fp_op1(w) ==
  CASE w.op \in {"FMOVs", "FNEGs", "FABSs", "FSQRTs", "FiTOs", "FsTOi"} -> fp_2s(w)
    [] w.op \in {"FMOVd", "FNEGd", "FABSd", "FSQRTd", "FMOVq", "FNEGq", "FABSq", "FSQRTq",
                 "FdTOx", "FqTOx", "FxTOd", "FxToq", "FqTOd", "FdTOq"} -> fp_2(w)
    [] w.op \in {"FADDs", "FSUBs", "FMULs", "FDIVs"} -> fp_3s(w)
    [] w.op \in {"FADDd", "FSUBd", "FMULd", "FDIVd", "FADDq", "FSUBq", "FMULq", "FDIVq",
                 "FdMULq"} -> fp_3(w)
    [] w.op = "FsMULd" -> fp_3sd(w)
    [] w.op \in {"FsTOx", "FiTOd", "FsTOd", "FiTOq", "FsTOq"} -> fp_2sd(w)
    [] w.op \in {"FxTOs", "FdTOs", "FqTOs", "FdTOi", "FqTOi"} -> fp_2ds(w)
    [] OTHER -> Instr("RESERVED")

fp_op2(w) ==
  CASE w.op = "FMOVscc" -> fmovccs(w)
    [] w.op \in {"FMOVdcc", "FMOVqcc"} -> fmovcc(w)
    [] w.op \in {"FCMPs", "FCMPEs"} -> fcmps(w)
    [] w.op \in {"FCMPd", "FCMPq", "FCMPEd", "FCMPEq"} -> fcmp(w)
    [] w.op = "FMOVRs" -> fmovrccs(w)
    [] w.op \in {"FMOVRd", "FMOVRq"} -> fmovrcc(w)
    [] OTHER -> Instr("RESERVED")

Fpop1 == {"FMOVs", "FMOVd", "FMOVq", "FNEGs", "FNEGd", "FNEGq", "FABSs", "FABSd", "FABSq",
          "FSQRTs", "FSQRTd", "FSQRTq", "FADDs", "FADDd", "FADDq", "FSUBs", "FSUBd", "FSUBq",
          "FMULs", "FMULd", "FMULq", "FDIVs", "FDIVd", "FDIVq", "FsMULd", "FdMULq",
          "FsTOx", "FdTOx", "FqTOx", "FxTOs", "FxTOd", "FxToq", "FiTOs", "FdTOs", "FqTOs",
          "FiTOd", "FsTOd", "FqTOd", "FiTOq", "FsTOq", "FdTOq", "FsTOi", "FdTOi", "FqTOi"}
Fpop2 == {"FMOVscc", "FMOVdcc", "FMOVqcc", "FCMPs", "FCMPd", "FCMPq", "FCMPEs", "FCMPEd",
          "FCMPEq", "FMOVRs", "FMOVRd", "FMOVRq"}

arith_instr(w) ==
  CASE w.op \in {"ADD", "AND", "OR", "XOR", "SUB", "ANDN", "ORN", "XNOR", "MULX", "UDIVX",
                 "SDIVX"} -> arith_3(w)
    [] w.op \in {"ADDC", "SUBC"} -> arith_3sc(w)
    [] w.op \in {"UMUL", "SMUL", "UDIV", "SDIV", "UMULcc", "SMULcc", "UDIVcc", "SDIVcc",
                 "MULScc"} -> arith_3y(w)
    [] w.op \in {"ADDcc", "ANDcc", "ORcc", "XORcc", "SUBcc", "ANDNcc", "ORNcc", "XNORcc",
                 "TADDcc", "TSUBcc", "TADDccTV", "TSUBccTV"} -> arith_3cc(w)
    [] w.op \in {"ADDCcc", "SUBCcc"} -> arith_3sccc(w)
    [] w.op \in {"SLL", "SRL", "SRA"} -> arith_shift(w)
    [] w.op = "arithSPECIAL1" -> arith_spec1(w)
    [] w.op = "arithSPECIAL2" -> arith_spec2(w)
    [] w.op = "RDPR"   -> rdpr(w)
    [] w.op = "WRPR"   -> wrpr(w)
    [] w.op = "FLUSHW" -> flushw(w)
    [] w.op = "MOVcc"  -> movcc(w)
    [] w.op = "MOVR"   -> movr(w)
    [] w.op = "POPC"   -> popc(w)
    [] w.op = "SAVRESTD"  -> savrestd(w)
    [] w.op = "DONERETRY" -> doneretry(w)
    [] w.op = "JMPL"   -> jmpl(w)
    [] w.op = "RETURN" -> ret(w)
    [] w.op = "Tcc"    -> tcc(w)
    [] w.op = "FLUSH"  -> flush(w)
    [] w.op = "SAVE"   -> sarith_3(w)
    [] w.op = "RESTORE" -> rarith_3(w)
    [] w.op \in Fpop1  -> fp_op1(w)
    [] w.op \in Fpop2  -> fp_op2(w)
    [] OTHER           -> Instr(w.op)

-----------------------------------------------------------------------------
\* Memory accesses. A store names its data rs1.
Load(w, type)  == Address([Instr(w.op) EXCEPT !.rd = w.rd, !.rdType = type], w)
Store(w, type) == Address([Instr(w.op) EXCEPT !.rs1 = w.rd, !.rs1Type = type], w)
mem_op2(w)   == Load(w, "INT")
dmem_op2(w)  == Load(w, "INTPAIR")
mem_op2f(w)  == Load(w, "FP")
mem_op2fs(w) == Load(w, "FPHALF")
smem_op2(w)  == Store(w, "INT")
sdmem_op2(w) == Store(w, "INTPAIR")
smem_op2f(w) == Store(w, "FP")
smem_op2fs(w) == Store(w, "FPHALF")

\* The field of the register chooses between the short and the long status register.
mem_op2fsr(w) ==
  [Load(w, IF w.sync THEN "INT64" ELSE "INT")
     EXCEPT !.rd = "g0", !.instruction = IF w.sync THEN "LDXFSR" ELSE "LDFSR"]
smem_op2fsr(w) ==
  [Store(w, "FSR")
     EXCEPT !.rs1 = "g0", !.instruction = IF w.sync THEN "STXFSR" ELSE "STFSR"]

pref(w) == Address(Instr(w.op), w)
amem_op2(w)   == Load(w, "INT")
damem_op2(w)  == Load(w, "INTPAIR")
amem_op2f(w)  == Load(w, "FP")
amem_op2fs(w) == Load(w, "FPHALF")
sdamem_op2(w) == Store(w, "INTPAIR")

cas(w)  == [Instr(w.op) EXCEPT !.rd = w.rd, !.rs1 = w.rs2, !.rs2 = w.rs1, !.rscc = w.rd]
swap(w) == Address([Instr(w.op) EXCEPT !.rd = w.rd, !.rs1 = w.rd], w)

\* A store to one of the address spaces of remote writes is another instruction;
\* the last of them decodes as the first.
RemoteInteger(asi) ==
  CASE asi = "SETDEST" -> "RWSD"    [] asi = "WT_I" -> "RWWT_I"
    [] asi = "WTI_I" -> "RWWTI_I"   [] asi = "WS_I" -> "RWWS_I"
    [] asi = "WSI_I" -> "RWWT_I"    [] OTHER -> "NONE"
RemoteFloat(asi) ==
  CASE asi = "WT_F" -> "RWWT_F"     [] asi = "WTI_F" -> "RWWTI_F"
    [] asi = "WS_F" -> "RWWS_F"     [] asi = "WSI_F" -> "RWWT_F"
    [] OTHER -> "NONE"
Remote(in, w, name) ==
  IF ~w.i /\ name # "NONE" THEN [in EXCEPT !.instruction = name] ELSE in
samem_op2(w)   == Remote(Store(w, "INT"), w, RemoteInteger(w.asi))
samem_op2f(w)  == Remote(Store(w, "FP"), w, RemoteFloat(w.asi))
samem_op2fs(w) == [samem_op2f(w) EXCEPT !.rs1Type = "FPHALF"]

mem_instr(w) ==
  CASE w.op \in {"LDUW", "LDUB", "LDUH", "LDSW", "LDSB", "LDSH", "LDX", "LDSTUB"} -> mem_op2(w)
    [] w.op = "LDD" -> dmem_op2(w)
    [] w.op \in {"STW", "STB", "STH", "STX"} -> smem_op2(w)
    [] w.op = "STD" -> sdmem_op2(w)
    [] w.op \in {"SWAP", "SWAPA"} -> swap(w)
    [] w.op \in {"LDUWA", "LDUBA", "LDUHA", "LDSWA", "LDSBA", "LDSHA", "LDXA", "LDSTUBA"}
         -> amem_op2(w)
    [] w.op = "LDDA" -> damem_op2(w)
    [] w.op \in {"STWA", "STBA", "STHA", "STXA"} -> samem_op2(w)
    [] w.op = "STDA" -> sdamem_op2(w)
    [] OTHER -> Instr("RESERVED")
fmem_instr(w) ==
  CASE w.op = "LDF" -> mem_op2fs(w)
    [] w.op = "LDFSR" -> mem_op2fsr(w)
    [] w.op \in {"LDDF", "LDQF"} -> mem_op2f(w)
    [] w.op = "STF" -> smem_op2fs(w)
    [] w.op = "STFSR" -> smem_op2fsr(w)
    [] w.op \in {"STDF", "STQF"} -> smem_op2f(w)
    [] w.op \in {"PREFETCH", "PREFETCHA"} -> pref(w)
    [] w.op = "LDFA" -> amem_op2fs(w)
    [] w.op \in {"LDDFA", "LDQFA"} -> amem_op2f(w)
    [] w.op = "STFA" -> samem_op2fs(w)
    [] w.op \in {"STDFA", "STQFA"} -> samem_op2f(w)
    [] w.op \in {"CASA", "CASXA"} -> cas(w)
    [] OTHER -> mem_instr(w)

Branches == {"ILLTRAP", "BPcc", "Bicc", "BPr", "SETHI", "FBPfcc", "FBfcc"}
Memory == {"LDUW", "LDUB", "LDUH", "LDSW", "LDSB", "LDSH", "LDX", "LDSTUB", "LDD", "STW",
           "STB", "STH", "STX", "STD", "SWAP", "LDUWA", "LDUBA", "LDUHA", "LDSWA", "LDSBA",
           "LDSHA", "LDXA", "LDSTUBA", "LDDA", "STWA", "STBA", "STHA", "STXA", "STDA",
           "SWAPA", "LDF", "LDFSR", "LDDF", "LDQF", "STF", "STFSR", "STDF", "STQF",
           "PREFETCH", "PREFETCHA", "LDFA", "LDDFA", "LDQFA", "STFA", "STDFA", "STQFA",
           "CASA", "CASXA"}
start_decode(w) ==
  CASE w.op \in Branches -> branch_instr(w)
    [] w.op = "CALL"     -> call_instr(w)
    [] w.op \in Memory   -> fmem_instr(w)
    [] OTHER             -> arith_instr(w)
=============================================================================
