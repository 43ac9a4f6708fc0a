----------------------------- MODULE Sparc -----------------------------
\* A program run one instruction at a time on the predecoder and the functional
\* units: what the pipeline graduates when it speculates nothing. Delay slots
\* follow pc and npc (SaveBranch, fetch), serialized instructions write the
\* logical registers as except.cc does, and one store may still be on its way
\* when a later load takes its value (memunit.cc). Register windows, privileged
\* registers and traps are modelled elsewhere: here a trap ends the program.
EXTENDS Execute, Sequences

CONSTANTS IntRegs,  \* names of the integer, state and condition code registers
          Odd,      \* the second register of a pair or of a double
          Programs, \* names of the programs
          Code(_),  \* the words of a program
          Start(_)  \* its initial states: records of input, reg, f, mem, fsr, spill, fp

VARIABLES prog, input,     \* the program and what it was started with
          pc, npc, reg, f, \* program counters, integer and floating-point registers
          mem, store,      \* memory and the store on its way, if any
          fsr, spill,      \* floating-point state register, its image in memory
          fp, trap         \* the unit is enabled; the trap that ended the program
vars == <<prog, input, pc, npc, reg, f, mem, store, fsr, spill, fp, trap>>

NoStore == [op |-> "NONE", a |-> 0, data |-> 0]

Init ==
  /\ prog \in Programs
  /\ \E s \in Start(prog) :
       /\ input = s.input /\ reg = s.reg /\ f = s.f
       /\ mem = s.mem /\ fsr = s.fsr /\ spill = s.spill /\ fp = s.fp
  /\ pc = 1 /\ npc = 2 /\ store = NoStore /\ trap = "OK"

-----------------------------------------------------------------------------
\* Operand and destination values (unstuff, SendToFU).
ReadRegister(r, type) ==
  CASE type = "FPHALF"  -> f[r]
    [] type = "FP"      -> IF r \in DOMAIN f THEN f[r] * Modulus + f[Odd[r]] ELSE 0
    [] type = "INTPAIR" -> reg[r] * Modulus + reg[Odd[r]]
    [] OTHER            -> IF r \in IntRegs THEN reg[r] ELSE 0
Operands(in) == [rs1 |-> ReadRegister(in.rs1, in.rs1Type), rs2 |-> ReadRegister(in.rs2, in.rs2Type),
             rscc |-> ReadRegister(in.rscc, "INT")]
Environment == [pc |-> pc, fp |-> fp, mask |-> fsr.mask, priv |-> FALSE]

SetRegister(file, r, x) == IF r = "g0" THEN file ELSE [file EXCEPT ![r] = x]
SetDestination(in, x, rcc) ==
  LET base == SetRegister(reg, in.rcc, rcc)
  IN CASE in.rdType = "FPHALF" -> f' = [f EXCEPT ![in.rd] = x] /\ reg' = base
       [] in.rdType = "FP" ->
            f' = [f EXCEPT ![in.rd] = x \div Modulus, ![Odd[in.rd]] = x % Modulus] /\ reg' = base
       [] in.rdType = "INTPAIR" ->
            /\ reg' = [SetRegister(base, in.rd, x \div Modulus) EXCEPT ![Odd[in.rd]] = x % Modulus]
            /\ f' = f
       [] OTHER -> f' = f /\ reg' = SetRegister(base, in.rd, x)

\* The next program counters. A delay slot is skipped by an annulled branch that is
\* not taken, or that always is.
Follow(in, newpc) ==
  LET taken == newpc # pc + 2
      skip == in.annul /\ (in.branch = "uncond" \/ ~taken)
  IN IF in.branch = "none" THEN pc' = npc /\ npc' = npc + 1
     ELSE IF skip THEN pc' = newpc /\ npc' = newpc + 1
     ELSE pc' = npc /\ npc' = newpc

-----------------------------------------------------------------------------
\* Serialized instructions, at graduation. A destination is written even when it is
\* register 0.
MultiplyAtGraduation(in, v) ==
  LET m == Multiply(in.instruction, v.rs1, Second(in, v))
      s == MultiplyStep(v.rs1, Second(in, v), CodesOf(reg["ICC"]), reg["Y"])
  IN reg' = IF in.instruction = "MULScc"
            THEN [reg EXCEPT ![in.rd] = s[1], !["ICC"] = Encode(s[2]), !["Y"] = s[3]]
            ELSE [reg EXCEPT ![in.rd] = m.rd, !["Y"] = m.rcc, !["ICC"] = Encode(m.cc)]

ReadState(in) == reg' = [reg EXCEPT ![in.rd] = reg[in.rs1]]
WriteState(in, v) == reg' = [reg EXCEPT ![in.rd] = Xor(v.rs1, Second(in, v))]

\* The floating-point state register: its first word, and the one of fcc1 to fcc3,
\* where get_fsr puts fcc1 on top of fcc3.
FsrWord == [mask |-> fsr.mask, ftt |-> fsr.ftt, aexc |-> fsr.aexc, cexc |-> fsr.cexc,
            fcc0 |-> reg["FCC0"]]
FccWord == [fcc1 |-> 0, fcc2 |-> reg["FCC2"], fcc3 |-> Or(reg["FCC3"], reg["FCC1"])]
get_fsr(in) == spill' = [spill EXCEPT !.low = FsrWord,
                                  !.high = IF in.instruction = "STXFSR" THEN FccWord ELSE @]
set_fsr(in) ==
  /\ fsr' = [mask |-> spill.low.mask, ftt |-> spill.low.ftt, aexc |-> spill.low.aexc,
             cexc |-> spill.low.cexc]
  /\ reg' = IF in.instruction = "LDFSR" THEN [reg EXCEPT !["FCC0"] = spill.low.fcc0]
            ELSE [reg EXCEPT !["FCC0"] = spill.low.fcc0, !["FCC1"] = spill.high.fcc1,
                             !["FCC2"] = spill.high.fcc2, !["FCC3"] = spill.high.fcc3]

Serialize(in, v) ==
  /\ CASE in.instruction \in {"UMULcc", "SMULcc", "MULScc"} -> MultiplyAtGraduation(in, v)
       [] in.instruction = "arithSPECIAL1" -> ReadState(in)
       [] OTHER -> WriteState(in, v)
  /\ UNCHANGED f

\* An instruction that does not access memory.
FsrAccess == {"LDFSR", "LDXFSR", "STFSR", "STXFSR"}
IsMemory(in) == in.instruction \in Memory \cup FsrAccess
Step(in, v) ==
  /\ ~IsMemory(in)
  /\ \E r \in {Execute(in, v, Environment)} :
       CASE r.trap = "OK" ->
              SetDestination(in, r.rd, r.rcc) /\ Follow(in, r.newpc) /\ UNCHANGED <<fsr, trap>>
         [] r.trap = "SERIALIZE" -> Serialize(in, v) /\ Follow(in, 0) /\ UNCHANGED <<fsr, trap>>
         [] OTHER ->
              /\ trap' = r.trap
              /\ fsr' = IF r.trap = "FPERR"
                        THEN [fsr EXCEPT !.cexc = {r.exception}, !.aexc = @ \cup {r.exception},
                                         !.ftt = {"IEEE754"}]
                        ELSE fsr
              /\ UNCHANGED <<reg, f, pc, npc>>
  /\ UNCHANGED <<prog, input, mem, store, spill, fp>>

-----------------------------------------------------------------------------
\* Memory accesses.
IsStore(in) == in.instruction \in {"STW", "STB", "STH", "STD", "STX", "STF", "STDF", "STQF", "STWA",
                                   "STBA", "STHA", "STDA", "STXA", "STFA", "STDFA", "STQFA"}
IsAtomic(in) == in.instruction \in {"LDSTUB", "LDSTUBA", "SWAP", "SWAPA", "CASA", "CASXA"}
Aligned(in, v) == /\ IsMemory(in) /\ in.instruction \notin FsrAccess
                  /\ ~Misaligned(in, v)

Fault(in, v) ==
  /\ IsMemory(in) /\ Misaligned(in, v)
  /\ trap' = "BUSERR"
  /\ UNCHANGED <<prog, input, pc, npc, reg, f, mem, store, fsr, spill, fp>>

\* A load that an earlier store covers takes its value; one that overlaps it
\* otherwise waits until the store is in memory.
LoadStep(in, v) ==
  /\ Aligned(in, v) /\ ~IsStore(in) /\ ~IsAtomic(in)
  /\ LET op == in.instruction
         a == GetAddr(in, v)
         overlap == store.op # "NONE"
                    /\ Overlap(a, Length(op), store.a, Length(store.op))
         match == overlap /\ a = store.a /\ MemMatch(op, store.op)
         half == overlap /\ store.op = "STDF" /\ op = "LDUW" /\ a \in {store.a, store.a + 4}
     IN /\ overlap => match \/ half
        /\ SetDestination(in, IF match THEN Forwarded(op, store.op, store.data)
                              ELSE IF half THEN ForwardedHalf(a, store.a, store.data)
                              ELSE LoadValue(op, mem, a), 0)
  /\ Follow(in, 0)
  /\ UNCHANGED <<prog, input, mem, store, fsr, spill, fp, trap>>

StoreStep(in, v) ==
  /\ Aligned(in, v) /\ IsStore(in) /\ store = NoStore
  /\ store' = [op |-> in.instruction, a |-> GetAddr(in, v), data |-> v.rs1]
  /\ Follow(in, 0)
  /\ UNCHANGED <<prog, input, reg, f, mem, fsr, spill, fp, trap>>

\* The store reaches memory.
Drain ==
  /\ store # NoStore
  /\ mem' = Write(mem, store.a, Moved(store.op), StoreValue(store.op, store.data))
  /\ store' = NoStore
  /\ UNCHANGED <<prog, input, pc, npc, reg, f, fsr, spill, fp, trap>>

AtomicStep(in, v) ==
  /\ Aligned(in, v) /\ IsAtomic(in) /\ store = NoStore
  /\ \E r \in {Atomic(in.instruction, mem, GetAddr(in, v), v)} :
       SetDestination(in, r[1], 0) /\ mem' = r[2]
  /\ Follow(in, 0)
  /\ UNCHANGED <<prog, input, store, fsr, spill, fp, trap>>

\* Loads and stores of the floating-point state register.
FsrStep(in, v) ==
  /\ in.instruction \in FsrAccess
  /\ IF in.instruction \in {"LDFSR", "LDXFSR"} THEN set_fsr(in) /\ UNCHANGED spill
     ELSE get_fsr(in) /\ UNCHANGED <<reg, fsr>>
  /\ Follow(in, 0)
  /\ UNCHANGED <<prog, input, f, mem, store, fp, trap>>

Running == trap = "OK" /\ pc <= Len(Code(prog))
Instruction ==
  Running /\ \E in \in {start_decode(Code(prog)[pc])} : \E v \in {Operands(in)} :
    \/ Step(in, v)
    \/ Fault(in, v)
    \/ LoadStep(in, v)
    \/ StoreStep(in, v)
    \/ AtomicStep(in, v)
    \/ FsrStep(in, v)

Next == Instruction \/ Drain
Spec == Init /\ [][Next]_vars
=============================================================================
