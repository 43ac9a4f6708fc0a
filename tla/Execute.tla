----------------------------- MODULE Execute -----------------------------
\* The functional units (Processor/funcs.cc): what a predecoded instruction leaves
\* in its destinations, its exception code and its next program counter, given
\* the values of its operands. Memory accesses are split as the memory unit
\* splits them: here are the bytes they read and write.
\*
\* A register holds a word; condition codes are the word N Z V C. A float is a
\* sign and a magnitude, the largest magnitude a NaN and the next infinity; a
\* double is one of two words.
EXTENDS Predecode

Encode(cc) == (IF cc.n THEN 8 ELSE 0) + (IF cc.z THEN 4 ELSE 0)
              + (IF cc.v THEN 2 ELSE 0) + (IF cc.c THEN 1 ELSE 0)
CodesOf(v) == Flags(Bit(v, 3) = 1, Bit(v, 2) = 1, Bit(v, 1) = 1, Bit(v, 0) = 1)

\* What an instruction leaves: trap is its exception code.
Outcome(rd) == [rd |-> rd, rcc |-> 0, trap |-> "OK", exception |-> "none", newpc |-> 0]
Trap(code) == [Outcome(0) EXCEPT !.trap = code]
Second(in, v) == IF in.aux1 THEN in.imm ELSE v.rs2

-----------------------------------------------------------------------------
\* Branches.

\* The conditions on floating-point codes: equal 0, less 1, greater 2, unordered 3.
FloatHolds(cond, v1) ==
  LET among == [Af |-> {0, 1, 2, 3}, Uf |-> {3}, Gf |-> {2}, UGf |-> {2, 3}, Lf |-> {1},
                ULf |-> {1, 3}, LGf |-> {1, 2}, NEf |-> {1, 2, 3}, Nf |-> {}, Ef |-> {0},
                UEf |-> {0, 3}, GEf |-> {0, 2}, UGEf |-> {0, 2, 3}, LEf |-> {0, 1},
                ULEf |-> {0, 1, 3}, Of |-> {0, 1, 2}]
  IN v1 \in among[cond]

\* A conditional branch: its target, or the instruction after its delay slot.
Branch(in, pc, taken) == [Outcome(0) EXCEPT !.newpc = IF taken THEN pc + in.imm ELSE pc + 2]
BPcc(in, v, pc)   == Branch(in, pc, Holds(in.cond, CodesOf(v.rs1)))
BPr(in, v, pc)    == Branch(in, pc, RegisterHolds(in.cond, v.rs1))
FBPfcc(in, v, pc) == Branch(in, pc, FloatHolds(in.cond, v.rs1))

CALL(in, pc)    == [Outcome(pc) EXCEPT !.newpc = pc + in.imm]
JMPL(in, v, pc) == [Outcome(pc) EXCEPT !.newpc = Wrap(v.rs1 + Second(in, v))]
RETURN(in, v)   == [Outcome(0) EXCEPT !.newpc = Wrap(v.rs1 + Second(in, v))]

Tcc(in, v) == IF Holds(in.cond, CodesOf(v.rscc)) THEN Trap("SYSTRAP") ELSE Outcome(0)

-----------------------------------------------------------------------------
\* Integer operations.
ALU(in, v) ==
  LET r == Arithmetic(in.instruction, v.rs1, Second(in, v), CodesOf(v.rscc))
  IN [Outcome(r.rd) EXCEPT !.rcc = IF in.instruction \in WithCc THEN Encode(r.cc) ELSE 0]

MulDiv(in, v) ==
  LET op == in.instruction
      v2 == Second(in, v)
      m == Multiply(op, v.rs1, v2)
      d == Divide(op, v.rscc, v.rs1, v2)
  IN CASE op = "MULX" -> Outcome((v.rs1 * v2) % Modulus)
       [] op \in {"UMUL", "SMUL"} -> [Outcome(m.rd) EXCEPT !.rcc = m.rcc]
       [] op = "UDIVX" -> IF v2 = 0 THEN Trap("DIV0") ELSE Outcome(v.rs1 \div v2)
       [] op = "SDIVX" -> IF v2 = 0 THEN Trap("DIV0")
                          ELSE Outcome(Quotient(Signed(v.rs1), Signed(v2)) % Modulus)
       [] OTHER -> [Outcome(d.rd) EXCEPT !.rcc = Encode(d.cc), !.trap = d.trap]

Serialized == {"UMULcc", "SMULcc", "MULScc", "LDFSR", "LDXFSR"}

\* MOVcc and MOVR keep the old destination, which they read as rs1.
MOVcc(in, v) ==
  Outcome(IF IF in.rscc \in {"ICC", "XCC"} THEN Holds(in.cond, CodesOf(v.rscc))
             ELSE FloatHolds(in.cond, v.rscc)
          THEN Second(in, v) ELSE v.rs1)
MOVR(in, v) == Outcome(IF RegisterHolds(in.cond, v.rscc) THEN Second(in, v) ELSE v.rs1)

\* A population count of a register counts rs1, which popc never decodes.
PopulationCount(in, v) == Outcome(POPC(IF in.aux1 THEN in.imm ELSE v.rs1))

\* State registers: Y and the condition codes are written in place, the others at
\* graduation; reads are all at graduation.
arithSPECIAL1(in) ==
  IF in.rs1 = "MEMBAR" THEN IF in.rd # "g0" THEN Trap("ILLEGAL") ELSE Outcome(0)
  ELSE Trap("SERIALIZE")
arithSPECIAL2(in, v) ==
  IF in.rd \in {"Y", "ICC"} THEN Outcome(Xor(v.rs1, Second(in, v)))
  ELSE IF in.rd \in {"ASI", "FPRS"} THEN Trap("SERIALIZE")
  ELSE Outcome(0)

\* The privileged instructions.
Privileged(in, priv) ==
  IF ~priv THEN Trap("PRIVILEGED")
  ELSE IF in.instruction = "WRPR" /\ in.rd = "VER" THEN Trap("ILLEGAL")
  ELSE Trap("SERIALIZE")

Integer(in, v) ==
  LET op == in.instruction
  IN CASE op = "SETHI" -> Outcome((in.imm * 2 ^ (Width \div 4)) % Modulus)
       [] op \in Plain \cup WithCc -> ALU(in, v)
       [] op \in {"MULX", "UMUL", "SMUL", "UDIVX", "SDIVX", "UDIV", "SDIV", "UDIVcc", "SDIVcc"}
            -> MulDiv(in, v)
       [] op \in Serialized -> Trap("SERIALIZE")
       [] op \in {"SLL", "SRL", "SRA"} -> Outcome(Shift(op, v.rs1, Second(in, v)))
       [] op = "MOVcc" -> MOVcc(in, v)
       [] op = "MOVR"  -> MOVR(in, v)
       [] op = "POPC"  -> PopulationCount(in, v)
       [] op = "arithSPECIAL1" -> arithSPECIAL1(in)
       [] op = "arithSPECIAL2" -> arithSPECIAL2(in, v)
       [] OTHER -> Trap("ILLEGAL")

-----------------------------------------------------------------------------
\* Floating point. Infinite is the magnitude of infinity in a format whose sign
\* bit is h.
Infinite(h) == h - 2
NaN(h) == h - 1
IsNaN(x, h) == x % h = NaN(h)
IsInfinite(x, h) == x % h = Infinite(h)
Number(x, h) == IF x >= h THEN h - x ELSE x
Magnitude(n) == IF n < 0 THEN -n ELSE n
FromNumber(n, h) ==
  LET m == IF Magnitude(n) > Infinite(h) THEN Infinite(h) ELSE Magnitude(n)
  IN IF n < 0 THEN h + m ELSE m
SignBit(type) == IF type = "FP" THEN Modulus * Half ELSE Half
IntegerSize(type) == IF type = "FP" THEN Modulus * Modulus ELSE Modulus

\* A result and the exception it raises: "none", or one of the five of the standard.
Rounded(x, exception) == [value |-> x, exception |-> exception]
Finite(n, h) == Rounded(FromNumber(n, h), IF Magnitude(n) >= Infinite(h) THEN "OVERFLOW" ELSE "none")
Invalid(h) == Rounded(NaN(h), "INVALID")

Add(x, y, h) ==
  CASE IsNaN(x, h) \/ IsNaN(y, h) -> Rounded(NaN(h), "none")
    [] IsInfinite(x, h) /\ IsInfinite(y, h) /\ x # y -> Invalid(h)
    [] IsInfinite(x, h) -> Rounded(x, "none")
    [] IsInfinite(y, h) -> Rounded(y, "none")
    [] OTHER -> Finite(Number(x, h) + Number(y, h), h)
Negate(x, h) == IF x >= h THEN x - h ELSE x + h
Times(x, y, h, to) ==
  CASE IsNaN(x, h) \/ IsNaN(y, h) -> Rounded(NaN(to), "none")
    [] (IsInfinite(x, h) /\ Number(y, h) = 0) \/ (IsInfinite(y, h) /\ Number(x, h) = 0)
         -> Invalid(to)
    [] IsInfinite(x, h) \/ IsInfinite(y, h)
         -> Rounded(Infinite(to) + (IF (x >= h) # (y >= h) THEN to ELSE 0), "none")
    [] OTHER -> Finite(Number(x, h) * Number(y, h), to)
Over(x, y, h) ==
  CASE IsNaN(x, h) \/ IsNaN(y, h) -> Rounded(NaN(h), "none")
    [] (IsInfinite(x, h) /\ IsInfinite(y, h)) \/ (Number(x, h) = 0 /\ Number(y, h) = 0)
         -> Invalid(h)
    [] IsInfinite(x, h) \/ Number(y, h) = 0
         -> Rounded(Infinite(h) + (IF (x >= h) # (y >= h) THEN h ELSE 0),
                    IF IsInfinite(x, h) THEN "none" ELSE "DIV0")
    [] IsInfinite(y, h) -> Rounded(0, "none")
    [] OTHER -> Finite(Quotient(Number(x, h), Number(y, h)), h)
Root(x, h) ==
  CASE IsNaN(x, h) -> Rounded(NaN(h), "none")
    [] Number(x, h) < 0 -> Invalid(h)
    [] Number(x, h) = 0 \/ IsInfinite(x, h) -> Rounded(x, "none")
    [] OTHER -> Rounded(CHOOSE r \in 0 .. h : r * r <= x /\ (r + 1) * (r + 1) > x, "none")

\* An exception whose bit of the trap mask is set; it replaces the exception code.
Masked(result, e, code) ==
  [Outcome(result.value) EXCEPT !.trap = IF result.exception \in e.mask THEN "FPERR" ELSE code,
                               !.exception = result.exception]

\* The floating-point unit switched off marks the instruction, which runs all the
\* same. The mutant never looks.
DisabledNever(e) == "OK"
Disabled(e) == IF e.fp THEN "OK" ELSE "FPDISABLED"

FloatArithmetic(in, v, e) ==
  LET h == SignBit(in.rs2Type)
      op == in.instruction
  IN Masked(CASE op \in {"FADDs", "FADDd", "FADDq"} -> Add(v.rs1, v.rs2, h)
              [] op \in {"FSUBs", "FSUBd", "FSUBq"} -> Add(v.rs1, Negate(v.rs2, h), h)
              [] op \in {"FMULs", "FMULd", "FMULq", "FsMULd", "FdMULq"}
                   -> Times(v.rs1, v.rs2, h, SignBit(in.rdType))
              [] op \in {"FDIVs", "FDIVd", "FDIVq"} -> Over(v.rs1, v.rs2, h)
              [] op \in {"FSQRTs", "FSQRTd", "FSQRTq"} -> Root(v.rs2, h),
            e, Disabled(e))

\* Moves and sign changes work on the bits (-x of the host flips the sign).
FloatMove(in, v, e) ==
  LET h == SignBit(in.rs2Type)
      op == in.instruction
  IN [Outcome(CASE op \in {"FMOVs", "FMOVd", "FMOVq"} -> v.rs2
                [] op \in {"FNEGs", "FNEGd", "FNEGq"} -> Negate(v.rs2, h)
                [] OTHER -> IF ~IsNaN(v.rs2, h) /\ Number(v.rs2, h) >= 0 THEN v.rs2
                            ELSE Negate(v.rs2, h))
      EXCEPT !.trap = Disabled(e)]

\* Conversions: a number that does not fit an integer becomes the smallest one.
ToInteger(x, h, modulus) ==
  LET n == Number(x, h)
  IN IF IsNaN(x, h) \/ n < -(modulus \div 2) \/ n >= modulus \div 2 THEN modulus \div 2
     ELSE n % modulus
FromInteger(x, modulus, h) == FromNumber(IF x >= modulus \div 2 THEN x - modulus ELSE x, h)
Resize(x, h, to) == IF IsNaN(x, h) THEN NaN(to)
                    ELSE IF IsInfinite(x, h) THEN Infinite(to) + (IF x >= h THEN to ELSE 0)
                    ELSE FromNumber(Number(x, h), to)
Convert(in, v, e) ==
  LET from == in.rs2Type
      to == in.rdType
      op == in.instruction
  IN [Outcome(CASE op \in {"FsTOi", "FdTOi", "FqTOi", "FsTOx", "FdTOx", "FqTOx"}
                     -> ToInteger(v.rs2, SignBit(from), IntegerSize(to))
                [] op \in {"FiTOs", "FiTOd", "FiTOq", "FxTOs", "FxTOd", "FxToq"}
                     -> FromInteger(v.rs2, IntegerSize(from), SignBit(to))
                [] OTHER -> Resize(v.rs2, SignBit(from), SignBit(to)))
      EXCEPT !.trap = Disabled(e)]

Compare(x, y, h) ==
  IF IsNaN(x, h) \/ IsNaN(y, h) THEN 3
  ELSE IF Number(x, h) = Number(y, h) THEN 0 ELSE IF Number(x, h) < Number(y, h) THEN 1 ELSE 2
\* FCMPE of unordered values raises invalid and leaves no code.
FCMP(in, v, e) ==
  LET out == Compare(v.rs1, v.rs2, SignBit(in.rs1Type))
  IN IF out = 3 /\ in.instruction \in {"FCMPEs", "FCMPEd", "FCMPEq"}
     THEN Masked(Rounded(0, "INVALID"), e, Disabled(e))
     ELSE [Outcome(out) EXCEPT !.trap = Disabled(e)]

FMOVcc(in, v, e) ==
  [Outcome(IF IF in.rscc \in {"ICC", "XCC"} THEN Holds(in.cond, CodesOf(v.rscc))
              ELSE FloatHolds(in.cond, v.rscc)
           THEN v.rs2 ELSE v.rs1) EXCEPT !.trap = Disabled(e)]
FMOVR(in, v, e) ==
  [Outcome(IF RegisterHolds(in.cond, v.rscc) THEN v.rs2 ELSE v.rs1) EXCEPT !.trap = Disabled(e)]

Float(in, v, e) ==
  LET op == in.instruction
  IN CASE op \in {"FCMPs", "FCMPd", "FCMPq", "FCMPEs", "FCMPEd", "FCMPEq"} -> FCMP(in, v, e)
       [] op \in {"FMOVscc", "FMOVdcc", "FMOVqcc"} -> FMOVcc(in, v, e)
       [] op \in {"FMOVRs", "FMOVRd", "FMOVRq"} -> FMOVR(in, v, e)
       [] op \in {"FMOVs", "FMOVd", "FMOVq", "FNEGs", "FNEGd", "FNEGq", "FABSs", "FABSd", "FABSq"}
            -> FloatMove(in, v, e)
       [] op \in {"FADDs", "FADDd", "FADDq", "FSUBs", "FSUBd", "FSUBq", "FMULs", "FMULd",
                  "FMULq", "FsMULd", "FdMULq", "FDIVs", "FDIVd", "FDIVq", "FSQRTs", "FSQRTd",
                  "FSQRTq"} -> FloatArithmetic(in, v, e)
       [] OTHER -> Convert(in, v, e)

-----------------------------------------------------------------------------
\* The unit of every instruction that does not access memory.
Execute(in, v, e) ==
  LET op == in.instruction
  IN CASE op \in {"BPcc", "Bicc"}     -> BPcc(in, v, e.pc)
       [] op = "BPr"                  -> BPr(in, v, e.pc)
       [] op \in {"FBPfcc", "FBfcc"}  -> FBPfcc(in, v, e.pc)
       [] op = "CALL"                 -> CALL(in, e.pc)
       [] op = "JMPL"                 -> JMPL(in, v, e.pc)
       [] op = "RETURN"               -> RETURN(in, v)
       [] op = "Tcc"                  -> Tcc(in, v)
       [] op \in {"RDPR", "WRPR", "SAVRESTD", "DONERETRY"} -> Privileged(in, e.priv)
       [] op \in Fpop1 \cup Fpop2     -> Float(in, v, e)
       [] OTHER                       -> Integer(in, v)

-----------------------------------------------------------------------------
\* Memory. A word is four bytes, the most significant at the lowest address
\* whatever the host does (endian_swap).
Byte == 2 ^ (Width \div 4)
Length(op) ==
  CASE op \in {"LDUB", "LDSB", "STB", "LDSTUB", "LDUBA", "LDSBA", "STBA", "LDSTUBA"} -> 1
    [] op \in {"LDUH", "LDSH", "STH", "LDUHA", "LDSHA", "STHA"} -> 2
    [] op \in {"LDD", "STD", "LDX", "STX", "LDDA", "STDA", "LDXA", "STXA", "LDDF", "STDF",
               "LDDFA", "STDFA", "LDXFSR", "STXFSR", "CASXA",
               "RWWT_F", "RWWTI_F", "RWWS_F"} -> 8
    [] op \in {"LDQF", "STQF", "LDQFA", "STQFA"} -> 16
    [] OTHER -> 4

GetAddr(in, v) ==
  CASE in.instruction \in {"CASA", "CASXA"} -> v.rs2
    [] in.aux1 -> Wrap(v.rs2 + in.imm)
    [] OTHER -> Wrap(v.rs2 + v.rscc)
Misaligned(in, v) == GetAddr(in, v) % Length(in.instruction) # 0

\* The bytes an access reads or writes: LDX and STX move one word, quadruple
\* accesses a double.
Moved(op) == CASE op \in {"LDX", "LDXA", "STX", "STXA", "CASXA"} -> 4
               [] op \in {"LDQF", "STQF", "LDQFA", "STQFA"} -> 8
               [] OTHER -> Length(op)

\* The value of n bytes of mem from address a, and mem with v in them.
Read(mem, a, n) ==
  LET sum[k \in 0 .. n] == IF k = 0 THEN 0 ELSE sum[k - 1] * Byte + mem[a + k - 1]
  IN sum[n]
Write(mem, a, n, x) ==
  [b \in DOMAIN mem |-> IF b \in a .. a + n - 1 THEN (x \div Byte ^ (n - 1 - (b - a))) % Byte
                        ELSE mem[b]]

\* A signed load of n bytes extends the sign.
Extend(op, x, n) ==
  IF op \in {"LDSB", "LDSH", "LDSBA", "LDSHA"} /\ x >= (Byte ^ n) \div 2
  THEN x + Modulus - Byte ^ n ELSE x
LoadValue(op, mem, a) == Extend(op, Read(mem, a, Moved(op)), Moved(op))

\* A store's bytes: the low ones of its data.
StoreValue(op, data) == data % (Byte ^ Moved(op))

\* LDSTUB, SWAP and CASA: <<destination, memory>>.
Atomic(op, mem, a, v) ==
  CASE op \in {"LDSTUB", "LDSTUBA"} -> <<Read(mem, a, 1), Write(mem, a, 1, Byte - 1)>>
    [] op \in {"SWAP", "SWAPA"} -> <<Read(mem, a, 4), Write(mem, a, 4, v.rs1)>>
    [] op \in {"CASA", "CASXA"} ->
         LET old == Read(mem, a, 4)
         IN <<old, IF old = v.rs1 THEN Write(mem, a, 4, v.rscc) ELSE mem>>

\* Loads that take the value of an earlier store to the same address, and what they
\* take. The mutant forwards a byte without its sign.
MemMatch(load, store) ==
  \/ store = "STW" /\ load \in {"LDUW", "LDSW", "LDUWA", "LDF"}
  \/ store = "STD" /\ load = "LDD"
  \/ store = "STB" /\ load \in {"LDUB", "LDSB"}
  \/ store = "STH" /\ load \in {"LDUH", "LDSH"}
  \/ store = "STDF" /\ load = "LDDF"
  \/ store = "STF" /\ load \in {"LDF", "LDSW", "LDUW"}
ForwardedUnsigned(load, store, data) == StoreValue(store, data)
Forwarded(load, store, data) == Extend(load, StoreValue(store, data), Moved(store))
\* A word loaded from either half of a double that is being stored: the half comes
\* from the memory of the host, whose order of words is the other one.
ForwardedHalf(a, b, data) == IF a = b THEN data % Modulus ELSE data \div Modulus
Overlap(a, n, b, m) == a < b + m /\ b < a + n
=============================================================================
