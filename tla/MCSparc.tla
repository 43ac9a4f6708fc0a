----------------------------- MODULE MCSparc -----------------------------
\* Idioms of compilers and run-time libraries on words of four bits, for every
\* value of their operands: what each leaves must be what it is used for.
EXTENDS Sparc, TLC

CONSTANT Idioms   \* the names of the idioms that run

MCIntRegs == {"g0", "g1", "g2", "g3", "g4", "g5", "g6", "o7", "Y", "ICC", "FCC0", "FCC1",
              "FCC2", "FCC3"}
MCOdd == [r \in {"g2", "g4", "f0", "f2", "f4"} |->
            CASE r = "g2" -> "g3" [] r = "g4" -> "g5" [] r = "f0" -> "f1"
              [] r = "f2" -> "f3" [] r = "f4" -> "f5"]

-----------------------------------------------------------------------------
\* Words: with a register, an immediate, a condition.
R(op, s1, s2, d) == [Blank EXCEPT !.op = op, !.rs1 = s1, !.rs2 = s2, !.rd = d]
I(op, s1, k, d)  == [Blank EXCEPT !.op = op, !.rs1 = s1, !.i = TRUE, !.imm = k, !.rd = d]
Set(op, cond, cc, d) ==
  [Blank EXCEPT !.op = op, !.cond = cond, !.cc = cc, !.rs1 = cc, !.i = TRUE, !.imm = 1, !.rd = d]
Jump(op, cond, r, k, a) ==
  [Blank EXCEPT !.op = op, !.cond = cond, !.rs1 = r, !.cc = r, !.imm = k, !.a = a]
FCmp(op, s1, s2, cc) == [R(op, s1, s2, "g0") EXCEPT !.cc = cc]
Long(op) == [I(op, "g0", 0, "g0") EXCEPT !.sync = TRUE]
Inc(d) == I("ADD", d, 1, d)

Conditions == {"A", "N", "NE", "E", "G", "LE", "GE", "L", "GU", "LEU", "CC", "CS", "POS", "NEG",
               "VC", "VS"}
RegisterConditions == {"Z", "NZ", "LZ", "GEZ", "LEZ", "GZ"}
FloatConditions == {"Af", "Uf", "Gf", "UGf", "Lf", "ULf", "LGf", "NEf", "Nf", "Ef", "UEf", "GEf",
                    "UGEf", "LEf", "ULEf", "Of"}
Pairs == {<<"STW", "LDUW">>, <<"STW", "LDSW">>, <<"STB", "LDUB">>, <<"STB", "LDSB">>,
          <<"STH", "LDUH">>, <<"STH", "LDSH">>, <<"STX", "LDX">>, <<"STWA", "LDUWA">>,
          <<"STBA", "LDSBA">>, <<"STW", "LDUB">>}

\* A program whose outcome is decided in two words: what follows a branch.
AfterBranch(jump) == <<jump, Inc("g5"), Inc("g4"), I("ADD", "g0", 0, "g0")>>

\* The programs of an idiom, by its argument.
Family ==
  [multiply |-> {""}, umulcc |-> {""}, smulcc |-> {""}, addx |-> {""},
   subx |-> {"L", "GE", "CS", "CC"}, udiv |-> {""}, sdiv |-> {""}, umod |-> {""}, smod |-> {""},
   extend |-> {1, 2, 3}, logic |-> {""}, constant |-> Word,
   move |-> Conditions, branch |-> Conditions, annul |-> Conditions,
   mover |-> RegisterConditions, branchr |-> RegisterConditions, call |-> {""},
   fmove |-> FloatConditions, fbranch |-> FloatConditions, fcmpe |-> {""},
   loads |-> Pairs, halves |-> {""}, merge |-> {""}, swap |-> {""}, cas |-> {""},
   lock |-> {""}, base |-> {""}, aligned |-> {"LDUW", "LDUH", "STB", "STH", "SWAP"},
   floads |-> {""}, fround |-> {""}, fsum |-> {""}, fprod |-> {""}, froot |-> {""},
   fsr |-> {"FCC2", "FCC3"},
   \* programs of the instances that fail
   fsr1 |-> {"FCC1"}, trapcc |-> Conditions, popc |-> {""}, shift0 |-> {""}, gzero |-> {""},
   halvesf |-> {""}]

Program(name, arg) ==
  CASE name = "multiply" ->
         <<R("arithSPECIAL2", "g2", "g0", "Y"), R("ANDcc", "g0", "g0", "g4")>>
         \o [k \in 1 .. Width |-> R("MULScc", "g4", "g1", "g4")]
         \o <<R("MULScc", "g4", "g0", "g4"), R("arithSPECIAL1", "Y", "g0", "g5"),
              [R("MOVR", "g2", "g1", "g3") EXCEPT !.cond = "LZ"], R("SUB", "g4", "g3", "g4")>>
    [] name = "umulcc" -> <<R("UMULcc", "g1", "g2", "g5"), R("arithSPECIAL1", "Y", "g0", "g4")>>
    [] name = "smulcc" -> <<R("SMULcc", "g1", "g2", "g5"), R("arithSPECIAL1", "Y", "g0", "g4")>>
    [] name = "addx" -> <<R("ADDcc", "g2", "g3", "g5"), R("ADDCcc", "g1", "g3", "g4"),
                          R("ADDC", "g0", "g0", "g6")>>
    [] name = "subx" -> <<R("SUBcc", "g2", "g3", "g5"), R("SUBCcc", "g1", "g3", "g4"),
                          I("AND", "g0", 0, "g6"), Set("MOVcc", arg, "ICC", "g6")>>
    [] name = "udiv" -> <<R("UMUL", "g1", "g2", "g4"), R("UDIV", "g4", "g2", "g5")>>
    [] name = "sdiv" -> <<R("SMUL", "g1", "g2", "g4"), R("SDIV", "g4", "g2", "g5")>>
    [] name = "umod" -> <<R("UDIVX", "g1", "g2", "g5"), R("MULX", "g5", "g2", "g5"),
                          R("SUB", "g1", "g5", "g4")>>
    [] name = "smod" -> <<R("SDIVX", "g1", "g2", "g5"), R("MULX", "g5", "g2", "g5"),
                          R("SUB", "g1", "g5", "g4")>>
    [] name = "extend" -> <<I("SLL", "g1", arg, "g4"), I("SRL", "g4", arg, "g5"),
                            I("SRA", "g4", arg, "g4")>>
    [] name = "logic" -> <<R("ORN", "g1", "g2", "g4"), R("ANDN", "g2", "g1", "g5"),
                           R("XNOR", "g0", "g5", "g5"), R("XOR", "g1", "g2", "g1"),
                           R("XOR", "g1", "g2", "g2"), R("XOR", "g1", "g2", "g1")>>
    [] name = "constant" -> <<I("SETHI", "g0", arg \div 2, "g4"), I("OR", "g4", arg % 2, "g4")>>
    [] name = "move" -> <<R("SUBcc", "g1", "g2", "g0"), Set("MOVcc", arg, "ICC", "g4")>>
    [] name = "branch" -> <<R("SUBcc", "g1", "g2", "g0")>>
                          \o AfterBranch(Jump("Bicc", arg, "g0", 3, FALSE))
    [] name = "annul" -> <<R("SUBcc", "g1", "g2", "g0")>>
                         \o AfterBranch(Jump("BPcc", arg, "g0", 3, TRUE))
    [] name = "mover" -> <<Set("MOVR", arg, "g1", "g4")>>
    [] name = "branchr" -> AfterBranch(Jump("BPr", arg, "g1", 3, FALSE))
    [] name = "call" -> <<Jump("CALL", "N", "g0", 5, FALSE), Inc("g4"), Inc("g4"),
                          Jump("Bicc", "A", "g0", 4, TRUE), Inc("g4"),
                          I("JMPL", "o7", 2, "g0"), Inc("g5")>>
    [] name = "fmove" -> <<FCmp("FCMPs", "f0", "f1", "FCC2"), Set("MOVcc", arg, "FCC2", "g4")>>
    [] name = "fbranch" -> <<FCmp("FCMPs", "f0", "f1", "FCC0")>>
                           \o AfterBranch(Jump("FBfcc", arg, "g0", 3, FALSE))
    [] name = "fcmpe" -> <<FCmp("FCMPEs", "f0", "f1", "FCC0"), Set("MOVcc", "Ef", "FCC0", "g4")>>
    [] name = "loads" -> <<I(arg[1], "g0", 0, "g1"), I(arg[2], "g0", 0, "g4")>>
    [] name = "halves" -> <<I("STD", "g0", 0, "g2"), R("LDUW", "g6", "g0", "g1"),
                            I("LDD", "g0", 0, "g4")>>
    [] name = "merge" -> <<I("STW", "g0", 0, "g1"), I("STB", "g0", 3, "g2"),
                           I("LDUW", "g0", 0, "g4"), I("LDUB", "g0", 1, "g5")>>
    [] name = "swap" -> <<I("STW", "g0", 0, "g1"), I("SWAP", "g0", 0, "g2"),
                          I("LDUW", "g0", 0, "g4")>>
    [] name = "cas" -> <<I("STW", "g0", 0, "g1"), R("CASA", "g0", "g2", "g3"),
                         I("LDUW", "g0", 0, "g4")>>
    [] name = "lock" -> <<I("LDSTUB", "g0", 1, "g4"), I("LDSTUB", "g0", 1, "g5"),
                          I("STB", "g0", 1, "g0"), I("LDSTUB", "g0", 1, "g6")>>
    [] name = "base" -> <<I("STW", "g6", 4, "g1"), I("LDUW", "g0", 0, "g4")>>
    [] name = "aligned" -> <<I(arg, "g1", 0, "g4")>>
    [] name = "floads" -> <<I("STF", "g0", 0, "f0"), I("LDUW", "g0", 0, "g4"),
                            R("STDF", "g6", "g6", "f0"), R("LDDF", "g6", "g6", "f2"),
                            I("STW", "g0", 0, "g2"), I("LDF", "g0", 0, "f4")>>
    [] name = "fround" -> <<R("FiTOs", "g0", "f0", "f2"), R("FsTOi", "g0", "f2", "f3")>>
    [] name = "fsum" -> <<R("FsTOd", "g0", "f0", "f2"), R("FsTOd", "g0", "f1", "f4"),
                          R("FADDd", "f2", "f4", "f2"), R("FSUBd", "f2", "f4", "f2"),
                          R("FdTOs", "g0", "f2", "f0")>>
    [] name = "fprod" -> <<R("FsMULd", "f0", "f1", "f2"), R("FsTOd", "g0", "f1", "f4"),
                           R("FDIVd", "f2", "f4", "f2"), R("FdTOs", "g0", "f2", "f0")>>
    [] name = "froot" -> <<R("FsMULd", "f0", "f0", "f2"), R("FSQRTd", "g0", "f2", "f2"),
                           R("FdTOs", "g0", "f2", "f1"), R("FABSs", "g0", "f0", "f0")>>
    [] name \in {"fsr", "fsr1"} ->
         <<FCmp("FCMPs", "f0", "f1", arg), FCmp("FCMPs", "f1", "f0", "FCC0"), Long("STFSR"),
           FCmp("FCMPs", "f0", "f0", arg), FCmp("FCMPs", "f0", "f0", "FCC0"), Long("LDFSR"),
           Set("MOVcc", "Lf", arg, "g4"), Set("MOVcc", "Gf", "FCC0", "g5")>>
    [] name = "trapcc" -> <<R("SUBcc", "g1", "g2", "g0"), [I("Tcc", "g0", 1, "g0")
                                                             EXCEPT !.cond = arg]>>
    [] name = "popc" -> <<R("POPC", "g0", "g1", "g4")>>
    [] name = "shift0" -> <<R("SRA", "g1", "g0", "g4")>>
    [] name = "gzero" -> <<R("UMULcc", "g1", "g2", "g0"), R("ADD", "g0", "g0", "g4")>>
    [] name = "halvesf" -> <<I("STDF", "g0", 0, "f0"), I("LDUW", "g0", 0, "g4")>>

MCPrograms == UNION {{<<name, arg>> : arg \in Family[name]} : name \in Idioms}
MCCode(p) == Program(p[1], p[2])

\* Every operand; three where the idiom has three, one where it has one.
Inputs(name) ==
  CASE name \in {"addx", "subx", "halves", "cas"} -> Word \X Word \X Word
    [] name \in {"constant", "lock", "call"} -> {<<0, 0, 0>>}
    [] name \in {"extend", "mover", "branchr", "base", "aligned", "fround", "froot", "loads",
                 "popc", "shift0"} -> Word \X {0} \X {0}
    [] OTHER -> Word \X Word \X {0}
Floating == {"fmove", "fbranch", "fcmpe", "fround", "fsum", "fprod", "froot", "fsr"}

MCStart(p) ==
  {[input |-> x, fp |-> on,
    reg |-> [r \in IntRegs |-> CASE r = "g1" -> x[1] [] r = "g2" -> x[2] [] r = "g3" -> x[3]
                                 [] r = "g6" -> 4 [] OTHER -> 0],
    f |-> [r \in {"f0", "f1", "f2", "f3", "f4", "f5"} |->
             CASE r = "f0" -> x[1] [] r = "f1" -> x[2] [] OTHER -> 0],
    mem |-> [y \in 0 .. 2 * Modulus - 1 |-> 0],
    fsr |-> [mask |-> mask, ftt |-> {}, aexc |-> {}, cexc |-> {}],
    spill |-> [low |-> 0, high |-> 0]] :
     x \in Inputs(p[1]),
     on \in IF p[1] \in Floating THEN BOOLEAN ELSE {TRUE},
     mask \in IF p[1] = "fcmpe" THEN {{}, {"INVALID"}} ELSE {{}}}

-----------------------------------------------------------------------------
a == input[1]
b == input[2]
c == input[3]
Finished == trap = "OK" /\ pc > Len(Code(prog))
Is(name) == prog[1] = name
Pair(hi, lo) == reg[hi] * Modulus + reg[lo]

TypeOK ==
  /\ pc \in 1 .. Len(Code(prog)) + 1 /\ reg \in [IntRegs -> Word]
  /\ f \in [DOMAIN f -> Word] /\ mem \in [DOMAIN mem -> 0 .. Byte - 1]
  /\ trap \in {"OK", "DIV0", "BUSERR", "FPDISABLED", "FPERR", "SYSTRAP"}

\* What two floats compare to: a condition holds when the relation is among its
\* letters.
Relation(x, y) == CASE IsNaN(x, Half) \/ IsNaN(y, Half) -> "U"
                    [] Number(x, Half) < Number(y, Half) -> "L"
                    [] Number(x, Half) > Number(y, Half) -> "G"
                    [] OTHER -> "E"
FloatCompares(cond, x, y) ==
  LET r == Relation(x, y)
  IN CASE cond = "Af" -> TRUE [] cond = "Nf" -> FALSE [] cond = "Of" -> r # "U"
       [] cond = "NEf" -> r # "E" [] cond = "Uf" -> r = "U" [] cond = "Gf" -> r = "G"
       [] cond = "UGf" -> r \in {"U", "G"} [] cond = "Lf" -> r = "L"
       [] cond = "ULf" -> r \in {"U", "L"} [] cond = "LGf" -> r \in {"L", "G"}
       [] cond = "Ef" -> r = "E" [] cond = "UEf" -> r \in {"U", "E"}
       [] cond = "GEf" -> r \in {"G", "E"} [] cond = "UGEf" -> r # "L"
       [] cond = "LEf" -> r \in {"L", "E"} [] cond = "ULEf" -> r # "G"

\* Multiplication by steps and in one instruction, division of a product by its
\* factor, remainders, sums and differences of two words with their carry, sign
\* extension and bit identities come out right for every operand: the flags,
\* the Y register and the upper words of one instruction (funcs.cc) are what the
\* next one needs. A division traps exactly when the divisor is zero.
WordIdioms ==
  /\ trap = "DIV0" => prog[1] \in {"udiv", "sdiv", "umod", "smod"} /\ b = 0
  /\ Finished =>
       /\ prog[1] \in {"multiply", "smulcc"} =>
            WideSigned(Pair("g4", "g5")) = Signed(a) * Signed(b)
       /\ Is("umulcc") => Pair("g4", "g5") = a * b
       /\ Is("addx") => LET sum == (a + c) * Modulus + b + c
                        IN /\ Pair("g4", "g5") = sum % (Modulus * Modulus)
                           /\ reg["g6"] = sum \div (Modulus * Modulus)
       /\ Is("subx") =>
            LET x == a * Modulus + b
                y == c * Modulus + c
                holds == CASE prog[2] = "L" -> WideSigned(x) < WideSigned(y)
                           [] prog[2] = "GE" -> WideSigned(x) >= WideSigned(y)
                           [] prog[2] = "CS" -> x < y
                           [] prog[2] = "CC" -> x >= y
            IN /\ Pair("g4", "g5") = (x - y) % (Modulus * Modulus)
               /\ (reg["g6"] = 1) = holds
       /\ prog[1] \in {"udiv", "sdiv"} => b # 0 /\ reg["g5"] = a
       /\ Is("umod") => reg["g4"] = a % b
       /\ Is("smod") => \E q \in -Modulus .. Modulus :
                          /\ Signed(a) = q * Signed(b) + Signed(reg["g4"])
                          /\ Magnitude(Signed(reg["g4"])) < Magnitude(Signed(b))
                          /\ Signed(reg["g4"]) * Signed(a) >= 0
       /\ Is("extend") => LET low == 2 ^ (Width - prog[2])
                          IN /\ reg["g5"] = a % low
                             /\ Signed(reg["g4"]) \in -(low \div 2) .. low \div 2 - 1
                             /\ (reg["g4"] - a) % low = 0
       /\ Is("logic") => reg["g4"] = reg["g5"] /\ reg["g1"] = b /\ reg["g2"] = a
       /\ Is("constant") => reg["g4"] = prog[2]

\* A comparison, a conditional move and a branch agree for every pair of words and
\* every condition, signed, unsigned or on floats; a delay slot runs once unless
\* it is annulled, and a call returns behind its delay slot.
ConditionIdioms ==
  Finished =>
    /\ Is("move") => (reg["g4"] = 1) = Compares(prog[2], a, b)
    /\ Is("branch") => (reg["g4"] = 0) = Compares(prog[2], a, b) /\ reg["g5"] = 1
    /\ Is("annul") => /\ (reg["g4"] = 0) = Compares(prog[2], a, b)
                      /\ (reg["g5"] = 1) = (reg["g4"] = 0 /\ prog[2] # "A")
    /\ Is("mover") => (reg["g4"] = 1) = Compares(prog[2], a, 0)
    /\ Is("branchr") => (reg["g4"] = 0) = Compares(prog[2], a, 0) /\ reg["g5"] = 1
    /\ Is("call") => reg["g4"] = 2 /\ reg["g5"] = 1
    /\ Is("fmove") => (reg["g4"] = 1) = FloatCompares(prog[2], a, b)
    /\ Is("fbranch") => (reg["g4"] = 0) = FloatCompares(prog[2], a, b) /\ reg["g5"] = 1
    /\ Is("fcmpe") => fsr.mask = {} \/ Relation(a, b) # "U"

\* The two together: what a program computes and where it goes.
IntegerIdioms == WordIdioms /\ ConditionIdioms

\* A load returns the bytes last stored at its address, most significant first,
\* extended as it asks, whether the store has reached memory or its value is taken
\* from the memory queue (memunit.cc:334); atomic operations return the old
\* value and leave the new one; an access traps exactly when it is not aligned.
LowBytes(n, x) == x % Byte ^ n
SignedBytes(n, x) == IF LowBytes(n, x) < (Byte ^ n) \div 2 THEN LowBytes(n, x)
                     ELSE LowBytes(n, x) + Modulus - Byte ^ n
MemoryIdioms ==
  /\ trap = "BUSERR" => Is("aligned") /\ a % (IF prog[2] \in {"LDUW", "SWAP"} THEN 4 ELSE 2) # 0
  /\ Finished =>
       /\ Is("loads") =>
            reg["g4"] = CASE prog[2] = <<"STW", "LDUB">> -> a \div (Byte * Byte * Byte)
                          [] prog[2][2] = "LDUB" -> LowBytes(1, a)
                          [] prog[2][2] = "LDUH" -> LowBytes(2, a)
                          [] prog[2][2] \in {"LDSB", "LDSBA"} -> SignedBytes(1, a)
                          [] prog[2][2] = "LDSH" -> SignedBytes(2, a)
                          [] OTHER -> a
       /\ Is("halves") => reg["g1"] = c /\ reg["g4"] = b /\ reg["g5"] = c
       /\ Is("merge") => /\ reg["g4"] = a - LowBytes(1, a) + LowBytes(1, b)
                         /\ reg["g5"] = (a \div (Byte * Byte)) % Byte
       /\ Is("swap") => reg["g2"] = a /\ reg["g4"] = b
       /\ Is("cas") => reg["g3"] = a /\ reg["g4"] = IF a = b THEN c ELSE a
       /\ Is("lock") => reg["g4"] = 0 /\ reg["g5"] = Byte - 1 /\ reg["g6"] = 0
       /\ Is("base") => reg["g4"] = a
       /\ Is("aligned") => a % Length(prog[2]) = 0
       /\ Is("floads") => reg["g4"] = a /\ f["f2"] = a /\ f["f3"] = b /\ f["f4"] = b

\* A float that is converted, added and subtracted, multiplied and divided or
\* squared and rooted in double precision comes back; of the condition codes FCC0,
\* FCC2 and FCC3 (not FCC1) come back from memory with the state register; with the
\* unit switched off no program gets past its first floating-point instruction.
Regular(x) == ~IsNaN(x, Half) /\ ~IsInfinite(x, Half)
Same(x, y) == Number(x, Half) = Number(y, Half)
FloatIdioms ==
  /\ trap = "FPDISABLED" => ~fp
  /\ Finished /\ prog[1] \in Floating => fp
  /\ trap = "FPERR" => Is("fcmpe") /\ Relation(a, b) = "U" /\ fsr.aexc = {"INVALID"}
  /\ Finished =>
       /\ Is("fround") /\ Signed(a) \in -Infinite(Half) + 1 .. Infinite(Half) - 1 => f["f3"] = a
       /\ Is("fsum") /\ Regular(a) /\ Regular(b) => Same(f["f0"], a)
       /\ Is("fprod") /\ Regular(a) /\ Regular(b) /\ Number(b, Half) # 0 => Same(f["f0"], a)
       /\ Is("froot") /\ Regular(a) => Same(f["f0"], f["f1"])
       /\ prog[1] \in {"fsr", "fsr1"} =>
            (reg["g4"] = 1) = (Relation(a, b) = "L") /\ (reg["g5"] = 1) = (Relation(a, b) = "L")

\* The programs that run into what the instructions do not do.
TrapOnCondition ==
  Is("trapcc") => /\ trap # "OK" => Compares(prog[2], a, b)
                  /\ Finished => ~Compares(prog[2], a, b)
PopulationIsCounted == Is("popc") /\ Finished =>
                         reg["g4"] = Bit(a, 0) + Bit(a, 1) + Bit(a, 2) + Bit(a, 3)
ShiftByNothing == Is("shift0") /\ Finished => reg["g4"] = a
RegisterZero == Is("gzero") /\ Finished => reg["g4"] = 0
DoubleIsTwoWords == Is("halvesf") /\ Finished => reg["g4"] = a
=============================================================================
