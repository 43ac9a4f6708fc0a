----------------------------- MODULE IntegerUnit -----------------------------
\* The integer instructions of the processor (Processor/funcs.cc) on words of
\* Width bits: what each function leaves in rdvali, in rccvali and in the
\* exception code. A word is a number below Modulus; a condition code register
\* is a record of its four flags.
EXTENDS Integers

CONSTANTS Width, Half

ASSUME WordAssumption ==
  Width \in Nat \ {0} /\ Half \in Nat \ {0} /\ Half = 2 ^ (Width - 1)

Modulus == 2 * Half
Word == 0 .. Modulus - 1

Negative(v) == v >= Half
Signed(v) == IF Negative(v) THEN v - Modulus ELSE v
WideSigned(v) == IF v >= Modulus * Half THEN v - Modulus * Modulus ELSE v

\* A sum or difference of two words and a carry, as a word.
Wrap(x) == IF x >= Modulus THEN x - Modulus ELSE IF x < 0 THEN x + Modulus ELSE x

-----------------------------------------------------------------------------
\* Bits.
Bit(v, i) == (v \div (2 ^ i)) % 2
FromBits(b) ==
  LET sum[i \in 0 .. Width] == IF i = 0 THEN 0 ELSE sum[i - 1] + b[i - 1] * 2 ^ (i - 1)
  IN sum[Width]
Bits == 0 .. Width - 1
Not(v) == Modulus - 1 - v
And(v, w) == FromBits([i \in Bits |-> Bit(v, i) * Bit(w, i)])
Or(v, w)  == v + w - And(v, w)
Xor(v, w) == v + w - 2 * And(v, w)

-----------------------------------------------------------------------------
\* Condition codes.
Flags(n, z, v, c) == [n |-> n, z |-> z, v |-> v, c |-> c]
NoFlags == Flags(FALSE, FALSE, FALSE, FALSE)
Carry(cc) == IF cc.c THEN 1 ELSE 0

LogicFlags(tmp) == Flags(Negative(tmp), tmp = 0, FALSE, FALSE)

\* Mutant: the carry of an addition seen only when both operands are negative.
AddFlagsNoCarryOut(v1, v2, tmp) ==
  Flags(Negative(tmp), tmp = 0,
        Negative(v1) = Negative(v2) /\ Negative(tmp) # Negative(v1),
        Negative(v1) /\ Negative(v2))
AddFlags(v1, v2, tmp) ==
  Flags(Negative(tmp), tmp = 0,
        Negative(v1) = Negative(v2) /\ Negative(tmp) # Negative(v1),
        \/ Negative(v1) /\ Negative(v2)
        \/ ~Negative(tmp) /\ (Negative(v1) \/ Negative(v2)))

SubFlags(v1, v2, borrow, tmp) ==
  Flags(Negative(tmp), tmp = 0,
        Negative(v1) # Negative(v2) /\ Negative(tmp) = Negative(v2),
        v1 < v2 \/ (v1 = v2 /\ borrow = 1))

\* The conditions of integer branches, moves and traps.
Holds(cond, cc) ==
  LET less == cc.n # cc.v
  IN CASE cond = "A" -> TRUE        [] cond = "N" -> FALSE
       [] cond = "NE" -> ~cc.z      [] cond = "E" -> cc.z
       [] cond = "G" -> ~(cc.z \/ less) [] cond = "LE" -> cc.z \/ less
       [] cond = "GE" -> ~less      [] cond = "L" -> less
       [] cond = "GU" -> ~(cc.c \/ cc.z) [] cond = "LEU" -> cc.c \/ cc.z
       [] cond = "CC" -> ~cc.c      [] cond = "CS" -> cc.c
       [] cond = "POS" -> ~cc.n     [] cond = "NEG" -> cc.n
       [] cond = "VC" -> ~cc.v      [] cond = "VS" -> cc.v

\* The conditions on a register.
RegisterHolds(cond, v) ==
  CASE cond = "Z" -> v = 0     [] cond = "NZ" -> v # 0
    [] cond = "LZ" -> Negative(v) [] cond = "GEZ" -> ~Negative(v)
    [] cond = "LEZ" -> v = 0 \/ Negative(v)
    [] cond = "GZ" -> v # 0 /\ ~Negative(v)
    [] OTHER -> FALSE

\* What the conditions are for: how the operands of SUBcc, or a register and zero,
\* compare.
Compares(cond, x, y) ==
  CASE cond = "A" -> TRUE    [] cond = "N" -> FALSE
    [] cond = "E" -> x = y   [] cond = "NE" -> x # y
    [] cond = "L" -> Signed(x) < Signed(y)  [] cond = "GE" -> Signed(x) >= Signed(y)
    [] cond = "G" -> Signed(x) > Signed(y)  [] cond = "LE" -> Signed(x) <= Signed(y)
    [] cond = "CS" -> x < y  [] cond = "CC" -> x >= y
    [] cond = "GU" -> x > y  [] cond = "LEU" -> x <= y
    [] cond = "NEG" -> Negative((x - y) % Modulus) [] cond = "POS" -> ~Negative((x - y) % Modulus)
    [] cond = "VS" -> Signed(x) - Signed(y) \notin -Half .. Half - 1
    [] cond = "VC" -> Signed(x) - Signed(y) \in -Half .. Half - 1
    [] cond = "Z" -> x = 0   [] cond = "NZ" -> x # 0
    [] cond = "LZ" -> Signed(x) < 0    [] cond = "GEZ" -> Signed(x) >= 0
    [] cond = "LEZ" -> Signed(x) <= 0  [] cond = "GZ" -> Signed(x) > 0

-----------------------------------------------------------------------------
\* Results: rdvali, rccvali (a word, or flags), exception code.
Result(rd) == [rd |-> rd, rcc |-> 0, cc |-> NoFlags, trap |-> "OK"]
Raise(code) == [Result(0) EXCEPT !.trap = code]

Plain == {"ADD", "AND", "OR", "XOR", "SUB", "ANDN", "ORN", "XNOR", "ADDC", "SUBC",
          "SAVE", "RESTORE"}
WithCc == {"ADDcc", "ANDcc", "ORcc", "XORcc", "SUBcc", "ANDNcc", "ORNcc", "XNORcc",
           "ADDCcc", "SUBCcc"}

Value(op, v1, v2, cc) ==
  CASE op \in {"ADD", "ADDcc", "SAVE", "RESTORE"} -> Wrap(v1 + v2)
    [] op \in {"SUB", "SUBcc"}   -> Wrap(v1 - v2)
    [] op \in {"ADDC", "ADDCcc"} -> Wrap(v1 + v2 + Carry(cc))
    [] op \in {"SUBC", "SUBCcc"} -> Wrap(v1 - v2 - Carry(cc))
    [] op \in {"AND", "ANDcc"}   -> And(v1, v2)
    [] op \in {"ANDN", "ANDNcc"} -> And(v1, Not(v2))
    [] op \in {"OR", "ORcc"}     -> Or(v1, v2)
    [] op \in {"ORN", "ORNcc"}   -> Or(v1, Not(v2))
    [] op \in {"XOR", "XORcc"}   -> Xor(v1, v2)
    [] op \in {"XNOR", "XNORcc"} -> Not(Xor(v1, v2))

Arithmetic(op, v1, v2, cc) ==
  LET tmp == Value(op, v1, v2, cc)
  IN [Result(tmp) EXCEPT
        !.cc = CASE op \in {"ADDcc", "ADDCcc"} -> AddFlags(v1, v2, tmp)
                 [] op = "SUBcc"  -> SubFlags(v1, v2, 0, tmp)
                 [] op = "SUBCcc" -> SubFlags(v1, v2, Carry(cc), tmp)
                 [] OTHER         -> LogicFlags(tmp)]

-----------------------------------------------------------------------------
\* Multiplication leaves the upper word of the product in rccvali.
Multiply(op, v1, v2) ==
  LET p == IF op \in {"SMUL", "SMULcc"} THEN Signed(v1) * Signed(v2) ELSE v1 * v2
  IN [Result(p % Modulus) EXCEPT !.rcc = (p \div Modulus) % Modulus,
                                 !.cc = LogicFlags(p % Modulus)]

\* The quotient of C, towards zero.
Quotient(a, b) ==
  LET q == (IF a < 0 THEN -a ELSE a) \div (IF b < 0 THEN -b ELSE b)
  IN IF (a < 0) = (b < 0) THEN q ELSE -q

\* The flags of a division are masked with the dividend (the macros iccZERO, ...
\* expand to v1 & icZERO, ...).
DivideFlags(op, v1, overflow, rd) ==
  IF op \notin {"UDIVcc", "SDIVcc"} THEN NoFlags
  ELSE Flags(Negative(rd) /\ Bit(v1, 3) = 1, rd = 0 /\ Bit(v1, 2) = 1,
             overflow /\ Bit(v1, 1) = 1, FALSE)

\* The dividend is the Y register and v1; a quotient that is too large becomes
\* the largest one.
Divide(op, y, v1, v2) ==
  LET signed == op \in {"SDIV", "SDIVcc"}
      q == IF signed THEN Quotient(WideSigned(y * Modulus + v1), Signed(v2))
           ELSE (y * Modulus + v1) \div v2
      least == IF signed THEN -Half ELSE 0
      most == IF signed THEN Half - 1 ELSE Modulus - 1
      rd == (IF q < least THEN least ELSE IF q > most THEN most ELSE q) % Modulus
  IN IF v2 = 0 THEN Raise("DIV0")
     ELSE [Result(rd) EXCEPT !.cc = DivideFlags(op, v1, q \notin least .. most, rd)]

\* A multiply step (fnMULScc_serialized): <<rd, cc, y>>.
MultiplyStep(v1, v2, cc, y) ==
  LET t == v1 \div 2 + (IF cc.n # cc.v THEN Half ELSE 0)
      added == Bit(y, 0) = 1
      tmp == IF added THEN Wrap(t + v2) ELSE t
  IN <<tmp,
       Flags(Negative(tmp), tmp = 0,
             added /\ Negative(t) = Negative(v2) /\ Negative(tmp) # Negative(t), FALSE),
       y \div 2 + (v1 % 2) * Half>>

-----------------------------------------------------------------------------
\* Shifts. A host shifts by the count modulo its word; so does the mask that SRA
\* puts over a negative word, which covers all of it when the count is zero.
Count(v2) == v2 % Width
Shift(op, v1, v2) ==
  LET k == Count(v2)
  IN CASE op = "SLL" -> (v1 * 2 ^ k) % Modulus
       [] op = "SRL" -> v1 \div 2 ^ k
       [] op = "SRA" -> IF ~Negative(v1) THEN v1 \div 2 ^ k
                        ELSE IF k = 0 THEN Modulus - 1
                        ELSE v1 \div 2 ^ k + Modulus - 2 ^ (Width - k)

POPC(v) ==
  LET ones[i \in 0 .. Width] == IF i = 0 THEN 0 ELSE ones[i - 1] + Bit(v, i - 1)
  IN ones[Width]
=============================================================================
