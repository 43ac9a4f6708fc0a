CONSTANTS
  Width = 4
  Half = 8
  IntRegs <- MCIntRegs
  Odd <- MCOdd
  Programs <- MCPrograms
  Code <- MCCode
  Start <- MCStart
  Idioms = {"multiply", "umulcc", "smulcc", "addx", "subx", "udiv", "sdiv", "umod", "smod", "extend", "logic", "constant", "move", "branch", "annul", "mover", "branchr", "call", "fmove", "fbranch", "fcmpe", "loads", "halves", "merge", "swap", "cas", "lock", "base", "aligned", "floads", "fround", "fsum", "fprod", "froot", "fsr"}
SPECIFICATION Spec
INVARIANT IntegerIdioms
INVARIANT MemoryIdioms
INVARIANT FloatIdioms
CHECK_DEADLOCK FALSE
