---------------------------- MODULE Instructions ----------------------------
(***************************************************************************)
(* The instructions that Sequential.tla and Pipeline.tla execute: one per  *)
(* family of src/src/Processor/funcs.cc that the control of the processor  *)
(* tells apart.  An instruction is a record                                *)
(*    [k, s1, s2, d, cc, annul, tgt]                                       *)
(* of its kind, two sources, a destination, whether it writes the          *)
(* condition codes, its annul bit and its target; an address is a word.    *)
(***************************************************************************)
EXTENDS Integers, Sequences

CONSTANTS
    NUM_WINS,   \* number of register windows
    VM,         \* register values are 0 .. VM-1
    MaxPC,      \* program counters are 0 .. MaxPC
    Handler,    \* Handler[e] is the address of the trap handler of exception e
    Programs,   \* the programs to run: functions from PCs to instructions
    Windows     \* initial [cwp, cansave, canrestore, cleanwin]

ASSUME InstructionsAssumption ==
    /\ NUM_WINS \in Nat /\ NUM_WINS >= 3
    /\ VM \in Nat /\ VM >= 2
    /\ MaxPC \in Nat

PCs == 0 .. MaxPC
NoPC == -1                       \* "(unsigned)-1": the target is not known yet

\* Architectural registers: %g0, the condition codes, a global, and a local
\* of the current window, one register per window.
LogRegs == 0 .. 2 + NUM_WINS
ZEROREG == 0
ArchToLog(win, r) ==
    CASE r = "z" -> ZEROREG [] r = "cc" -> 1 [] r = "g" -> 2 [] r = "w" -> 3 + win

Serialized == {"wr", "wrclean", "saved", "restored", "retry"}
CondBranch == {"bcc"}
UncondBranch == {"ba", "jmp", "ret"}       \* 3 or 2, 1 and 4 in instr.uncond_branch
ControlTransfer == CondBranch \cup UncondBranch
SrcCC(i) == IF i.k \in CondBranch THEN "cc" ELSE "z"

\* WPC_SAVE, WPC_RESTORE, WPC_NONE
WindowChange(i) == CASE i.k = "save" -> 1 [] i.k = "restore" -> -1 [] OTHER -> 0

\* What the instruction at address p computes from its operands.
Result(i, p, a, b) ==
    IF i.k \in UncondBranch THEN p % VM ELSE (a + b + p + 1) % VM
CondCodes(i, p, a, b) == Result(i, p, a, b) % 2
Taken(a) == a % 2 = 1                      \* a condition on the condition codes
JumpTarget(i, a) == i.tgt + (a % 2)          \* a register-indirect target

\* What a SAVE or RESTORE raises when it finds no window.
WindowTrap(i, cansave, canrestore, cleanwin) ==
    CASE i.k = "save" /\ cansave = 0 -> "WINOVERFLOW"
      [] i.k = "save" /\ cansave # 0 /\ cleanwin = canrestore -> "CLEANWINDOW"
      [] i.k = "restore" /\ canrestore = 0 -> "WINUNDERFLOW"
      [] OTHER -> "OK"

\* The window in which a window trap's handler works.
HandlerWindow(e, w) ==
    CASE e = "CLEANWINDOW" -> (w + 1) % NUM_WINS
      [] e = "WINOVERFLOW" -> (w + 2) % NUM_WINS
      [] e = "WINUNDERFLOW" -> (w + NUM_WINS - 1) % NUM_WINS
      [] OTHER -> w

\* SAVED, RESTORED and a write to CLEANWIN, with no windows of other owners
WindowState(i, w) ==
    CASE i.k = "saved" -> [w EXCEPT !.cansave = @ + 1, !.canrestore = @ - 1]
      [] i.k = "restored" ->
            [w EXCEPT !.canrestore = @ + 1, !.cansave = @ - 1,
                      !.cleanwin = IF @ # NUM_WINS THEN @ + 1 ELSE @]
      [] i.k = "wrclean" -> [w EXCEPT !.cleanwin = @ + 1]
      [] OTHER -> w
=============================================================================
