----------------------------- MODULE Sequential -----------------------------
(***************************************************************************)
(* What the processor promises its programs: instructions take effect one  *)
(* at a time in program order, with delay slots, annulled slots, register  *)
(* windows and precise traps.  No renaming, no speculation, no queues:     *)
(* Pipeline.tla implements this machine.                                   *)
(***************************************************************************)
EXTENDS Instructions

VARIABLES
    prog,       \* the program: an instruction at each address
    pc, npc,    \* the address of the next instruction and of the one after it
    reg,        \* logical registers
    win,        \* [cwp, cansave, canrestore, cleanwin]
    trap        \* the saved states of the traps being handled, innermost first

vars == <<prog, pc, npc, reg, win, trap>>

Operand(r) == reg[ArchToLog(win.cwp, r)]

\* the registers after instruction i has written its results into window w
Written(i, w) ==
    LET a == Operand(i.s1)
        b == Operand(i.s2)
        new == [reg EXCEPT ![ArchToLog(w, i.d)] = Result(i, pc, a, b), ![ZEROREG] = 0] IN
    IF i.cc THEN [new EXCEPT ![ArchToLog(w, "cc")] = CondCodes(i, pc, a, b)] ELSE new

Advance == pc' = npc /\ npc' = npc + 1

Plain(i) ==
    /\ i.k \in {"op", "ld", "sync", "wr", "saved", "restored", "wrclean"}
    /\ reg' = Written(i, win.cwp)
    /\ win' = WindowState(i, win)
    /\ Advance
    /\ UNCHANGED trap

Branch(i) ==
    LET t == Taken(Operand("cc")) IN
    /\ i.k = "bcc"
    /\ IF i.annul /\ ~t
       THEN pc' = npc + 1 /\ npc' = npc + 2
       ELSE pc' = npc /\ npc' = IF t THEN i.tgt ELSE npc + 1
    /\ UNCHANGED <<reg, win, trap>>

Jump(i) ==
    LET t == IF i.k = "ba" THEN i.tgt ELSE JumpTarget(i, Operand(i.s1)) IN
    /\ i.k \in UncondBranch
    /\ IF i.annul THEN pc' = t /\ npc' = t + 1 ELSE pc' = npc /\ npc' = t
    /\ reg' = Written(i, win.cwp)
    /\ UNCHANGED <<win, trap>>

\* what the current instruction raises
OwnTrap(i) == WindowTrap(i, win.cansave, win.canrestore, win.cleanwin)

Window(i) ==
    LET c == WindowChange(i)
        w == ((win.cwp + NUM_WINS) + c) % NUM_WINS IN
    /\ i.k \in {"save", "restore"}
    /\ OwnTrap(i) = "OK"
    /\ win' = [win EXCEPT !.cwp = w, !.cansave = @ - c, !.canrestore = @ + c]
    /\ reg' = Written(i, w)
    /\ Advance
    /\ UNCHANGED trap

\* back to the instruction that trapped, in the window and with the
\* condition codes that it found
Retry(i) ==
    /\ i.k = "retry"
    /\ trap # <<>>
    /\ pc' = Head(trap).pc /\ npc' = Head(trap).npc
    /\ win' = [win EXCEPT !.cwp = Head(trap).cwp]
    /\ reg' = [reg EXCEPT ![ArchToLog(0, "cc")] = Head(trap).cc]
    /\ trap' = Tail(trap)

\* A trap is precise: it saves the address of an instruction none of whose
\* effects, and all of whose predecessors' effects, are in the registers.
Trap(i, e) ==
    /\ \/ e = "INTERRUPT" /\ trap = <<>>
       \/ e = "DTLB_MISS" /\ i.k = "ld" /\ trap = <<>>
       \/ e = OwnTrap(i)
    /\ win' = [win EXCEPT !.cwp = HandlerWindow(e, @)]
    /\ trap' = <<[pc |-> pc, npc |-> npc, cwp |-> win.cwp,
                  cc |-> reg[ArchToLog(0, "cc")]]>> \o trap
    /\ pc' = Handler[e] /\ npc' = Handler[e] + 1
    /\ UNCHANGED reg

Next ==
    /\ pc \in PCs
    /\ prog[pc].k # "halt"
    /\ LET i == prog[pc] IN
       \/ Plain(i)
       \/ Branch(i)
       \/ Jump(i)
       \/ Window(i)
       \/ Retry(i)
       \/ \E e \in DOMAIN Handler : Trap(i, e)
    /\ UNCHANGED prog

Init ==
    /\ prog \in Programs
    /\ win \in Windows
    /\ pc = 0 /\ npc = 1
    /\ reg = [l \in LogRegs |-> 0]
    /\ trap = <<>>

Spec == Init /\ [][Next]_vars
=============================================================================
