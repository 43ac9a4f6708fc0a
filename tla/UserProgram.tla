---------------------------- MODULE UserProgram ----------------------------
\* What a program of the simulated machine may rely on: its instructions execute
\* one after the other on its own registers and its own memory, whatever traps,
\* interrupts, translation misses and changes of address space happen between
\* them. Traps implements it for every address space.
EXTENDS Integers, Sequences

CONSTANTS Contexts,    \* the address spaces
          Program(_),  \* the instructions of each
          DataPages,   \* pages of data
          Initial(_)   \* what each data page first holds

VARIABLES thread       \* for each address space: pc, npc, g, cc, window, data

Start(c) == [pc |-> 1, npc |-> 2, g |-> 0, cc |-> FALSE, cwp |-> c,
             data |-> [p \in DataPages |-> Initial(p)]]
Init == thread = [c \in Contexts |-> Start(c)]

\* One instruction: the next program counter and what it changes.
After(in, t) ==
  LET next == [t EXCEPT !.pc = t.npc, !.npc = t.npc + 1]
  IN CASE in.op = "LD"   -> [next EXCEPT !.g = t.data[in.page]]
       [] in.op = "ST"   -> [next EXCEPT !.data[in.page] = t.g]
       [] in.op = "ADD"  -> [next EXCEPT !.g = (t.g + 1) % 4, !.cc = t.g = 3]
       [] in.op = "JMP"  -> [next EXCEPT !.npc = in.k]
       [] in.op = "BCC"  -> IF t.cc THEN next ELSE [next EXCEPT !.npc = in.k]
       [] in.op = "TRAP" -> next

Step(c) ==
  /\ thread[c].pc \in DOMAIN Program(c)
  /\ thread' = [thread EXCEPT ![c] = After(Program(c)[thread[c].pc], @)]

Next == \E c \in Contexts : Step(c)
Spec == Init /\ [][Next]_thread
=============================================================================
