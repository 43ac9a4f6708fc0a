----------------------------- MODULE MCPipeline -----------------------------
(* Instances of Pipeline for TLC. *)
EXTENDS Pipeline

I(k, s1, s2, d) ==
    [k |-> k, s1 |-> s1, s2 |-> s2, d |-> d, cc |-> FALSE, annul |-> FALSE, tgt |-> 0]
WithCC(i) == [i EXCEPT !.cc = TRUE]
To(i, t) == [i EXCEPT !.tgt = t]
Annulled(i) == [i EXCEPT !.annul = TRUE]
Halt == I("halt", "z", "z", "z")

\* user code from 0, the window handlers at 7, 9 and 12, the others at 11
Program(code) ==
    [a \in 0 .. 13 |->
        CASE a < Len(code) -> code[a + 1]
          [] a = 7 -> I("saved", "z", "z", "z")
          [] a = 9 -> I("restored", "z", "z", "z")
          [] a = 12 -> I("wrclean", "z", "z", "z")
          [] a \in {8, 10, 11, 13} -> I("retry", "z", "z", "z")
          [] OTHER -> Halt]
WindowHandlers == ("WINOVERFLOW" :> 7) @@ ("WINUNDERFLOW" :> 9)
AllHandlers == WindowHandlers @@ ("DTLB_MISS" :> 11) @@ ("INTERRUPT" :> 11)

\* a conditional branch on a late condition, its slot, and a consumer
Conditional == Program(<<
    WithCC(I("op", "g", "g", "g")), To(I("bcc", "z", "z", "z"), 4),
    I("op", "g", "z", "w"), I("op", "w", "g", "g"), I("op", "g", "w", "w")>>)
\* two branches in flight, the first annulled, the second to its own slot
Nested == Program(<<
    I("op", "g", "z", "g"), WithCC(I("op", "z", "z", "z")),
    Annulled(To(I("bcc", "z", "z", "z"), 4)), WithCC(I("op", "g", "z", "g")),
    To(I("bcc", "z", "z", "z"), 5), I("op", "g", "z", "w")>>)
\* a jump that is not predicted, with a load in its slot
Jump == Program(<<
    I("op", "z", "z", "g"), To(I("jmp", "g", "z", "w"), 3),
    I("ld", "g", "z", "g"), I("op", "w", "g", "w"), I("op", "g", "g", "g")>>)
\* windows that overflow and underflow, and a predicted return
Calls == Program(<<
    I("save", "w", "z", "w"), I("save", "w", "z", "w"),
    To(I("ret", "w", "z", "z"), 4), I("restore", "w", "z", "w"), I("restore", "w", "z", "g")>>)
\* a load that may be replayed, a serialized write and a barrier
Serial == Program(<<
    I("ld", "z", "z", "g"), I("wr", "g", "z", "w"), To(I("ba", "z", "z", "z"), 4),
    I("sync", "z", "z", "z"), I("op", "w", "g", "g")>>)

\* nothing but instructions with two destinations
TwoDestinations == Program(<<
    WithCC(I("op", "g", "z", "g")), WithCC(I("op", "g", "z", "w")),
    WithCC(I("op", "w", "g", "g")), I("op", "g", "w", "w")>>)
TwoDestinationPrograms == {TwoDestinations}
\* a SAVE into a window that is not clean
CleanWindowPrograms == {Program(<<I("save", "w", "z", "w"), I("op", "w", "z", "g")>>)}

AllPrograms == {Conditional, Nested, Jump, Calls, Serial}
UncleanWindows == {[cwp |-> 0, cansave |-> 1, canrestore |-> 1, cleanwin |-> 1]}
CleanWindowHandlers == ("CLEANWINDOW" :> 12)
FullWindows == {[cwp |-> 0, cansave |-> 1, canrestore |-> 1, cleanwin |-> NUM_WINS]}
=============================================================================
