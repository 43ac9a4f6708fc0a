---------------------------- MODULE MCMemoryUnit ----------------------------
(* Instances of MemoryUnit: short programs on the two bytes of a word *)
EXTENDS MemoryUnit

Ld(bs) == [k |-> "ld", bytes |-> bs, order |-> {}]
St(bs) == [k |-> "st", bytes |-> bs, order |-> {}]
Rmw(bs) == [k |-> "rmw", bytes |-> bs, order |-> {}]
Mb(o) == [k |-> "mb", bytes |-> {}, order |-> o]
Br == [k |-> "br", bytes |-> {}, order |-> {}]
Trap == [k |-> "trap", bytes |-> {}, order |-> {}]

Word == {0, 1}
MCBytes == {0, 1}

\* Forwarding, partial overlaps, and loads that pass unknown stores
Forwarding == {<<St({0}), St({0}), Ld({0}), Ld({0})>>, <<St({0}), Rmw(Word), Ld({0}), Ld(Word)>>,
               <<St(Word), Rmw({0}), Ld({0}), Ld({1})>>, <<St({1}), St(Word), Ld({0}), Br, Ld(Word)>>}
\* One barrier of each kind between accesses of both kinds
Barriers == {<<St({0}), Ld({1}), Mb({o}), St({1}), Ld({0})>> : o \in {"SS", "LS", "SL", "LL", "MEMISSUE"}}
\* Stores on their way when a branch or a trap flushes what follows
Flushes == {<<St({0}), Trap, St({0}), Br, Ld({0})>>, <<Ld({0}), Br, St({0}), Rmw({0}), Trap>>}

MCPrograms == Forwarding \cup Barriers \cup Flushes

\* The hypothesis of MembarsHold holds of these programs.
ASSUME MCBarriersApart == \A p \in MCPrograms : Apart(p)

\* A load that forwards from the second of three stores
LimboPrograms == {<<St({1}), St({0}), St({0}), Ld({0})>>}
\* Barriers that are not apart: of the same kind with an access between them, and with a
\* store of the bytes of a load behind them
BarrierPrograms == {<<St({1}), Mb({"SL"}), St({0}), Mb({"SL"}), Ld({0})>>}
MixedBarrierPrograms == {<<St({0}), Mb({"SS"}), Mb({"LL"}), Ld({1}), Mb({"LL"}), Ld({1})>>}
ForwardPrograms == {<<St({1}), Mb({"SL"}), St({0}), Ld({0})>>}

=============================================================================
