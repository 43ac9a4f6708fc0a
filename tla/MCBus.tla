------------------------------- MODULE MCBus -------------------------------
(* Small instances of Bus for TLC. *)
EXTENDS Bus, TLC

\* Addresses take one bus cycle; data takes two, a line written back three.
ShortData == "REQUEST" :> 1 @@ "WRITE_UC" :> 2 @@ "REPLY" :> 2 @@ "COHE_REPLY" :> 2
             @@ "WRITEBACK" :> 3

\* A node: a processor reads and writes back, an I/O module answers with copies
\* (it starts without the arbitrator when it can), memory replies.
Node == {<<0, "REQUEST">>, <<0, "WRITEBACK">>, <<1, "COHE_REPLY">>, <<2, "REPLY">>}
\* The same with requests of the I/O module, which it starts without a look at the limit.
IORequests == Node \cup {<<1, "REQUEST">>}
=============================================================================
