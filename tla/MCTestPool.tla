----------------------------- MODULE MCTestPool -----------------------------
(* Two entries for one codeunit, beside a codeunit nobody runs             *)
EXTENDS TestPool

MCCodeunit == {"a", "b"}
MCTwice == 1..2
MCTwiceOf == [t \in MCTwice |-> "a"]
=============================================================================
