------------------------------ MODULE MCSandbox ------------------------------
(***************************************************************************)
(* Two calls that set a new balance: for two accounts, for one account to  *)
(* the same balance, and for one account where the other restores the old  *)
(* balance.  Everything else is the same with the names exchanged.         *)
(***************************************************************************)
EXTENDS Sandbox

Both(c, d) == [n \in Calls |-> IF n = "c" THEN c ELSE d]
Request(of, amount) == [target |-> of, balance |-> amount]

MCAsked == {Both(Request("a", 1), d) : d \in {Request("b", 1), Request("a", 1), Request("a", 0)}}
=============================================================================
