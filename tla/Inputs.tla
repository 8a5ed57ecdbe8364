------------------------------- MODULE Inputs --------------------------------
(***************************************************************************)
(* The input the pure parts of the library are exercised on: a record      *)
(* whose field `of` names the part.                                        *)
(***************************************************************************)
EXTENDS Naturals, Sequences

VARIABLE input

Given(part) == input.of = part

\* Result: Ok and Err.
Ok(v) == [ok |-> TRUE, value |-> v]
Fail(e) == [ok |-> FALSE, error |-> e]
=============================================================================
