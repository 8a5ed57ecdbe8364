----------------------------- MODULE MCDelegate ------------------------------
(***************************************************************************)
(* An instance of Delegate: the user u rotates over two keys.  a is a call *)
(* without options, b has an explicit nonce and an offset that overflows   *)
(* after the first block, c an explicit limit; e nests a delegate action.  *)
(* x is a payload of another library, with a nested action.               *)
(***************************************************************************)
EXTENDS Delegate, TLC

CONSTANTS a, b, c, e, x

MCSenders  == {"u", "v"}
MCSenderOf == [p \in Payloads |-> IF p \in Strangers THEN "v" ELSE IF p = e THEN NoSigner ELSE "u"]
MCKeysOf   == "u" :> <<"k", "l">> @@ "v" :> <<"m">>

Call  == Action("FunctionCall", 1)
Give  == Action("Transfer", 2)
MCAsked == a :> <<Call, Give>> @@ b :> <<Give>> @@ c :> <<Call>> @@ e :> <<Call, Action("Delegate", 3)>>
MCStranger == x :> <<Call, Action("DelegateV2", 1)>>

MCNonce  == [p \in Futures |-> IF p = b THEN 1 ELSE None]
MCHeight == [p \in Futures |-> IF p = c THEN 1 ELSE None]
MCOffset == [p \in Futures |-> IF p = b THEN U64 - 1 ELSE 0]
=============================================================================
