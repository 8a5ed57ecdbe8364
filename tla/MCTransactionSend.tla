------------------------- MODULE MCTransactionSend --------------------------
(***************************************************************************)
(* Instances of TransactionSend: futures a..e over one signer "g" with one *)
(* key or a rotation of two.                                               *)
(***************************************************************************)
EXTENDS TransactionSend, TLC

CONSTANTS a, b, c, d, e

Interchangeable == Permutations(Sends)

AllSend    == [s \in Sends |-> "send"]
MixedKinds == a :> "send" @@ b :> "sign" @@ c :> "build" @@ d :> "send" @@ e :> "sign"

OneUrl == [s \in Sends |-> "u"]

OneSigner  == {"g"}
SameSigner == [s \in Sends |-> "g"]
NoneForE   == [s \in Sends |-> IF s = e THEN NoSigner ELSE "g"]

OneKey  == "g" :> <<"k">>
TwoKeys == "g" :> <<"k", "l">>
=============================================================================
