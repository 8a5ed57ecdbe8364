-------------------------------- MODULE Values -------------------------------
(***************************************************************************)
(* The sequential parts of the library side by side, each exercised on     *)
(* inputs of its own.                                                      *)
(***************************************************************************)
EXTENDS TransactionBuilder, Client, Queries, Signing, Keys, Amounts, Views,
    WasiTransport, ContractMacro

Untouched == input = [of |-> "none"]

Exercise ==
    \/ StartChain \/ ExtendChain
    \/ ConfigureClient \/ LoadSigner \/ Rotate
    \/ AskQuery \/ AskBlock \/ CompareStatuses
    \/ SignDocument \/ VerifyMessage
    \/ MakeKey \/ ReadText \/ ReadPath \/ MakePhrase
    \/ ShowAmount \/ ReadAmount \/ ReadUnits \/ AddAmounts
    \/ ViewAccount \/ ReadOutcome \/ ViewAction
    \/ SplitUrl \/ Login \/ Exchange
    \/ ExpandTrait \/ AddMethod

ValuesSpec == Untouched /\ [][Exercise]_input
=============================================================================
