------------------------------- MODULE Actions -------------------------------
(***************************************************************************)
(* types/action.rs: the actions of a transaction, as far as the client     *)
(* tells them apart, and the rule that delegate actions are never nested.  *)
(* An action is a kind with an argument; its Borsh form starts with the    *)
(* discriminant of the kind.                                               *)
(***************************************************************************)
EXTENDS Naturals, Sequences

\* enum Action, in its order: the position is the Borsh discriminant.
Variants == <<"CreateAccount", "DeployContract", "FunctionCall", "Transfer", "Stake",
              "AddKey", "DeleteKey", "DeleteAccount", "Delegate", "DeployGlobalContract",
              "UseGlobalContract", "DeterministicStateInit", "TransferToGasKey",
              "WithdrawFromGasKey", "DelegateV2">>

Kinds == {Variants[i] : i \in DOMAIN Variants}

Discriminant(kind) == (CHOOSE i \in DOMAIN Variants : Variants[i] = kind) - 1

Action(kind, arg) == [kind |-> kind, arg |-> arg]

is_delegate(action) == action.kind \in {"Delegate", "DelegateV2"}

\* Variant: DelegateV2 was added to the enum and not here.
DELEGATE_VARIANT_DISCRIMINANTS_v1 == {8}

DELEGATE_VARIANT_DISCRIMINANTS == {8, 14}

\* NonDelegateAction::deserialize_reader on the Borsh form of an action:
\* whether the reader lets it in.
NonDelegateReads(action) == Discriminant(action.kind) \notin DELEGATE_VARIANT_DISCRIMINANTS

\* NonDelegateAction::from_action over a list (filter_map).
NonDelegateActions(actions) ==
    LET kept[i \in 0 .. Len(actions)] ==
          IF i = 0 THEN <<>>
          ELSE IF is_delegate(actions[i]) THEN kept[i - 1]
          ELSE Append(kept[i - 1], actions[i])
    IN  kept[Len(actions)]
=============================================================================
