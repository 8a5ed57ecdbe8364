-------------------------- MODULE TransactionBuilder -------------------------
(***************************************************************************)
(* client/transaction.rs: chains of the consuming builder methods of       *)
(* TransactionBuilder, FunctionCall and CallBuilder, begun by a method of  *)
(* Near or of a token client, and what build, sign, send and delegate make *)
(* of them.  A chain is the sequence of its calls; an argument that fails  *)
(* to parse is "bad", one that fails to serialize is "unserializable".  A  *)
(* signer is known by its account.                                         *)
(***************************************************************************)
EXTENDS Inputs, Actions, SequencesExt, FiniteSets

CONSTANTS
    Accounts,         \* account ids, as strings
    MaxOps            \* bound: calls in a chain after the first

NoAccount == "none"   \* an Option of a signer that is None
Op(name, arg) == [op |-> name, arg |-> arg]

(* Methods that add one action, with the kind they add. *)
ActionMethods == [create_account |-> "CreateAccount", transfer |-> "Transfer", deploy |-> "DeployContract",
                  add_full_access_key |-> "AddKey", add_function_call_key |-> "AddKey",
                  delete_key |-> "DeleteKey", delete_account |-> "DeleteAccount", stake |-> "Stake"]
GlobalMethods == [publish |-> "DeployGlobalContract", deploy_from |-> "UseGlobalContract"]
Redirecting   == [signed_delegate_action |-> "Delegate", state_init |-> "DeterministicStateInit"]
Settings      == {"args", "args_borsh", "args_raw", "gas", "deposit"}

\* .expect(): these panic when their argument does not parse.
Parsing == {"transfer", "add_function_call_key", "delete_account", "stake", "gas", "deposit"}
-----------------------------------------------------------------------------
(* The builder. *)

\* What an action carries, as far as a chain can set it.
Plain == [args |-> "-", gas |-> "-", deposit |-> "-"]

\* FunctionCall::new.
FunctionCall == [args |-> "empty", gas |-> "30T", deposit |-> "0"]

new(signer, receiver) ==
    [receiver |-> receiver, signer |-> signer, override |-> NoAccount, actions |-> <<>>,
     open |-> FALSE, call |-> FunctionCall, panicked |-> FALSE]

add_action(b, kind, content) == [b EXCEPT !.actions = Append(@, Action(kind, content))]

\* Variant: a chaining method of CallBuilder goes on with the inner builder.
finish_forgotten(b) == [b EXCEPT !.open = FALSE]

\* CallBuilder::finish; a TransactionBuilder is left as it is.
finish(b) == IF b.open THEN [add_action(b, "FunctionCall", b.call) EXCEPT !.open = FALSE] ELSE b

\* FunctionCall::args, args_borsh: unwrap_or_default.
Serialized(o) == IF o.op # "args_raw" /\ o.arg = "unserializable" THEN "empty" ELSE o.arg

\* The setters of FunctionCall.
Set(b, o) ==
    CASE o.op = "gas" -> [b EXCEPT !.call.gas = o.arg]
      [] o.op = "deposit" -> [b EXCEPT !.call.deposit = o.arg]
      [] OTHER -> [b EXCEPT !.call.args = Serialized(o)]

\* signed_delegate_action, state_init.
Redirect(b, o) == [add_action(b, Redirecting[o.op], Plain) EXCEPT !.receiver = o.arg]

\* One method, of the CallBuilder when a call is open: its chaining methods
\* finish the call first.
Apply(b, o) ==
    CASE b.panicked -> b
      [] ~b.panicked /\ o.op \in Parsing /\ o.arg = "bad" -> [b EXCEPT !.panicked = TRUE]
      [] ~b.panicked /\ o.op \in Settings /\ o.arg # "bad" -> Set(b, o)
      [] ~b.panicked /\ o.op = "call" -> [finish(b) EXCEPT !.open = TRUE, !.call = FunctionCall]
      [] ~b.panicked /\ o.op \in DOMAIN ActionMethods /\ o.arg # "bad" ->
            add_action(finish(b), ActionMethods[o.op], Plain)
      [] ~b.panicked /\ o.op \in DOMAIN GlobalMethods -> add_action(finish(b), GlobalMethods[o.op], Plain)
      [] ~b.panicked /\ o.op \in DOMAIN Redirecting -> Redirect(finish(b), o)
      [] ~b.panicked /\ o.op = "add_action" -> add_action(finish(b), o.arg, Plain)
      [] ~b.panicked /\ o.op = "sign_with" -> [finish(b) EXCEPT !.override = o.arg]
-----------------------------------------------------------------------------
(* The first call of a chain. *)

\* Methods of Near that act on the signer's own account: account_id() panics
\* without a signer.
SelfDirected == {"deploy", "deploy_from", "publish", "add_full_access_key", "delete_key"}

\* Call builders of FungibleToken and NonFungibleToken.
TokenCall(method) ==
    <<Op("call", method), Op("args", "json"),
      Op("deposit", IF method = "storage_deposit" THEN "d" ELSE "1y"),
      Op("gas", IF method \in {"ft_transfer_call", "nft_transfer_call"} THEN "100T" ELSE "30T")>>
TokenMethods == {"storage_deposit", "ft_transfer", "ft_transfer_call", "nft_transfer", "nft_transfer_call"}

\* call_with_args, call_with_options.
CallWith(o) ==
    <<Op("call", "m"), Op("args", "json")>>
        \o IF o.op = "call_with_options" THEN <<Op("gas", "g"), Op("deposit", "d")>> ELSE <<>>

\* The receiver and the calls a method of Near stands for.
Begun(signer, o) ==
    CASE o.op = "transaction" -> [receiver |-> o.arg, ops |-> <<>>]
      [] o.op \in {"transfer", "call"} -> [receiver |-> "v", ops |-> <<Op(o.op, o.arg)>>]
      [] o.op \in {"call_with_args", "call_with_options"} -> [receiver |-> "v", ops |-> CallWith(o)]
      [] o.op \in SelfDirected -> [receiver |-> signer, ops |-> <<Op(o.op, o.arg)>>]
      [] o.op = "state_init" -> [receiver |-> o.arg, ops |-> <<Op("add_action", "DeterministicStateInit")>>]
      [] o.op \in TokenMethods -> [receiver |-> "v", ops |-> TokenCall(o.op)]

\* All calls of a chain, those behind its first method included.
Calls(c) == Begun(c.signer, c.start).ops \o c.ops

\* The builder before them.
EmptyBuilder(c) ==
    [new(c.signer, Begun(c.signer, c.start).receiver)
        EXCEPT !.panicked = c.start.op \in SelfDirected /\ c.signer = NoAccount]

\* Builder b after the calls.
Chained(b, calls) ==
    LET after[n \in 0 .. Len(calls)] == IF n = 0 THEN b ELSE Apply(after[n - 1], calls[n])
    IN  after[Len(calls)]

Built(c) == Chained(EmptyBuilder(c), Calls(c))
-----------------------------------------------------------------------------
(* The end of a chain. *)

Ends == {"send", "sign", "sign_offline", "build", "build_offline", "delegate"}

Refusal(what) == [result |-> what, signer |-> NoAccount, receiver |-> NoAccount, actions |-> <<>>]

Transaction(b, signer) ==
    [result |-> "ok", signer |-> signer, receiver |-> b.receiver, actions |-> b.actions]

\* signer_override.or(signer).
SignerOf(b) == IF b.override # NoAccount THEN b.override ELSE b.signer

\* build_offline is given its signer, the account "s" or a malformed one.
build_offline(b, signer) ==
    CASE b.actions = <<>> -> Refusal("empty")
      [] b.actions # <<>> /\ signer = "bad" -> Refusal("bad account")
      [] OTHER -> Transaction(b, signer)

sign_offline(b) ==
    CASE b.actions = <<>> -> Refusal("empty")
      [] b.actions # <<>> /\ SignerOf(b) = NoAccount -> Refusal("no signer")
      [] OTHER -> Transaction(b, SignerOf(b))

delegate(b) ==
    IF b.actions # <<>> /\ \E i \in DOMAIN b.actions : is_delegate(b.actions[i])
        THEN Refusal("nested")
        ELSE sign_offline(b)

\* send, sign and build check and choose the signer as sign_offline does.
Outcome(c, how) ==
    LET b == finish(Built(c))
    IN  CASE b.panicked -> Refusal("panicked")
          [] ~b.panicked /\ how = "build_offline" -> build_offline(b, "s")
          [] ~b.panicked /\ how = "delegate" -> delegate(b)
          [] ~b.panicked /\ how \notin {"build_offline", "delegate"} -> sign_offline(b)

\* CallBuilder::into_action on an open call: TRUE when it panics.
IntoActionPanics(b) == b.actions # <<>>
-----------------------------------------------------------------------------
(* Exercise: every chain up to MaxOps calls that type-checks. *)

Ops ==
    {Op("call", "m"), Op("args", "json"), Op("args_borsh", "unserializable"), Op("args_raw", "unserializable")}
        \cup {Op("gas", "g"), Op("deposit", "bad"), Op("transfer", "bad"), Op("transfer", "good")}
        \cup {Op(n, "good") : n \in DOMAIN ActionMethods \cup DOMAIN GlobalMethods}
        \cup {Op(n, a) : n \in DOMAIN Redirecting, a \in Accounts}
        \cup {Op("add_action", "DelegateV2"), Op("sign_with", "s")}

Starts ==
    {Op("transaction", "w"), Op("transfer", "good"), Op("call", "m"), Op("call_with_options", "m"),
     Op("call_with_args", "m"), Op("state_init", "w")}
        \cup {Op(n, "good") : n \in SelfDirected \cup TokenMethods}

StartChain ==
    /\ Given("none")
    /\ \E start \in Starts, signer \in {"u", NoAccount} :
          input' = [of |-> "builder", signer |-> signer, start |-> start, ops |-> <<>>]

ExtendChain ==
    /\ Given("builder") /\ Len(input.ops) < MaxOps
    /\ \E o \in Ops :
          /\ o.op \in Settings => Built(input).open
          /\ ~Built(input).panicked
          /\ input' = [input EXCEPT !.ops = Append(@, o)]
-----------------------------------------------------------------------------
(* Properties. *)

Adding == DOMAIN ActionMethods \cup DOMAIN GlobalMethods \cup DOMAIN Redirecting \cup {"add_action", "call"}

KindAdded(o) ==
    CASE o.op = "call" -> "FunctionCall"
      [] o.op = "add_action" -> o.arg
      [] o.op \in DOMAIN ActionMethods -> ActionMethods[o.op]
      [] o.op \in DOMAIN GlobalMethods -> GlobalMethods[o.op]
      [] o.op \in DOMAIN Redirecting -> Redirecting[o.op]

\* The setters written directly behind the call at position i.
Behind(ops, i, names) ==
    {j \in i + 1 .. Len(ops) : ops[j].op \in names /\ \A k \in i + 1 .. j : ops[k].op \in Settings}

LastSet(ops, i, names, default) ==
    LET js == Behind(ops, i, names)
    IN  IF js = {} THEN default ELSE Serialized(ops[CHOOSE j \in js : \A k \in js : k <= j])

\* The calls that add an action, and where the action of one goes.
Added(ops) == {i \in DOMAIN ops : ops[i].op \in Adding}
Position(ops, i) == Cardinality({j \in Added(ops) : j <= i})

Written(ops, i) ==
    Action(KindAdded(ops[i]),
           IF ops[i].op # "call" THEN Plain
           ELSE [args |-> LastSet(ops, i, {"args", "args_borsh", "args_raw"}, "empty"),
                 gas |-> LastSet(ops, i, {"gas"}, "30T"),
                 deposit |-> LastSet(ops, i, {"deposit"}, "0")])

\* Whatever way a chain ends, the transaction holds one action for each call
\* that adds one, in the order written, and each function call has the
\* arguments, gas and deposit written behind it: none is lost when a chain
\* goes on without finish(), none leaks into the next call.
NothingLost ==
    Given("builder") =>
        \A how \in Ends :
            LET ops == Calls(input)
                actions == Outcome(input, how).actions
            IN  Outcome(input, how).result = "ok" =>
                    /\ Len(actions) = Cardinality(Added(ops))
                    /\ \A i \in Added(ops) : actions[Position(ops, i)] = Written(ops, i)

\* A transaction goes to the account the last state_init or
\* signed_delegate_action names, and to the begun receiver without one.
ReceiverNamedLast ==
    Given("builder") =>
        LET ops == Calls(input)
            naming == {i \in DOMAIN ops : ops[i].op \in DOMAIN Redirecting}
            last == CHOOSE i \in naming : \A j \in naming : j <= i
            result == Outcome(input, "build_offline")
        IN  result.result = "ok" =>
                result.receiver = IF naming = {} THEN Begun(input.signer, input.start).receiver ELSE ops[last].arg

\* Near::state_init, which avoids the builder's, makes the same transaction
\* as a chain begun with any other receiver.
StateInitAgrees ==
    Given("builder") /\ input.start.op = "state_init" =>
        \A how \in Ends, other \in Accounts :
            Outcome(input, how) =
                Outcome([input EXCEPT !.start = Op("transaction", other),
                                      !.ops = <<Op("state_init", input.start.arg)>> \o @], how)

\* The shortcuts for the signer's own account produce transactions signed by
\* the account they act on, unless the chain names another signer or receiver.
SelfActionsOnSelf ==
    Given("builder") /\ input.start.op \in SelfDirected
      /\ ~(\E i \in DOMAIN input.ops : input.ops[i].op \in DOMAIN Redirecting \cup {"sign_with"}) =>
        \A how \in Ends \ {"build_offline"} :
            Outcome(input, how).result = "ok" => Outcome(input, how).signer = Outcome(input, how).receiver

\* A signer given in the chain signs, wherever it was given: no end of a
\* chain falls back to the client's, and none fails for want of a signer.
OverrideSigns ==
    Given("builder") /\ (\E i \in DOMAIN input.ops : input.ops[i].op = "sign_with") =>
        \A how \in Ends \ {"build_offline"} :
            /\ Outcome(input, how).result # "no signer"
            /\ Outcome(input, how).result = "ok" => Outcome(input, how).signer = "s"

\* into_action never throws away actions of the chain.
IntoActionKeepsAll ==
    Given("builder") /\ Built(input).open /\ ~Built(input).panicked /\ ~IntoActionPanics(Built(input)) =>
        Outcome(input, "build_offline").actions = <<Action("FunctionCall", Built(input).call)>>

\* However a chain of builder methods is begun, continued and ended, the
\* transaction is the one that was written: each action once and in order with
\* the settings of its own call, for the receiver named last, signed by the
\* signer named last.
BuildsWhatWasWritten ==
    /\ NothingLost
    /\ ReceiverNamedLast
    /\ StateInitAgrees
    /\ SelfActionsOnSelf
    /\ OverrideSigns
    /\ IntoActionKeepsAll
=============================================================================
