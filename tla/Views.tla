-------------------------------- MODULE Views --------------------------------
(***************************************************************************)
(* types/rpc.rs, types/error.rs and types/wait_level.rs: what the client   *)
(* makes of a node's answer about an account, a transaction and its        *)
(* outcome, and how an action comes back from the view a node shows of it. *)
(*                                                                         *)
(* An execution error is the path of its JSON tags; a tag no version of    *)
(* the client knows is "new", fields of another shape are "reshaped".  A   *)
(* base64 text is whether it decodes, the length and what it stands for.   *)
(***************************************************************************)
EXTENDS Inputs, Actions, FiniteSets

CONSTANTS
    MaxBalance,   \* bound: balances of an account, in units of storage for one byte
    MaxNested     \* bound: views inside a view of a delegate action

ASSUME ViewsAssumption == MaxBalance \in Nat /\ MaxNested \in Nat
-----------------------------------------------------------------------------
(* Accounts.  STORAGE_AMOUNT_PER_BYTE is 1, and its product with a u64 fits *)
(* a u128, so that nothing saturates.                                       *)

storage_cost(view) == IF view.locked >= view.storage_usage THEN 0 ELSE view.storage_usage - view.locked

available(view) ==
    CASE view.locked >= view.storage_usage -> view.amount
      [] OTHER -> IF view.amount >= storage_cost(view) THEN view.amount - storage_cost(view) ELSE 0

AccountBalance(view) ==
    [total |-> view.amount, available |-> available(view), locked |-> view.locked, storage_cost |-> storage_cost(view)]
-----------------------------------------------------------------------------
(* Errors of an execution: the tags of an enum that carry another one;     *)
(* every other tag of it is "leaf".                                        *)

TxExecutionError == [ActionError |-> "ActionErrorKind", InvalidTxError |-> "InvalidTxError"]
ActionErrorKind == [leaf |-> "none", FunctionCallError |-> "FunctionCallError",
                    NewReceiptValidationError |-> "ReceiptValidationError",
                    DelegateActionAccessKeyError |-> "InvalidAccessKeyError"]
InvalidTxError == [leaf |-> "none", InvalidAccessKeyError |-> "InvalidAccessKeyError",
                   ActionsValidation |-> "ActionsValidationError", StorageError |-> "StorageError",
                   NotEnoughBalanceForDeposit |-> "DepositCostFailureReason"]
InvalidAccessKeyError == [leaf |-> "none"]
FunctionCallError == [leaf |-> "none", CompilationError |-> "CompilationError",
                      MethodResolveError |-> "MethodResolveError", WasmTrap |-> "WasmTrap", HostError |-> "HostError"]
CompilationError == [leaf |-> "none", PrepareError |-> "PrepareError"]
PrepareError == [leaf |-> "none"]
MethodResolveError == [leaf |-> "none"]
WasmTrap == [leaf |-> "none"]
HostError == [leaf |-> "none"]
ActionsValidationError == [leaf |-> "none"]
ReceiptValidationError == [leaf |-> "none", ActionsValidation |-> "ActionsValidationError"]
StorageError == [leaf |-> "none", MissingTrieValue |-> "MissingTrieValueContext"]
MissingTrieValueContext == [leaf |-> "none"]
DepositCostFailureReason == [leaf |-> "none"]

ErrorTypes ==
    [TxExecutionError |-> TxExecutionError, ActionErrorKind |-> ActionErrorKind, InvalidTxError |-> InvalidTxError,
     InvalidAccessKeyError |-> InvalidAccessKeyError, FunctionCallError |-> FunctionCallError,
     CompilationError |-> CompilationError, PrepareError |-> PrepareError, MethodResolveError |-> MethodResolveError,
     WasmTrap |-> WasmTrap, HostError |-> HostError, ActionsValidationError |-> ActionsValidationError,
     ReceiptValidationError |-> ReceiptValidationError, StorageError |-> StorageError,
     MissingTrieValueContext |-> MissingTrieValueContext, DepositCostFailureReason |-> DepositCostFailureReason]

\* The enums with an untagged variant Unknown at their end.
Fallback == DOMAIN ErrorTypes \ {"TxExecutionError", "MissingTrieValueContext", "DepositCostFailureReason"}

\* What no variant is read from: Unknown, which keeps the JSON, if the enum
\* has it.
Unread(type) == IF type \in Fallback THEN Ok(<<"Unknown">>) ELSE Fail("unreadable")

\* Deserializing the first of n tags, as each enum: the variant of the tag if
\* what it carries is read; `rest` is what follows the tag, as each enum.
ReadTag(tag, n, rest) ==
    [type \in DOMAIN ErrorTypes |->
        LET carried == ErrorTypes[type][tag]
            inner == CASE carried # "none" -> rest[carried]
                       [] carried = "none" /\ n = 1 -> Ok(<<>>)
                       [] OTHER -> Fail("shape")
        IN  IF tag \in DOMAIN ErrorTypes[type] /\ inner.ok THEN Ok(<<tag>> \o inner.value) ELSE Unread(type)]

ReadError(type, path) ==
    LET read[n \in 0 .. Len(path)] ==
            IF n = 0 THEN [t \in DOMAIN ErrorTypes |-> Unread(t)]
                     ELSE ReadTag(path[Len(path) - n + 1], n, read[n - 1])
    IN  read[Len(path)][type]

\* The paths of each enum that are one tag longer than those given.
Longer(paths) ==
    [type \in DOMAIN ErrorTypes |->
        {<<"new">>} \cup
        UNION {LET carried == ErrorTypes[type][tag]
               IN  IF carried = "none" THEN {<<tag>>, <<tag, "reshaped">>} ELSE {<<tag>> \o p : p \in paths[carried]} :
               tag \in DOMAIN ErrorTypes[type]}]

\* The longest chain of enums, from TxExecutionError to PrepareError.
ErrorDepth == 5

PathsOf(type) ==
    LET paths[n \in 0 .. ErrorDepth] ==
            IF n = 0 THEN [t \in DOMAIN ErrorTypes |-> {<<"new">>}] ELSE Longer(paths[n - 1])
    IN  paths[ErrorDepth][type]
-----------------------------------------------------------------------------
(* Outcomes. *)

WaitLevels == <<"None", "Included", "IncludedFinal", "ExecutedOptimistic", "Executed", "Final">>
ExecutedLevels == {"ExecutedOptimistic", "Executed", "Final"}

\* FinalExecutionStatus, with the path of a failure.
FinalStatuses == {[status |-> s, path |-> <<>>] : s \in {"NotStarted", "Started", "Empty", "Json", "NotBase64"}}
                     \cup {[status |-> "Failure", path |-> p] : p \in PathsOf("TxExecutionError")}

\* ExecutionStatus of a receipt: it fails with an action error only.
ReceiptReads(path) == ReadError("TxExecutionError", path).ok /\ path[1] = "ActionError"

\* RawTransactionResponse: its flattened Option is None for what does not
\* deserialize.
RawOutcome(present, final, receipt) ==
    IF /\ present
       /\ final.status = "Failure" => ReadError("TxExecutionError", final.path).ok
       /\ receipt # <<>> => ReceiptReads(receipt)
        THEN Ok([status |-> final.status,
                 error |-> IF final.status = "Failure" THEN ReadError("TxExecutionError", final.path).value ELSE <<>>])
        ELSE Fail("None")

\* Variant: validation errors stay in the outcome.
extract_outcome_as_is(raw) == IF raw.ok THEN Ok(raw.value) ELSE Fail("no execution outcome")

extract_outcome(raw) ==
    CASE ~raw.ok -> Fail("no execution outcome")
      [] raw.ok /\ raw.value.status = "Failure" /\ raw.value.error[1] = "InvalidTxError" -> Fail("InvalidTx")
      [] OTHER -> Ok(raw.value)

\* WaitLevel::convert; SendTxResponse carries the outcome, if any, as it is.
convert(level, raw) ==
    IF level \in ExecutedLevels THEN extract_outcome(raw) ELSE Ok([status |-> "SendTxResponse", outcome |-> raw])

\* TransactionStatusQuery: sender and request first, then the conversion.
TransactionStatusQuery(sender, level, response) ==
    CASE sender = "bad" -> Fail("ParseAccountId")
      [] sender # "bad" /\ ~response.ok -> Fail("Rpc")
      [] OTHER -> convert(level, response.value)

is_success(outcome) == outcome.status \in {"Empty", "Json", "NotBase64"}
is_failure(outcome) == outcome.status = "Failure"

\* FinalExecutionOutcome::result, and json, which takes nothing for null.
result(outcome) ==
    CASE outcome.status = "Failure" ->
            Fail(IF outcome.error[1] = "InvalidTxError" THEN "InvalidTx" ELSE "InvalidTransaction")
      [] outcome.status \in {"Empty", "Json"} -> Ok(outcome.status)
      [] OTHER -> Fail("InvalidTransaction")
json(outcome) == IF result(outcome) = Ok("Empty") THEN Ok("null") ELSE result(outcome)
-----------------------------------------------------------------------------
(* Actions. *)

Base64(decodes, len, is) == [decodes |-> decodes, len |-> len, is |-> is]
HashOf(code) == "hash of " \o code

\* ActionViews with none inside; the kinds of a global contract's identifier
\* are kinds of view.
View(kinds, texts) == [kind : kinds, text : texts, inner : {<<>>}]
DeployViews == {"DeployContract", "DeployGlobalContract", "DeployGlobalContractByAccountId"}
EncodedViews == {"FunctionCall", "DeterministicStateInit"}
DelegateViews == {"Delegate", "DelegateV2"}
PlainViews == {"CreateAccount", "Transfer", "AddKey", "UseGlobalContract", "UseGlobalContractByAccountId", "TransferToGasKey"}

\* The wire action of a kind of view: two kinds by identifier are one.
WireKind(kind) == CASE kind = "DeployGlobalContractByAccountId" -> <<"DeployGlobalContract", "AccountId">>
                    [] kind = "UseGlobalContractByAccountId" -> <<"UseGlobalContract", "AccountId">>
                    [] kind \in {"DeployGlobalContract", "UseGlobalContract"} -> <<kind, "CodeHash">>
                    [] OTHER -> <<kind, "">>
Wire(kind, arg, inner) == [kind |-> WireKind(kind)[1], by |-> WireKind(kind)[2], arg |-> arg, inner |-> inner]

decode_code_hash(text) ==
    CASE ~text.decodes -> Fail("InvalidBase64")
      [] text.decodes /\ text.len # 32 -> Fail("InvalidCodeHash")
      [] OTHER -> Ok(text.is)

\* NonDelegateAction::try_from for each view, given what Action::try_from
\* makes of it; the first error is returned.
non_delegate_actions(actions) ==
    LET converted == [i \in DOMAIN actions |->
                        IF actions[i].ok /\ is_delegate(actions[i].value) THEN Fail("NestedDelegate") ELSE actions[i]]
        bad == {i \in DOMAIN converted : ~converted[i].ok}
    IN  IF bad = {} THEN Ok([i \in DOMAIN converted |-> converted[i].value])
                    ELSE converted[CHOOSE i \in bad : \A k \in bad : i <= k]

\* TryFrom<ActionView> for Action, given what the views inside become.
Converted(view, actions) ==
    CASE view.kind \in DeployViews ->
            LET hash == decode_code_hash(view.text) IN IF hash.ok THEN Ok(Wire(view.kind, hash.value, <<>>)) ELSE hash
      [] view.kind \in EncodedViews ->
            IF view.text.decodes THEN Ok(Wire(view.kind, view.text.is, <<>>)) ELSE Fail("InvalidBase64")
      [] view.kind \in DelegateViews ->
            LET inner == non_delegate_actions(actions)
            IN  IF inner.ok THEN Ok(Wire(view.kind, view.text.is, inner.value)) ELSE inner
      [] OTHER -> Ok(Wire(view.kind, view.text.is, <<>>))

\* The recursion of try_from; bound: a view inside a view holds none.
TryFrom(view) == Converted(view, [i \in DOMAIN view.inner |-> Converted(view.inner[i], <<>>)])

\* The view a node gives of an action that was sent as `view` says: deployed
\* code is replaced by its hash.
NodeView(view) ==
    IF view.kind \in DeployViews THEN [view EXCEPT !.text = Base64(TRUE, 32, HashOf(view.text.is))] ELSE view

SomeTexts == {Base64(TRUE, 32, "a"), Base64(TRUE, 33, "b"), Base64(FALSE, 32, "a")}
SimpleViews == View(DeployViews \cup EncodedViews, SomeTexts)
                   \cup View(PlainViews \cup DelegateViews, {Base64(TRUE, 32, "a")})
SomeNested == UNION {[1 .. n -> SimpleViews] : n \in 0 .. MaxNested}
-----------------------------------------------------------------------------
(* Exercise. *)

ViewAccount ==
    /\ Given("none")
    /\ \E amount, locked, usage \in 0 .. MaxBalance :
          input' = [of |-> "account", view |-> [amount |-> amount, locked |-> locked, storage_usage |-> usage]]

ReadOutcome ==
    /\ Given("none")
    /\ \E i \in DOMAIN WaitLevels, present \in BOOLEAN, final \in FinalStatuses,
          receipt \in {<<>>, <<"ActionError", "new">>, <<"InvalidTxError", "leaf">>} :
          input' = [of |-> "outcome", level |-> WaitLevels[i], present |-> present, final |-> final, receipt |-> receipt]

ViewAction ==
    /\ Given("none")
    /\ \E v \in SimpleViews, inner \in SomeNested :
          /\ v.kind \notin DelegateViews => inner = <<>>
          /\ input' = [of |-> "view", view |-> [v EXCEPT !.inner = inner]]
-----------------------------------------------------------------------------
(* Properties. *)

\* Whoever spends what is reported as available keeps enough, with what is
\* staked, for the storage in use, and nothing that is free is withheld.
\* `total` is the liquid amount: the stake comes on top of it, although the
\* comment of AccountBalance calls total the sum of available and locked.
SpendableLeavesStorage ==
    Given("account") =>
        LET view == input.view
            shown == AccountBalance(view)
            kept == shown.total - shown.available + shown.locked
        IN  /\ shown.available <= shown.total
            /\ view.amount + view.locked >= view.storage_usage => kept >= view.storage_usage
            /\ shown.available > 0 => shown.available + shown.storage_cost = shown.total

\* An error of a newer node never hides an outcome, and costs no more detail
\* than it must: every tag above the innermost enum that has a fallback is
\* still told apart.
UnknownErrorsStayLocal ==
    Given("outcome") /\ input.final.status = "Failure" /\ input.final.path[1] # "new" =>
        LET path == input.final.path
            read == ReadError("TxExecutionError", path)
        IN  /\ read.ok
            /\ \A i \in 1 .. Len(path) - 2 :
                  \/ read.value[i] = path[i]
                  \/ i = Len(path) - 2 /\ path[i + 1] = "leaf"
                  \/ path[i] \in {"MissingTrieValue", "NotEnoughBalanceForDeposit"}

\* What becomes of the outcome a node has reported.  It can be read unless its
\* error is of a kind TxExecutionError has not, or a receipt in it failed with
\* something other than an action error.  At an executed level what is read is
\* given with the status reported, and as a value only if it succeeded, except
\* that a transaction which failed validation is that error; an outcome that
\* cannot be read is an error too, and never an outcome.  At the other levels
\* exactly the outcomes that can be read are given: one that cannot is no
\* error, it is passed over as if the node had reported none, although the
\* comment of SendTxResponse has the outcome there once the data exists.
OutcomeHonest ==
    Given("outcome") =>
        LET final == input.final
            readable == /\ input.present
                        /\ final.status = "Failure" => final.path[1] # "new"
                        /\ input.receipt # <<>> => input.receipt[1] = "ActionError"
            refused == final.status = "Failure" /\ final.path[1] = "InvalidTxError"
            converted == TransactionStatusQuery("u", input.level, Ok(RawOutcome(input.present, final, input.receipt)))
        IN  IF input.level \in ExecutedLevels
                THEN /\ converted.ok <=> readable /\ ~refused
                     /\ readable /\ refused => converted = Fail("InvalidTx")
                     /\ converted.ok => /\ converted.value.status = final.status
                                        /\ json(converted.value).ok => is_success(converted.value)
                ELSE /\ converted.ok
                     /\ converted.value.outcome.ok <=> readable
                     /\ readable => converted.value.outcome.value.status = final.status

\* The view a node gives of an action converts to that action, except that a
\* deployment holds the hash of its code; no view converts to a delegate
\* action inside another or to a deployment without a hash.
ViewsConvertBack ==
    Given("view") =>
        LET view == input.view
            back == TryFrom(NodeView(view))
        IN  /\ view.inner = <<>> /\ view.text.decodes =>
                 back = Ok(Wire(view.kind, IF view.kind \in DeployViews THEN HashOf(view.text.is) ELSE view.text.is, <<>>))
            /\ back.ok => \A i \in DOMAIN back.value.inner :
                 /\ ~is_delegate(back.value.inner[i])
                 /\ view.inner[i].kind \in DeployViews => view.inner[i].text.decodes /\ view.inner[i].text.len = 32

\* What the client makes of a node's answer claims no more than the answer:
\* no balance that storage needs, no outcome of a refused transaction or of
\* one that was not read, no guess at an unknown error, no action other than
\* the one shown.
ViewsAreHonest ==
    /\ SpendableLeavesStorage
    /\ UnknownErrorsStayLocal
    /\ OutcomeHonest
    /\ ViewsConvertBack
=============================================================================
