------------------------------- MODULE Queries -------------------------------
(***************************************************************************)
(* client/query.rs and the single-request methods of client/rpc.rs: which  *)
(* block a query asks about, which errors a query turns into an answer or  *)
(* completes from its own arguments, and the order of execution statuses   *)
(* (types/block_reference.rs).                                             *)
(***************************************************************************)
EXTENDS Inputs, RpcErrors

CONSTANTS
    BlockIds,    \* heights and hashes of blocks
    MaxRefs      \* bound: references given to one query

(* Block references. *)

Finalities == {"optimistic", "near-final", "final"}
Refs == [kind : {"finality"}, at : Finalities] \cup [kind : {"height", "hash"}, at : BlockIds]
            \cup [kind : {"checkpoint"}, at : {"genesis", "earliest_available"}]

DefaultRef == [kind |-> "finality", at |-> "final"]

\* BlockReference::to_rpc_params: the member it adds to the request.
to_rpc_params(ref) ==
    CASE ref.kind = "finality" -> [finality |-> ref.at]
      [] ref.kind \in {"height", "hash"} -> [block_id |-> <<ref.kind, ref.at>>]
      [] OTHER -> [sync_checkpoint |-> ref.at]

\* block_id_or_null, for the methods that take no finality.
block_id_or_null(ref) == IF ref.kind \in {"height", "hash"} THEN <<ref.kind, ref.at>> ELSE <<>>

\* at_block, at_block_hash and finality of a query: the last call counts.
Asked(refs) == IF refs = <<>> THEN DefaultRef ELSE refs[Len(refs)]

\* block and block_effects take the reference itself, validators and
\* gas_price a block id or null.
BlockParams(method, ref) ==
    IF method \in {"block", "block_effects"} THEN to_rpc_params(ref) ELSE <<block_id_or_null(ref)>>

\* merge_block_reference: the members of the reference are inserted into the
\* request's own.
Merged(params, ref) ==
    LET block == to_rpc_params(ref)
    IN  [member \in DOMAIN params \cup DOMAIN block |-> IF member \in DOMAIN block THEN block[member] ELSE params[member]]
-----------------------------------------------------------------------------
(* Queries: the RPC method each one calls. *)

MethodOf == [view_account |-> "EXPERIMENTAL_view_account", view_access_key |-> "EXPERIMENTAL_view_access_key",
             view_gas_key_nonces |-> "query", view_function |-> "EXPERIMENTAL_call_function",
             view_code |-> "query", view_global_contract_code |-> "query"]

\* Errors that name an account, contract or method, and that nodes send
\* without it: the parser then writes "unknown".
Unnamed == {"AccessKeyNotFound", "GasKeyNotFound", "GlobalContractNotFound", "ContractExecution", "MethodNotFound"}

\* Errors whose identity a method overwrites from its own arguments.
Patched(request) ==
    CASE request = "view_access_key" -> {"AccessKeyNotFound"}
      [] request = "view_gas_key_nonces" -> {"GasKeyNotFound"}
      [] request = "view_function" -> {"ContractExecution", "MethodNotFound"}
      [] request = "view_global_contract_code" -> {"GlobalContractNotFound"}
      [] OTHER -> {}

\* Causes the node's handler of a request answers with, besides the general
\* ones.
CausesOf == [view_account |-> {"UNKNOWN_ACCOUNT"}, view_access_key |-> {"UNKNOWN_ACCESS_KEY"},
             view_gas_key_nonces |-> {"UNKNOWN_GAS_KEY"}, view_code |-> {"UNKNOWN_ACCOUNT", "NO_CONTRACT_CODE"},
             view_function |-> {"CONTRACT_EXECUTION_ERROR", "NO_CONTRACT_CODE", "UNKNOWN_ACCOUNT"},
             view_global_contract_code |-> {"NO_GLOBAL_CONTRACT_CODE"}]

\* The result of a request whose last answer is a.
Requested(request, a) ==
    LET e == try_call(MethodOf[request], a)
    IN  IF e.variant = "Ok" THEN Ok("view") ELSE Fail(e)

\* BalanceQuery: the balance of the view; AccountQuery: the view.
BalanceQuery(a) == Requested("view_account", a)
AccountQuery(a) == Requested("view_account", a)

Absence(result, variants) ==
    CASE result.ok -> Ok(TRUE)
      [] ~result.ok /\ result.error.variant \in variants -> Ok(FALSE)
      [] OTHER -> result

\* AccountExistsQuery.
account_exists(a) == Absence(AccountQuery(a), {"AccountNotFound"})

\* ContractCodeQuery::exists.
contract_exists(a) == Absence(Requested("view_code", a), {"ContractNotDeployed", "AccountNotFound"})

\* Variant: any error means there is nothing to see.
global_exists_any(a) == IF Requested("view_global_contract_code", a).ok THEN Ok(TRUE) ELSE Ok(FALSE)

\* GlobalContractQuery::exists.
global_exists(a) ==
    Absence(Requested("view_global_contract_code", a), {"GlobalContractNotFound", "AccountNotFound"})

\* ViewCall and ViewCallBorsh: the bytes are decoded after the request.
ViewCall(a, decodes) ==
    LET answered == Requested("view_function", a)
    IN  IF answered.ok /\ ~decodes THEN Fail(Err("Json")) ELSE answered
ViewCallBorsh(a, decodes) ==
    LET answered == Requested("view_function", a)
    IN  IF answered.ok /\ ~decodes THEN Fail(Err("Borsh")) ELSE answered
-----------------------------------------------------------------------------
(* Execution statuses: enum TxExecutionStatus and its partial order. *)

ExecutionStatuses == {"None", "Included", "ExecutedOptimistic", "IncludedFinal", "Executed", "Final"}

is_executed(s) == s \in {"ExecutedOptimistic", "Executed", "Final"}
is_block_final(s) == s \in {"IncludedFinal", "Executed", "Final"}

\* partial_cmp: execution and finality of a status.
axes(s) ==
    CASE s = "None" -> <<0, 0>>
      [] s = "Included" -> <<1, 1>>
      [] s = "ExecutedOptimistic" -> <<2, 1>>
      [] s = "IncludedFinal" -> <<1, 2>>
      [] s = "Executed" -> <<2, 2>>
      [] s = "Final" -> <<3, 3>>

AtMost(s, t) == axes(s)[1] <= axes(t)[1] /\ axes(s)[2] <= axes(t)[2]
-----------------------------------------------------------------------------
(* Exercise. *)

AskQuery == Given("none") /\ \E a \in Answers : input' = [of |-> "query", answer |-> a]

AskBlock ==
    /\ Given("none")
    /\ \E n \in 0 .. MaxRefs : \E refs \in [1 .. n -> Refs] : input' = [of |-> "block", refs |-> refs]

CompareStatuses ==
    /\ Given("none")
    /\ \E s, t, u \in ExecutionStatuses : input' = [of |-> "status", s |-> s, t |-> t, u |-> u]
-----------------------------------------------------------------------------
(* Properties. *)

\* What the node said about the thing asked for, whatever the shape of its
\* answer: the cause, the kind of the contract error, or a text.
SaysAbsent(a) ==
    /\ "body" \in DOMAIN a
    /\ \/ a.body.form = "query_missing"
       \/ /\ a.body.form = "error"
          /\ \/ a.body.cause \in {"UNKNOWN_ACCOUNT", "NO_CONTRACT_CODE", "NO_GLOBAL_CONTRACT_CODE"}
             \/ a.body.missing
             \/ \E place \in {a.body.vm_error, a.body.error, a.body.data} : place.kind = "CodeDoesNotExist"

\* An existence query answers "no" only when the node said that the thing is
\* absent: a timeout, a node that is not synced or a refused request never
\* reads as absence, and neither does it as presence.  An account with a
\* balance exists, and a view whose bytes cannot be decoded is an error.
AbsenceIsCertain ==
    Given("query") =>
        \A result \in {account_exists(input.answer), contract_exists(input.answer), global_exists(input.answer)} :
            /\ result.ok /\ ~result.value => SaysAbsent(input.answer)
            /\ result.ok /\ result.value => "body" \in DOMAIN input.answer /\ input.answer.status \in 200 .. 299
            /\ BalanceQuery(input.answer).ok => account_exists(input.answer) = Ok(TRUE)
            /\ ~ViewCall(input.answer, FALSE).ok /\ ~ViewCallBorsh(input.answer, FALSE).ok

\* A missing account holds no contract: a "does not exist" error of the
\* account is an answer of contract_exists too, so the two queries of one
\* account cannot contradict each other.
ExistenceAgrees ==
    Given("query") => (account_exists(input.answer) = Ok(FALSE) => contract_exists(input.answer) = Ok(FALSE))

\* The error of a request names what was requested: none of the errors that
\* nodes send without it reaches the caller as "unknown".
ErrorsNameTheRequest ==
    Given("query") =>
        \A request \in DOMAIN MethodOf :
            LET result == Requested(request, input.answer)
                answered == /\ ~result.ok /\ "body" \in DOMAIN input.answer /\ input.answer.body.form = "error"
                            /\ input.answer.body.cause \in CausesOf[request]
            IN  answered /\ result.error.variant \in Unnamed => result.error.variant \in Patched(request)

\* Every reference a query can be given reaches the node as exactly one
\* member, and two references share a request only when they are equal; for
\* validators and gas_price, also when neither names a block.
OneBlockPerRequest ==
    Given("block") =>
        \A other \in Refs :
            /\ Merged([account_id |-> "u"], Asked(input.refs)) = Merged([account_id |-> "u"], other)
                <=> Asked(input.refs) = other
            /\ BlockParams("block", Asked(input.refs)) = BlockParams("block", other) <=> Asked(input.refs) = other
            /\ BlockParams("validators", Asked(input.refs)) = BlockParams("validators", other)
                    <=> \/ Asked(input.refs) = other
                        \/ {Asked(input.refs).kind, other.kind} \cap {"height", "hash"} = {}

\* Waiting for a higher status is waiting for more: the comparison is a
\* partial order, and what is executed, or in a final block, at a status is
\* so at every status above it.
StatusOrderSound ==
    Given("status") =>
        LET s == input.s  t == input.t  u == input.u
        IN  /\ AtMost(s, t) /\ AtMost(t, s) <=> s = t
            /\ AtMost(s, t) /\ AtMost(t, u) => AtMost(s, u)
            /\ AtMost(s, t) => (is_executed(s) => is_executed(t)) /\ (is_block_final(s) => is_block_final(t))
            /\ s # "None" /\ (is_executed(s) => is_executed(t)) /\ (is_block_final(s) => is_block_final(t))
                 /\ t # "None" /\ s # "Final" => AtMost(s, t)

\* The result of a query is about what was asked: the block, account or key of
\* the request, no transient failure read as absence, and no status read as
\* more than it is.
AnswersTheQuestion ==
    /\ AbsenceIsCertain
    /\ ExistenceAgrees
    /\ ErrorsNameTheRequest
    /\ OneBlockPerRequest
    /\ StatusOrderSound
=============================================================================
