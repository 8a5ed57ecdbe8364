------------------------------ MODULE RpcErrors ------------------------------
(***************************************************************************)
(* client/rpc.rs and error.rs: how one answer to a POST becomes a result   *)
(* or a typed RpcError, and which of those errors RpcClient::call retries. *)
(* An answer is a transport failure or an HTTP status with a body.  Bodies *)
(* keep what the code branches on: the JSON-RPC code, the cause name,      *)
(* whether the identifying fields of `info` parse, and, for the two causes *)
(* with a payload, the rejected transaction or the function-call error.    *)
(***************************************************************************)
EXTENDS Integers, Sequences

Nothing == "-"

\* cause.name to RpcError variant.
CauseVariant == [
    UNKNOWN_ACCOUNT          |-> "AccountNotFound",
    INVALID_ACCOUNT          |-> "InvalidAccount",
    UNKNOWN_ACCESS_KEY       |-> "AccessKeyNotFound",
    UNKNOWN_GAS_KEY          |-> "GasKeyNotFound",
    UNKNOWN_BLOCK            |-> "UnknownBlock",
    GARBAGE_COLLECTED_BLOCK  |-> "UnknownBlock",
    UNKNOWN_CHUNK            |-> "UnknownChunk",
    UNKNOWN_EPOCH            |-> "UnknownEpoch",
    UNKNOWN_RECEIPT          |-> "UnknownReceipt",
    NO_CONTRACT_CODE         |-> "ContractNotDeployed",
    NO_GLOBAL_CONTRACT_CODE  |-> "GlobalContractNotFound",
    TOO_LARGE_CONTRACT_STATE |-> "ContractStateTooLarge",
    UNAVAILABLE_SHARD        |-> "ShardUnavailable",
    NO_SYNCED_BLOCKS         |-> "NodeNotSynced",
    NOT_SYNCED_YET           |-> "NodeNotSynced",
    INVALID_SHARD_ID         |-> "InvalidShardId",
    TIMEOUT_ERROR            |-> "RequestTimeout",
    PARSE_ERROR              |-> "ParseError",
    INTERNAL_ERROR           |-> "InternalError",
    TOO_MANY_ACCESS_KEYS     |-> "TooManyAccessKeys"]

\* Causes whose variant needs fields of `info`; without them the answer falls
\* through to the generic error.  For NO_CONTRACT_CODE that takes an account
\* id that does not parse: a missing one defaults to "unknown".
NeedsInfo == {"UNKNOWN_ACCOUNT", "UNKNOWN_ACCESS_KEY", "UNKNOWN_GAS_KEY",
              "NO_CONTRACT_CODE", "TOO_LARGE_CONTRACT_STATE", "TOO_MANY_ACCESS_KEYS"}

\* The function-call errors callers branch on; "PanicText" is an
\* ExecutionError whose text starts with "Smart contract panicked".
CallErrorVariant == [
    CodeDoesNotExist |-> "ContractNotDeployed",
    MethodNotFound   |-> "MethodNotFound",
    GuestPanic       |-> "ContractPanic",
    PanicText        |-> "ContractPanic"]

\* FunctionCallError as the node may send it: a known kind of the table,
\* another kind this version knows, or one it does not.
CallErrors == DOMAIN CallErrorVariant \union {"OtherKind"}
-----------------------------------------------------------------------------
(* Bodies.  A place of a contract error holds nothing, an object or a text. *)

Object(k) == [shape |-> "object", kind |-> k]
Text(k)   == [shape |-> "text", kind |-> k]
Absent    == [shape |-> "absent", kind |-> Nothing]

Objects == {Object(k) : k \in CallErrors \union {"UnknownKind"}}
Texts   == {Text(k) : k \in CallErrors}

ErrorBody(code, cause, info, tx, missing, vm_error, error, data) ==
    [form |-> "error", code |-> code, cause |-> cause, info |-> info, tx |-> tx,
     missing |-> missing, vm_error |-> vm_error, error |-> error, data |-> data]

PlainError(code, cause, info, missing) ==
    ErrorBody(code, cause, info, Nothing, missing, Absent, Absent, Absent)

InvalidTxErrors == {"InvalidNonce", "ShardCongested", "ShardStuck", "Expired",
                    "NotEnoughBalance"}

TypedBodies ==
    {PlainError(-32000, c, i, FALSE) : c \in DOMAIN CauseVariant, i \in BOOLEAN}

TxBodies ==
    {ErrorBody(-32000, "INVALID_TRANSACTION", TRUE, x, FALSE, Absent, Absent, Absent) :
        x \in InvalidTxErrors \union {"Unparsed"}}

ContractBodies ==
    {ErrorBody(-32000, "CONTRACT_EXECUTION_ERROR", TRUE, Nothing, FALSE, v, e, d) :
        v \in Objects \union Texts \union {Absent},
        e \in Objects \union {Absent},
        d \in Texts \union {Absent}}

\* No cause, or one this version does not know.  `missing`: the data is the
\* text "account X does not exist while viewing".
GenericBodies ==
    {PlainError(n, "NEW_CAUSE", TRUE, m) : n \in {-32000, -32603, -32600}, m \in BOOLEAN}

\* Bodies without a JSON-RPC error: text that is not JSON-RPC, a response
\* with no result, a decodable result, one of another type, and a `query`
\* result with an embedded "error" string.
OtherBodies == {[form |-> f] : f \in {"not_json", "no_result", "decodes",
                                      "other_type", "query_error", "query_missing"}}

Bodies == TypedBodies \union TxBodies \union ContractBodies \union GenericBodies
            \union OtherBodies

NoAnswer == [transport |-> "none"]

Statuses == {200, 400, 408, 422, 429, 500, 503}

Answers == [status : Statuses, body : Bodies]
            \union [transport : {"timeout", "connect", "broken"}]
-----------------------------------------------------------------------------
(* Typed errors. *)

Err(variant) == [variant |-> variant]
Http(transient) == [variant |-> "Http", transient |-> transient]
Network(retryable) == [variant |-> "Network", retryable |-> retryable]
Rpc(code) == [variant |-> "Rpc", code |-> code]
InvalidTx(tx) == [variant |-> "InvalidTx", tx |-> tx]

\* InvalidTxError::is_retryable.
InvalidTxIsRetryable(tx) == tx \in {"InvalidNonce", "ShardCongested", "ShardStuck"}

\* Variant: what can be retried is decided by InvalidTxError alone.
is_retryable_nonce(e) ==
    \/ e.variant \in {"Timeout", "ShardUnavailable", "NodeNotSynced", "InternalError",
                      "RequestTimeout"}
    \/ e.variant = "Http" /\ e.transient
    \/ e.variant = "Network" /\ e.retryable
    \/ e.variant = "InvalidTx" /\ InvalidTxIsRetryable(e.tx)
    \/ e.variant = "Rpc" /\ e.code \in {-32000, -32603}

\* RpcError::is_retryable.
is_retryable(e) ==
    \/ e.variant \in {"Timeout", "ShardUnavailable", "NodeNotSynced", "InternalError",
                      "RequestTimeout"}
    \/ e.variant = "Http" /\ e.transient
    \/ e.variant = "Network" /\ e.retryable
    \/ e.variant = "InvalidTx" /\ e.tx # "InvalidNonce" /\ InvalidTxIsRetryable(e.tx)
    \/ e.variant = "Rpc" /\ e.code \in {-32000, -32603}

\* Variant: the two retryable 4xx statuses are forgotten.
is_retryable_status_5xx(status) == status \in 500 .. 599

is_retryable_status(status) == status \in {408, 429, 503} \/ status \in 500 .. 599

\* parse_function_call_error: the first of info.vm_error and info.error that
\* is an object of a known kind.
IsStructured(p) == p.shape = "object" /\ p.kind # "UnknownKind"
parse_function_call_error(b) ==
    IF IsStructured(b.vm_error) THEN b.vm_error
    ELSE IF IsStructured(b.error) THEN b.error
    ELSE Absent

\* classify_function_call_error and, for the texts a node without structured
\* errors sends, classify_legacy_function_call_error.
classify(p) == IF p.kind \in DOMAIN CallErrorVariant THEN CallErrorVariant[p.kind] ELSE Nothing

\* Variant: only the structured error is looked at.
contract_error_structured(b) ==
    LET structured == classify(parse_function_call_error(b))
    IN  IF structured # Nothing THEN Err(structured) ELSE Err("ContractExecution")

\* The CONTRACT_EXECUTION_ERROR arm: the structured error, then the texts in
\* `data` and info.vm_error, then the catch-all that keeps the raw message.
IsLegacy(p) == p.shape = "text" /\ classify(p) # Nothing
contract_error(b) ==
    LET structured == classify(parse_function_call_error(b))
    IN  IF structured # Nothing THEN Err(structured)
        ELSE IF IsLegacy(b.data) THEN Err(classify(b.data))
        ELSE IF IsLegacy(b.vm_error) THEN Err(classify(b.vm_error))
        ELSE Err("ContractExecution")

\* The fallbacks: the "does not exist" text, then the generic error.
fallback(b) == IF b.missing THEN Err("AccountNotFound") ELSE Rpc(b.code)

\* RpcClient::parse_rpc_error.
parse_rpc_error(b) ==
    CASE b.cause = "CONTRACT_EXECUTION_ERROR" -> contract_error(b)
      [] b.cause = "INVALID_TRANSACTION" ->
            IF b.tx = "Unparsed" THEN Err("InvalidTransaction") ELSE InvalidTx(b.tx)
      [] b.cause \in DOMAIN CauseVariant /\ (b.cause \in NeedsInfo => b.info) ->
            Err(CauseVariant[b.cause])
      [] OTHER -> fallback(b)

\* The body's classification, except that an error no cause identifies is
\* not retried on 4xx.
preserve_http_retry_classification(e, status) ==
    IF e.variant = "Rpc" /\ status \in 400 .. 499 THEN Network(FALSE) ELSE e

\* reqwest's classification of a request that got no answer.
transport_error(a) == Http(a.transport \in {"timeout", "connect"})

\* The "error" string in the result of a `query`.
embedded_error(b) == fallback(PlainError(-32600, Nothing, TRUE, b.form = "query_missing"))

\* RpcClient::try_call: the error, or Ok.
try_call(method, a) ==
    IF "transport" \in DOMAIN a THEN transport_error(a)
    ELSE LET b == a.body
         IN  IF a.status \notin 200 .. 299
             THEN IF b.form = "error"
                  THEN preserve_http_retry_classification(parse_rpc_error(b), a.status)
                  ELSE Network(is_retryable_status(a.status))
             ELSE CASE b.form = "error" -> parse_rpc_error(b)
                    [] b.form = "not_json" -> Err("Json")
                    [] b.form = "no_result" -> Err("InvalidResponse")
                    [] b.form \in {"query_error", "query_missing"} /\ method = "query" ->
                          embedded_error(b)
                    [] b.form = "decodes" -> Err("Ok")
                    [] OTHER -> Err("Json")
=============================================================================
