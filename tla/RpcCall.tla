------------------------------- MODULE RpcCall -------------------------------
(***************************************************************************)
(* client/rpc.rs, RpcClient::call: one JSON-RPC call.  It posts the same   *)
(* parameters until an attempt succeeds, fails for good or is the last     *)
(* one, sleeping longer and longer between attempts.                       *)
(***************************************************************************)
EXTENDS RpcErrors

CONSTANTS
    Methods,       \* RPC methods called
    MaxRetries,    \* RetryConfig::max_retries
    InitialDelay,  \* RetryConfig::initial_delay_ms
    MaxDelay,      \* RetryConfig::max_delay_ms
    U32, U64       \* number of values of u32 and of u64

ASSUME RetryConfigAssumption ==
    /\ U32 \in Nat \ {0} /\ U64 \in Nat \ {0}
    /\ MaxRetries \in 0 .. U32 - 1
    /\ InitialDelay \in 0 .. U64 - 1
    /\ MaxDelay \in 0 .. U64 - 1

VARIABLES pc, method, attempt,
          answer,   \* the answer to the latest attempt
          delays,   \* history: the sleeps between attempts
          result    \* the error returned, Err("Ok"), or Err("Pending")

vars == <<pc, method, attempt, answer, delays, result>>

TypeOK ==
    /\ pc \in {"call", "attempt", "done"}
    /\ method \in Methods
    /\ attempt \in 0 .. MaxRetries
    /\ answer \in Answers \union {NoAnswer}
    /\ delays \in Seq(0 .. U64 - 1)

Init ==
    /\ pc = "call"
    /\ method \in Methods
    /\ attempt = 0
    /\ answer = NoAnswer /\ delays = <<>>
    /\ result = Err("Pending")

Return(e) == pc' = "done" /\ result' = e

\* max_retries + 1, as a u32.
total_attempts == (MaxRetries + 1) % U32

\* The loop over 0..total_attempts runs at least once, or falls through to
\* the unreachable!() below it.
Enter ==
    /\ pc = "call"
    /\ IF total_attempts = 0 THEN Return(Err("Panic"))
       ELSE pc' = "attempt" /\ UNCHANGED result
    /\ UNCHANGED <<method, attempt, answer, delays>>

\* The powers of two.
PowerOfTwo[n \in Nat] == IF n = 0 THEN 1 ELSE 2 * PowerOfTwo[n - 1]

\* Variant: the sleep keeps doubling.
backoff_uncapped(n) == InitialDelay * PowerOfTwo[n]

\* min(initial_delay_ms * 2u64.pow(attempt), max_delay_ms), both operations
\* wrapping as they do in a release build.
backoff(n) ==
    LET d == (InitialDelay * (PowerOfTwo[n] % U64)) % U64
    IN  IF d < MaxDelay THEN d ELSE MaxDelay

\* Variant: the last attempt is retried too.
retries_one_more(e) == is_retryable(e) /\ attempt <= total_attempts

\* The guard of the retry arm.
retries(e) == is_retryable(e) /\ attempt < total_attempts - 1

\* One attempt, answered with a.
Attempt(a) ==
    LET e == try_call(method, a)
    IN  /\ answer' = a
        /\ \/ /\ retries(e)
              /\ delays' = Append(delays, backoff(attempt))
              /\ attempt' = attempt + 1
              /\ UNCHANGED <<pc, result>>
           \/ /\ ~retries(e)
              /\ Return(e)
              /\ UNCHANGED <<attempt, delays>>
        /\ UNCHANGED method

Next ==
    \/ Enter
    \/ pc = "attempt" /\ \E a \in Answers : Attempt(a)

Spec == Init /\ [][Next]_vars
-----------------------------------------------------------------------------
(* Properties. *)

HasError(a) == "body" \in DOMAIN a /\ a.body.form = "error"

\* What the node has decided about the request for good: asking again with
\* the same bytes gives the same answer.  An error of no known cause is
\* decided when the HTTP status says the client is at fault.
DecidedCauses ==
    DOMAIN CauseVariant \ {"UNAVAILABLE_SHARD", "NO_SYNCED_BLOCKS", "NOT_SYNCED_YET",
                           "TIMEOUT_ERROR", "INTERNAL_ERROR"}
Decided(a) ==
    /\ HasError(a)
    /\ \/ a.body.cause \in DecidedCauses /\ a.body.info
       \/ a.body.cause = "CONTRACT_EXECUTION_ERROR"
       \/ a.body.tx \in {"InvalidNonce", "Expired", "NotEnoughBalance", "Unparsed"}
       \/ a.body.cause = "NEW_CAUSE" /\ a.status \in {400, 422}

\* A call never repeats a request the node has decided, whatever HTTP status
\* carries the decision: no signed transaction rejected for its nonce is sent
\* again, and no deterministic failure is repeated under a backoff.
NeverRepeatsDecided ==
    pc = "attempt" /\ attempt > 0 => ~Decided(answer)

\* A call gives up early only on an answer that is not transient: exhausted
\* attempts are the only way a timeout, a 5xx page, an unsynced node or a
\* congested shard is returned.
TransientUsesAttempts ==
    pc = "done" /\ attempt < MaxRetries =>
        /\ "transport" \in DOMAIN answer => answer.transport \notin {"timeout", "connect"}
        /\ HasError(answer) /\ answer.body.info =>
              answer.body.cause \notin DOMAIN CauseVariant \ DecidedCauses
        /\ HasError(answer) => answer.body.tx \notin {"ShardCongested", "ShardStuck"}
        /\ "body" \in DOMAIN answer /\ ~HasError(answer) =>
              answer.status \notin {408, 429, 500, 503}

\* The typed error of a failed contract call does not depend on where the
\* node puts it (info.vm_error, info.error, or the text of data): callers
\* "can rely on the typed variants regardless of which shape the provider
\* returns".
ShapeIndependent ==
    pc = "done" /\ HasError(answer) =>
        LET b == answer.body
            kinds == {p.kind : p \in {q \in {b.vm_error, b.error, b.data} : q.shape # "absent"}}
                        \ {"UnknownKind"}
        IN  b.cause = "CONTRACT_EXECUTION_ERROR" =>
              \A k \in DOMAIN CallErrorVariant :
                kinds = {k} => result = Err(CallErrorVariant[k])

\* "Delays grow exponentially from initial_delay_ms, capped at max_delay_ms".
DelaysGrow ==
    \A i \in DOMAIN delays :
        /\ delays[i] <= MaxDelay
        /\ i = 1 => delays[i] = (IF InitialDelay < MaxDelay THEN InitialDelay ELSE MaxDelay)
        /\ i > 1 => delays[i] = (IF 2 * delays[i - 1] < MaxDelay THEN 2 * delays[i - 1] ELSE MaxDelay)
=============================================================================
