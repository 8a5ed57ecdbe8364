---------------------------- MODULE RpcCallProofs ----------------------------
(***************************************************************************)
(* RpcCall for any retry configuration, any set of methods and every       *)
(* answer of RpcErrors.                                                    *)
(*                                                                         *)
(* The invariant CallInv ties a call to its latest answer: while it is     *)
(* still trying, that answer was retryable, and when it has returned, the  *)
(* result is that answer's and the answer was final or the attempts are    *)
(* used up.  The rest is about the classification of an answer, by cases   *)
(* on its body, and about the powers of two.                               *)
(***************************************************************************)
EXTENDS RpcCall, WellFoundedInduction, TLAPS

\* The call and its latest answer.
CallInv ==
    /\ attempt > 0 => answer \in Answers
    /\ pc = "call" => attempt = 0 /\ answer = NoAnswer
    /\ pc = "attempt" =>
          /\ total_attempts = MaxRetries + 1
          /\ attempt > 0 => is_retryable(try_call(method, answer))
    /\ pc = "done" =>
          \/ answer = NoAnswer
          \/ /\ answer \in Answers
             /\ result = try_call(method, answer)
             /\ is_retryable(result) => attempt = MaxRetries

\* The sleeps so far are those of the attempts so far.
DelayInv ==
    /\ delays \in Seq(Nat)
    /\ Len(delays) = attempt
    /\ \A i \in 1 .. Len(delays) : delays[i] = backoff(i - 1)
-----------------------------------------------------------------------------
(* Numbers.  A proof by induction on n takes the least counterexample with *)
(* LeastNat and shows that there is a smaller one.                         *)

\* Every non-empty set of naturals has a least element.
LEMMA LeastNat ==
    ASSUME NEW T, T \subseteq Nat, T # {}
    PROVE  \E x \in T : \A y \in T : x <= y
<1>1. PICK x \in T : \A y \in T : ~(<<y, x>> \in OpToRel(<, Nat))
  BY NatLessThanWellFounded, WFMin, Zenon
<1>2. ASSUME NEW y \in T PROVE x <= y
  <2>1. ~(<<y, x>> \in OpToRel(<, Nat))
    BY <1>1
  <2>2. <<y, x>> \in Nat \X Nat
    OBVIOUS
  <2>3. ~(y < x)
    BY <2>1, <2>2 DEF OpToRel
  <2> QED
    BY <2>3
<1> QED
  BY <1>2

\* Arithmetic that does not overflow is exact.
LEMMA ModSmall ==
    ASSUME NEW m \in Nat, NEW n \in Nat, n < m
    PROVE  n % m = n
  OBVIOUS
-----------------------------------------------------------------------------
(* The powers of two. *)

\* f has the first n of them after 1.
Powers(n, f) == f \in [0 .. n -> Nat] /\ f[0] = 1 /\ \A i \in 1 .. n : f[i] = 2 * f[i - 1]

\* The recursion can be carried to any n.
LEMMA PowersExist == \A n \in Nat : \E f : Powers(n, f)
<1> DEFINE Bad == {n \in Nat : ~ \E f : Powers(n, f)}
<1> SUFFICES ASSUME Bad # {} PROVE FALSE
  OBVIOUS
<1>1. PICK n \in Bad : \A m \in Bad : n <= m
  BY LeastNat, Bad \subseteq Nat
<1>2. n # 0
  <2>1. Powers(0, [i \in 0 .. 0 |-> 1])
    BY DEF Powers
  <2> QED
    BY <1>1, <2>1
<1>3. n - 1 \in Nat /\ n - 1 \notin Bad
  BY <1>1, <1>2
<1>4. PICK f : Powers(n - 1, f)
  BY <1>3
<1> DEFINE g == [i \in 0 .. n |-> IF i = n THEN 2 * f[n - 1] ELSE f[i]]
<1>5. Powers(n, g)
  <2>1. n \in Nat /\ n >= 1 /\ n - 1 \in 0 .. n - 1
    BY <1>1, <1>2
  <2>2. f \in [0 .. n - 1 -> Nat] /\ f[0] = 1 /\ \A i \in 1 .. n - 1 : f[i] = 2 * f[i - 1]
    BY <1>4 DEF Powers
  <2>3. \A i \in 0 .. n : i # n => i \in 0 .. n - 1
    BY <2>1
  <2>4. g \in [0 .. n -> Nat]
    BY <2>1, <2>2, <2>3
  <2>5. g[0] = 1
    BY <2>1, <2>2
  <2>6. ASSUME NEW i \in 1 .. n PROVE g[i] = 2 * g[i - 1]
    BY <2>1, <2>2
  <2> QED
    BY <2>4, <2>5, <2>6 DEF Powers
<1> QED
  BY <1>1, <1>5

\* It has one solution.
LEMMA PowersUnique ==
    ASSUME NEW m \in Nat, NEW n \in Nat, NEW f, NEW g, Powers(m, f), Powers(n, g), m <= n
    PROVE  \A i \in 0 .. m : f[i] = g[i]
<1> DEFINE Bad == {i \in 0 .. m : f[i] # g[i]}
<1> SUFFICES ASSUME Bad # {} PROVE FALSE
  OBVIOUS
<1>1. PICK i \in Bad : \A j \in Bad : i <= j
  BY LeastNat, Bad \subseteq Nat
<1>2. i # 0
  BY <1>1 DEF Powers
<1>3. i \in 1 .. m /\ i \in 1 .. n /\ i - 1 \in 0 .. m /\ i - 1 \notin Bad
  BY <1>1, <1>2
<1>4. f[i] = 2 * f[i - 1] /\ g[i] = 2 * g[i - 1]
  BY <1>3 DEF Powers
<1> QED
  BY <1>1, <1>3, <1>4

\* PowerOfTwo is what its recursive definition says, for every n.
LEMMA PowerOfTwoFacts ==
    /\ PowerOfTwo[0] = 1
    /\ \A n \in Nat : PowerOfTwo[n] \in Nat /\ PowerOfTwo[n + 1] = 2 * PowerOfTwo[n]
<1> DEFINE Def(f) == [n \in Nat |-> IF n = 0 THEN 1 ELSE 2 * f[n - 1]]
<1> DEFINE upto(n) == CHOOSE f : Powers(n, f)
<1> DEFINE g == [n \in Nat |-> upto(n)[n]]
<1>1. \A n \in Nat : Powers(n, upto(n))
  BY PowersExist
<1> HIDE DEF upto
<1>2. ASSUME NEW n \in Nat PROVE g[n] = Def(g)[n]
  <2>1. CASE n = 0
    BY <1>1, <2>1 DEF Powers
  <2>2. CASE n # 0
    <3>1. n - 1 \in Nat /\ n - 1 <= n /\ n - 1 \in 0 .. n - 1 /\ n \in 1 .. n
      BY <2>2
    <3>2. upto(n - 1)[n - 1] = upto(n)[n - 1]
      BY <1>1, <3>1, PowersUnique
    <3>3. upto(n)[n] = 2 * upto(n)[n - 1]
      BY <1>1, <3>1 DEF Powers
    <3> QED
      BY <2>2, <3>1, <3>2, <3>3
  <2> QED
    BY <2>1, <2>2
<1>3. g = Def(g)
  BY <1>2
<1>4. PowerOfTwo = Def(PowerOfTwo)
  <2> HIDE DEF g
  <2>1. PowerOfTwo = CHOOSE f : f = Def(f)
    BY DEF PowerOfTwo
  <2> HIDE DEF Def
  <2> QED
    BY <1>3, <2>1
<1>5. \A n \in Nat : PowerOfTwo[n] = IF n = 0 THEN 1 ELSE 2 * PowerOfTwo[n - 1]
  <2> SUFFICES ASSUME NEW n \in Nat PROVE PowerOfTwo[n] = Def(PowerOfTwo)[n]
    OBVIOUS
  <2> HIDE DEF Def
  <2> QED
    BY <1>4
<1>6. \A n \in Nat : PowerOfTwo[n + 1] = 2 * PowerOfTwo[n]
  BY <1>5
<1> DEFINE Bad == {n \in Nat : PowerOfTwo[n] \notin Nat}
<1>7. Bad = {}
  <2> SUFFICES ASSUME Bad # {} PROVE FALSE
    OBVIOUS
  <2>1. PICK n \in Bad : \A m \in Bad : n <= m
    BY LeastNat, Bad \subseteq Nat
  <2>2. n # 0
    BY <1>5, <2>1
  <2>3. n - 1 \in Nat /\ n - 1 \notin Bad
    BY <2>1, <2>2
  <2> QED
    BY <1>5, <2>1, <2>2, <2>3
<1> QED
  BY <1>5, <1>6, <1>7
-----------------------------------------------------------------------------
(* The classification of an answer. *)

\* An answer is a transport failure, or a status with a body.
LEMMA AnswerCases ==
    ASSUME NEW a \in Answers
    PROVE  \/ /\ "transport" \in DOMAIN a /\ "body" \notin DOMAIN a
              /\ a.transport \in {"timeout", "connect", "broken"}
           \/ /\ "transport" \notin DOMAIN a /\ "body" \in DOMAIN a
              /\ a.status \in Statuses /\ a.body \in Bodies
<1>1. CASE a \in [transport : {"timeout", "connect", "broken"}]
  BY <1>1
<1>2. CASE a \in [status : Statuses, body : Bodies]
  BY <1>2
<1> QED
  BY <1>1, <1>2 DEF Answers

\* The bodies with a JSON-RPC error, field by field.
LEMMA ErrorBodies ==
    ASSUME NEW b \in Bodies, b.form = "error"
    PROVE  \/ /\ b.cause \in DOMAIN CauseVariant /\ b.info \in BOOLEAN /\ b.tx = Nothing
              /\ ~b.missing /\ b.code = -32000
           \/ /\ b.cause = "INVALID_TRANSACTION" /\ b.info /\ b.tx \in InvalidTxErrors \union {"Unparsed"}
              /\ ~b.missing
           \/ /\ b.cause = "CONTRACT_EXECUTION_ERROR" /\ b.info /\ b.tx = Nothing /\ ~b.missing
              /\ b.vm_error \in Objects \union Texts \union {Absent}
              /\ b.error \in Objects \union {Absent}
              /\ b.data \in Texts \union {Absent}
           \/ /\ b.cause = "NEW_CAUSE" /\ b.info /\ b.tx = Nothing /\ b.missing \in BOOLEAN
              /\ b.code \in {-32000, -32603, -32600}
<1>1. CASE b \in TypedBodies
  BY <1>1 DEF TypedBodies, PlainError, ErrorBody
<1>2. CASE b \in TxBodies
  BY <1>2 DEF TxBodies, ErrorBody
<1>3. CASE b \in ContractBodies
  BY <1>3 DEF ContractBodies, ErrorBody
<1>4. CASE b \in GenericBodies
  BY <1>4 DEF GenericBodies, PlainError, ErrorBody
<1>5. CASE b \in OtherBodies
  BY <1>5 DEF OtherBodies
<1> QED
  BY <1>1, <1>2, <1>3, <1>4, <1>5 DEF Bodies

\* The variants that RpcError::is_retryable names without looking further.
Transient == {"Timeout", "ShardUnavailable", "NodeNotSynced", "InternalError", "RequestTimeout"}
Inspected == {"Http", "Network", "InvalidTx", "Rpc"}

\* What a cause decides, and which causes stand for themselves.
LEMMA CauseFacts ==
    ASSUME NEW c \in DOMAIN CauseVariant
    PROVE  /\ c \notin {"CONTRACT_EXECUTION_ERROR", "INVALID_TRANSACTION", "NEW_CAUSE"}
           /\ CauseVariant[c] \notin Inspected
           /\ c \in DecidedCauses => CauseVariant[c] \notin Transient
           /\ c \notin DecidedCauses => CauseVariant[c] \in Transient /\ c \notin NeedsInfo
  BY DEF CauseVariant, DecidedCauses, Transient, Inspected, NeedsInfo

\* parse_rpc_error, arm by arm.
LEMMA ParseFacts ==
    ASSUME NEW b \in Bodies, b.form = "error"
    PROVE  /\ b.cause = "CONTRACT_EXECUTION_ERROR" => parse_rpc_error(b) = contract_error(b)
           /\ b.cause = "INVALID_TRANSACTION" =>
                parse_rpc_error(b) = IF b.tx = "Unparsed" THEN Err("InvalidTransaction") ELSE InvalidTx(b.tx)
           /\ b.cause \in DOMAIN CauseVariant /\ (b.cause \in NeedsInfo => b.info) =>
                parse_rpc_error(b) = Err(CauseVariant[b.cause])
           /\ b.cause \in DOMAIN CauseVariant /\ b.cause \in NeedsInfo /\ ~b.info =>
                parse_rpc_error(b) = fallback(b)
           /\ b.cause = "NEW_CAUSE" => parse_rpc_error(b) = fallback(b)
<1>1. CASE b.cause = "CONTRACT_EXECUTION_ERROR"
  BY <1>1, CauseFacts DEF parse_rpc_error
<1>2. CASE b.cause = "INVALID_TRANSACTION"
  BY <1>2, CauseFacts DEF parse_rpc_error
<1>3. CASE b.cause \in DOMAIN CauseVariant
  BY <1>3, CauseFacts DEF parse_rpc_error
<1>4. CASE b.cause = "NEW_CAUSE"
  BY <1>4, CauseFacts DEF parse_rpc_error
<1> QED
  BY <1>1, <1>2, <1>3, <1>4, ErrorBodies

\* The typed errors of a failed contract call.
LEMMA ClassifyFacts ==
    ASSUME NEW p
    PROVE  classify(p) \in {"ContractNotDeployed", "MethodNotFound", "ContractPanic", Nothing}
  BY DEF classify, CallErrorVariant

\* The arm of CONTRACT_EXECUTION_ERROR returns one of four errors, none of them retried.
LEMMA ContractErrorFacts ==
    ASSUME NEW b
    PROVE  contract_error(b).variant \in
              {"ContractNotDeployed", "MethodNotFound", "ContractPanic", "ContractExecution"}
  BY ClassifyFacts DEF contract_error, IsLegacy, Err

\* A classification is retried when it is transient, or when the node could
\* not say what was wrong.
LEMMA Retryable ==
    ASSUME NEW v
    PROVE  /\ v \notin Inspected => (is_retryable(Err(v)) <=> v \in Transient)
           /\ is_retryable(InvalidTx(v)) <=> v \in {"ShardCongested", "ShardStuck"}
           /\ is_retryable(Rpc(v)) <=> v \in {-32000, -32603}
           /\ v \in BOOLEAN => (is_retryable(Network(v)) <=> v) /\ (is_retryable(Http(v)) <=> v)
<1> USE DEF is_retryable, InvalidTxIsRetryable, Transient, Inspected
<1>1. v \notin Inspected => (is_retryable(Err(v)) <=> v \in Transient)
  BY DEF Err
<1>2. is_retryable(InvalidTx(v)) <=> v \in {"ShardCongested", "ShardStuck"}
  BY DEF InvalidTx
<1>3. is_retryable(Rpc(v)) <=> v \in {-32000, -32603}
  BY DEF Rpc
<1>4. v \in BOOLEAN => (is_retryable(Network(v)) <=> v) /\ (is_retryable(Http(v)) <=> v)
  BY DEF Network, Http
<1> QED
  BY <1>1, <1>2, <1>3, <1>4

\* try_call on a body with an error: the classification stands, except that
\* an unidentified error is not retried on a 4xx status.
LEMMA TryCallError ==
    ASSUME NEW m, NEW a \in Answers, HasError(a)
    PROVE  /\ parse_rpc_error(a.body).variant # "Rpc" => try_call(m, a) = parse_rpc_error(a.body)
           /\ parse_rpc_error(a.body).variant = "Rpc" /\ a.status \in {400, 422} =>
                ~is_retryable(try_call(m, a))
<1>1. "transport" \notin DOMAIN a /\ a.status \in Statuses /\ a.body \in Bodies /\ a.body.form = "error"
  BY AnswerCases DEF HasError
<1>2. CASE a.status = 200
  <2>1. a.status \in 200 .. 299
    BY <1>2
  <2>2. try_call(m, a) = parse_rpc_error(a.body)
    BY <1>1, <2>1 DEF try_call
  <2>3. a.status \notin {400, 422}
    BY <1>2
  <2> QED
    BY <2>2, <2>3
<1>3. CASE a.status # 200
  <2>1. a.status \notin 200 .. 299
    BY <1>1, <1>3 DEF Statuses
  <2>2. try_call(m, a) = preserve_http_retry_classification(parse_rpc_error(a.body), a.status)
    BY <1>1, <2>1 DEF try_call
  <2>3. a.status \in {400, 422} => a.status \in 400 .. 499
    OBVIOUS
  <2>4. ~is_retryable(Network(FALSE))
    BY DEF is_retryable, Network
  <2> QED
    BY <2>2, <2>3, <2>4, Zenon DEF preserve_http_retry_classification
<1> QED
  BY <1>1, <1>2, <1>3

\* A decided request is not retried.
LEMMA DecidedIsFinal ==
    ASSUME NEW m, NEW a \in Answers, Decided(a)
    PROVE  ~is_retryable(try_call(m, a))
<1> DEFINE b == a.body
<1> DEFINE e == parse_rpc_error(b)
<1>1. HasError(a) /\ b \in Bodies /\ b.form = "error"
  BY AnswerCases DEF Decided, HasError
<1>2. /\ e.variant # "Rpc" => try_call(m, a) = e
      /\ e.variant = "Rpc" /\ a.status \in {400, 422} => ~is_retryable(try_call(m, a))
  BY <1>1, TryCallError
<1>3. CASE b.cause \in DecidedCauses /\ b.info
  <2>1. b.cause \in DOMAIN CauseVariant
    BY <1>3 DEF DecidedCauses
  <2>2. e = Err(CauseVariant[b.cause])
    BY <1>1, <1>3, <2>1, ParseFacts
  <2>3. e.variant = CauseVariant[b.cause]
    BY <2>2 DEF Err
  <2>4. e.variant \notin Inspected /\ e.variant \notin Transient
    BY <1>3, <2>1, <2>3, CauseFacts
  <2> QED
    BY <1>2, <2>2, <2>3, <2>4, Retryable DEF Inspected
<1>4. CASE b.cause = "CONTRACT_EXECUTION_ERROR"
  <2>1. e = contract_error(b)
    BY <1>1, <1>4, ParseFacts
  <2>2. e.variant \in {"ContractNotDeployed", "MethodNotFound", "ContractPanic", "ContractExecution"}
    BY <2>1, ContractErrorFacts
  <2>3. ~is_retryable(e)
    BY <2>2 DEF is_retryable
  <2> QED
    BY <1>2, <2>2, <2>3
<1>5. CASE b.tx \in {"InvalidNonce", "Expired", "NotEnoughBalance", "Unparsed"}
  <2>1. b.cause = "INVALID_TRANSACTION"
    BY <1>1, <1>5, ErrorBodies DEF Nothing
  <2>2. e = IF b.tx = "Unparsed" THEN Err("InvalidTransaction") ELSE InvalidTx(b.tx)
    BY <1>1, <2>1, ParseFacts
  <2>3. CASE b.tx = "Unparsed"
    <3>1. e = Err("InvalidTransaction")
      BY <2>2, <2>3
    <3>2. e.variant # "Rpc"
      BY <3>1 DEF Err
    <3> QED
      BY <1>2, <3>1, <3>2, Retryable DEF Inspected, Transient
  <2>4. CASE b.tx # "Unparsed"
    <3>1. e = InvalidTx(b.tx)
      BY <2>2, <2>4
    <3>2. e.variant # "Rpc"
      BY <3>1 DEF InvalidTx
    <3>3. ~is_retryable(InvalidTx(b.tx))
      BY <1>5, Retryable
    <3> QED
      BY <1>2, <3>1, <3>2, <3>3
  <2> QED
    BY <2>3, <2>4
<1>6. CASE b.cause = "NEW_CAUSE" /\ a.status \in {400, 422}
  <2>1. e = fallback(b)
    BY <1>1, <1>6, ParseFacts
  <2>2. CASE e = Err("AccountNotFound")
    <3>1. e.variant # "Rpc"
      BY <2>2 DEF Err
    <3> QED
      BY <1>2, <2>2, <3>1, Retryable DEF Inspected, Transient
  <2>3. CASE e = Rpc(b.code)
    <3>1. e.variant = "Rpc"
      BY <2>3 DEF Rpc
    <3> QED
      BY <1>2, <1>6, <3>1
  <2> QED
    BY <2>1, <2>2, <2>3 DEF fallback
<1> QED
  BY <1>3, <1>4, <1>5, <1>6 DEF Decided

\* A failed request that reads as transient is retried: the converse, for an
\* answer that is not.
NotTransient(a) ==
    /\ "transport" \in DOMAIN a => a.transport \notin {"timeout", "connect"}
    /\ HasError(a) /\ a.body.info => a.body.cause \notin DOMAIN CauseVariant \ DecidedCauses
    /\ HasError(a) => a.body.tx \notin {"ShardCongested", "ShardStuck"}
    /\ "body" \in DOMAIN a /\ ~HasError(a) => a.status \notin {408, 429, 500, 503}

\* What is not retried was not transient.
LEMMA FinalIsNotTransient ==
    ASSUME NEW m, NEW a \in Answers, ~is_retryable(try_call(m, a))
    PROVE  NotTransient(a)
<1>1. ASSUME "transport" \in DOMAIN a PROVE a.transport \notin {"timeout", "connect"}
  <2> SUFFICES ASSUME a.transport \in {"timeout", "connect"} PROVE FALSE
    OBVIOUS
  <2>1. try_call(m, a) = Http(a.transport \in {"timeout", "connect"})
    BY <1>1 DEF try_call, transport_error
  <2>2. is_retryable(Http(TRUE))
    BY DEF is_retryable, Http
  <2>3. (a.transport \in {"timeout", "connect"}) = TRUE
    OBVIOUS
  <2> QED
    BY <2>1, <2>2, <2>3, Zenon
<1>2. ASSUME HasError(a) PROVE a.body.cause \notin DOMAIN CauseVariant \ DecidedCauses
  <2> SUFFICES ASSUME a.body.cause \in DOMAIN CauseVariant, a.body.cause \notin DecidedCauses
               PROVE  FALSE
    OBVIOUS
  <2> DEFINE e == parse_rpc_error(a.body)
  <2>1. a.body \in Bodies /\ a.body.form = "error"
    BY <1>2, AnswerCases DEF HasError
  <2>2. a.body.cause \notin NeedsInfo
    BY CauseFacts
  <2>3. e = Err(CauseVariant[a.body.cause])
    BY <2>1, <2>2, ParseFacts
  <2>4. CauseVariant[a.body.cause] \in Transient /\ CauseVariant[a.body.cause] \notin Inspected
    BY CauseFacts
  <2>5. e.variant # "Rpc"
    BY <2>3, <2>4 DEF Err, Inspected
  <2>6. is_retryable(e)
    BY <2>3, <2>4, Retryable
  <2> QED
    BY <1>2, <2>5, <2>6, TryCallError
<1>3. ASSUME HasError(a) PROVE a.body.tx \notin {"ShardCongested", "ShardStuck"}
  <2> SUFFICES ASSUME a.body.tx \in {"ShardCongested", "ShardStuck"} PROVE FALSE
    OBVIOUS
  <2> DEFINE e == parse_rpc_error(a.body)
  <2>1. a.body \in Bodies /\ a.body.form = "error"
    BY <1>3, AnswerCases DEF HasError
  <2>2. a.body.cause = "INVALID_TRANSACTION"
    BY <2>1, ErrorBodies DEF Nothing
  <2>3. e = InvalidTx(a.body.tx)
    BY <2>1, <2>2, ParseFacts
  <2>4. e.variant # "Rpc"
    BY <2>3 DEF InvalidTx
  <2>5. is_retryable(e)
    BY <2>3, Retryable
  <2> QED
    BY <1>3, <2>4, <2>5, TryCallError
<1>4. ASSUME "body" \in DOMAIN a, ~HasError(a) PROVE a.status \notin {408, 429, 500, 503}
  <2> SUFFICES ASSUME a.status \in {408, 429, 500, 503} PROVE FALSE
    OBVIOUS
  <2>1. "transport" \notin DOMAIN a /\ a.body.form # "error"
    BY <1>4, AnswerCases DEF HasError
  <2>2. a.status \notin 200 .. 299
    OBVIOUS
  <2>3. is_retryable_status(a.status)
    BY DEF is_retryable_status
  <2>4. try_call(m, a) = Network(is_retryable_status(a.status))
    BY <2>1, <2>2 DEF try_call
  <2>5. is_retryable(Network(is_retryable_status(a.status)))
    BY <2>3 DEF is_retryable, Network
  <2> QED
    BY <2>4, <2>5
<1> QED
  BY <1>1, <1>2, <1>3, <1>4 DEF NotTransient

\* The kinds of contract error a body names, wherever it names them.
Kinds(b) ==
    {p.kind : p \in {q \in {b.vm_error, b.error, b.data} : q.shape # "absent"}} \ {"UnknownKind"}

\* A place of a contract error: an object holds any kind, a text a known one.
LEMMA PlaceFacts ==
    ASSUME NEW p \in Objects \union Texts \union {Absent}
    PROVE  /\ p.shape \in {"object", "text", "absent"}
           /\ p.shape = "text" => p.kind # "UnknownKind"
           /\ p \in Objects \union {Absent} => p.shape # "text"
           /\ p \in Texts \union {Absent} => p.shape # "object"
<1>1. CASE p \in Objects
  BY <1>1 DEF Objects, Texts, Object, Text, Absent, CallErrors, CallErrorVariant
<1>2. CASE p \in Texts
  BY <1>2 DEF Objects, Texts, Object, Text, Absent, CallErrors, CallErrorVariant
<1>3. CASE p = Absent
  BY <1>3 DEF Objects, Texts, Object, Text, Absent
<1> QED
  BY <1>1, <1>2, <1>3

\* A contract error that names one known kind is classified as that kind,
\* whichever of the three places names it.
LEMMA OneKindDecides ==
    ASSUME NEW b \in Bodies, b.form = "error", b.cause = "CONTRACT_EXECUTION_ERROR",
           NEW k \in DOMAIN CallErrorVariant, Kinds(b) = {k}
    PROVE  contract_error(b) = Err(CallErrorVariant[k])
<1>1. /\ b.vm_error \in Objects \union Texts \union {Absent}
      /\ b.error \in Objects \union {Absent}
      /\ b.data \in Texts \union {Absent}
  BY ErrorBodies, CauseFacts
<1>2. CallErrorVariant[k] # Nothing /\ k # "UnknownKind"
  BY DEF CallErrorVariant, Nothing
<1>3. ASSUME NEW p \in {b.vm_error, b.error, b.data}
      PROVE  p.shape = "absent" \/ p.kind = "UnknownKind" \/ p.kind = k
  BY DEF Kinds
<1>4. PICK r \in {b.vm_error, b.error, b.data} : r.shape # "absent" /\ r.kind = k
  BY DEF Kinds
<1>5. ASSUME NEW p, p.kind = k PROVE classify(p) = CallErrorVariant[k]
  BY <1>5 DEF classify
<1>6. classify(Absent) = Nothing
  BY DEF classify, Absent, CallErrorVariant, Nothing
<1>7. CASE IsStructured(b.vm_error) \/ IsStructured(b.error)
  <2>1. parse_function_call_error(b).kind = k
    BY <1>3, <1>7 DEF parse_function_call_error, IsStructured
  <2>2. classify(parse_function_call_error(b)) = CallErrorVariant[k]
    BY <1>5, <2>1
  <2> QED
    BY <1>2, <2>2 DEF contract_error
<1>8. CASE ~IsStructured(b.vm_error) /\ ~IsStructured(b.error)
  <2>1. classify(parse_function_call_error(b)) = Nothing
    BY <1>6, <1>8 DEF parse_function_call_error
  <2>2. r.shape = "text" /\ r \in {b.vm_error, b.data}
    BY <1>1, <1>2, <1>4, <1>8, PlaceFacts DEF IsStructured
  <2>3. IsLegacy(b.vm_error) \/ IsLegacy(b.data)
    BY <1>2, <1>4, <1>5, <2>2 DEF IsLegacy
  <2>4. ASSUME NEW p \in {b.vm_error, b.data}, IsLegacy(p) PROVE classify(p) = CallErrorVariant[k]
    BY <1>1, <1>3, <1>5, <2>4, PlaceFacts DEF IsLegacy
  <2> QED
    BY <1>2, <2>1, <2>3, <2>4 DEF contract_error
<1> QED
  BY <1>7, <1>8
-----------------------------------------------------------------------------
(* The loop. *)

\* A sleep fits a u64 and respects the cap.
LEMMA BackoffType ==
    ASSUME NEW n \in Nat
    PROVE  backoff(n) \in 0 .. U64 - 1 /\ backoff(n) <= MaxDelay
<1> DEFINE x == InitialDelay * (PowerOfTwo[n] % U64)
<1>1. U64 \in Nat \ {0} /\ InitialDelay \in Nat /\ MaxDelay \in 0 .. U64 - 1
  BY RetryConfigAssumption
<1>2. PowerOfTwo[n] \in Nat
  BY PowerOfTwoFacts
<1>3. PowerOfTwo[n] % U64 \in Nat
  BY <1>1, <1>2
<1>4. x \in Nat
  BY <1>1, <1>3
<1>5. x % U64 \in 0 .. U64 - 1
  <2> HIDE DEF x
  <2> QED
    BY <1>1, <1>4
<1>6. backoff(n) = IF x % U64 < MaxDelay THEN x % U64 ELSE MaxDelay
  BY DEF backoff
<1> HIDE DEF x
<1> QED
  BY <1>1, <1>5, <1>6

\* The type invariant, the link to the latest answer and the sleeps.
LoopInv == TypeOK /\ CallInv /\ DelayInv

\* The initial states.
LEMMA LoopInit == Init => LoopInv
<1> SUFFICES ASSUME Init PROVE LoopInv
  OBVIOUS
<1>1. TypeOK
  BY RetryConfigAssumption DEF Init, TypeOK
<1>2. CallInv
  BY DEF Init, CallInv
<1>3. DelayInv
  BY DEF Init, DelayInv
<1> QED
  BY <1>1, <1>2, <1>3 DEF LoopInv

\* The computation of total_attempts, with its overflow.
LEMMA LoopEnter == LoopInv /\ Enter => LoopInv'
<1> SUFFICES ASSUME LoopInv, Enter PROVE LoopInv'
  OBVIOUS
<1>1. attempt = 0 /\ answer = NoAnswer /\ pc = "call"
  BY DEF LoopInv, CallInv, Enter
<1>2. TypeOK'
  BY DEF LoopInv, TypeOK, Enter, Return
<1>3. CallInv'
  <2>1. CASE total_attempts = 0
    BY <1>1, <2>1 DEF LoopInv, CallInv, Enter, Return
  <2>2. CASE total_attempts # 0
    <3>1. total_attempts = MaxRetries + 1
      BY <2>2, RetryConfigAssumption DEF total_attempts
    <3> QED
      BY <1>1, <2>2, <3>1 DEF LoopInv, CallInv, Enter
  <2> QED
    BY <2>1, <2>2
<1>4. DelayInv'
  BY DEF LoopInv, DelayInv, Enter
<1> QED
  BY <1>2, <1>3, <1>4 DEF LoopInv

\* One attempt: it sleeps and goes on, or returns.
LEMMA LoopAttempt ==
    ASSUME LoopInv, pc = "attempt", NEW a \in Answers, Attempt(a)
    PROVE  LoopInv'
<1> DEFINE e == try_call(method, a)
<1>1. /\ pc = "attempt" /\ method \in Methods /\ attempt \in 0 .. MaxRetries
      /\ total_attempts = MaxRetries + 1
      /\ delays \in Seq(0 .. U64 - 1) /\ delays \in Seq(Nat) /\ Len(delays) = attempt
      /\ \A i \in 1 .. Len(delays) : delays[i] = backoff(i - 1)
  BY DEF LoopInv, TypeOK, CallInv, DelayInv
<1>2. MaxRetries \in Nat /\ U64 \in Nat
  BY RetryConfigAssumption
<1>3. answer' = a /\ method' = method
  BY DEF Attempt
<1> HIDE DEF e
<1>4. CASE /\ retries(e)
           /\ delays' = Append(delays, backoff(attempt))
           /\ attempt' = attempt + 1
           /\ UNCHANGED <<pc, result>>
  <2>1. is_retryable(e) /\ attempt < MaxRetries
    BY <1>1, <1>2, <1>4 DEF retries
  <2>2. backoff(attempt) \in 0 .. U64 - 1
    BY <1>1, <1>2, BackoffType
  <2>3. TypeOK'
    BY <1>1, <1>2, <1>3, <1>4, <2>1, <2>2 DEF TypeOK
  <2>4. CallInv'
    BY <1>1, <1>2, <1>3, <1>4, <2>1 DEF CallInv, e, total_attempts
  <2>5. DelayInv'
    <3>1. delays' \in Seq(Nat) /\ Len(delays') = attempt + 1
      BY <1>1, <1>2, <1>4, <2>2
    <3>2. ASSUME NEW i \in 1 .. Len(delays') PROVE delays'[i] = backoff(i - 1)
      <4>1. CASE i = attempt + 1
        BY <1>1, <1>2, <1>4, <2>2, <4>1
      <4>2. CASE i # attempt + 1
        BY <1>1, <1>2, <1>4, <2>2, <3>1, <4>2
      <4> QED
        BY <4>1, <4>2
    <3> QED
      BY <1>4, <3>1, <3>2 DEF DelayInv, backoff
  <2> QED
    BY <2>3, <2>4, <2>5 DEF LoopInv
<1>5. CASE ~retries(e) /\ Return(e) /\ UNCHANGED <<attempt, delays>>
  <2>1. is_retryable(e) => attempt = MaxRetries
    BY <1>1, <1>2, <1>5 DEF retries
  <2>2. pc' = "done" /\ result' = e
    BY <1>5 DEF Return
  <2>3. TypeOK'
    BY <1>1, <1>3, <1>5, <2>2 DEF TypeOK
  <2>4. CallInv'
    BY <1>3, <1>5, <2>1, <2>2 DEF CallInv, e
  <2>5. DelayInv'
    BY <1>1, <1>5 DEF DelayInv, backoff
  <2> QED
    BY <2>3, <2>4, <2>5 DEF LoopInv
<1> QED
  BY <1>4, <1>5 DEF Attempt, e

\* Every reachable state satisfies the loop's invariant.
THEOREM LoopInvariant == Spec => []LoopInv
<1>1. ASSUME LoopInv, [Next]_vars PROVE LoopInv'
  <2>1. CASE Enter
    BY <1>1, <2>1, LoopEnter
  <2>2. CASE pc = "attempt" /\ \E a \in Answers : Attempt(a)
    BY <1>1, <2>2, LoopAttempt
  <2>3. CASE UNCHANGED vars
    BY <1>1, <2>3 DEF vars, LoopInv, TypeOK, CallInv, DelayInv, total_attempts, backoff
  <2> QED
    BY <1>1, <2>1, <2>2, <2>3 DEF Next
<1> QED
  BY <1>1, LoopInit, PTL DEF Spec

\* Type correctness: in particular no attempt beyond max_retries, and no
\* sleep that does not fit a u64.
THEOREM TypeCorrect == Spec => []TypeOK
<1>1. LoopInv => TypeOK
  BY DEF LoopInv
<1> QED
  BY <1>1, LoopInvariant, PTL

\* For every retry configuration: no answer the node has decided for good is
\* followed by another attempt.
THEOREM DecidedEndsTheCall == Spec => []NeverRepeatsDecided
<1>1. LoopInv => NeverRepeatsDecided
  <2> SUFFICES ASSUME LoopInv, pc = "attempt", attempt > 0 PROVE ~Decided(answer)
    BY DEF NeverRepeatsDecided
  <2>1. answer \in Answers /\ is_retryable(try_call(method, answer))
    BY DEF LoopInv, CallInv
  <2> QED
    BY <2>1, DecidedIsFinal
<1> QED
  BY <1>1, LoopInvariant, PTL

\* For every retry configuration: a call that returns before its last attempt
\* returns an answer that is not transient.
THEOREM EarlyReturnIsFinal == Spec => []TransientUsesAttempts
<1>1. LoopInv => TransientUsesAttempts
  <2> SUFFICES ASSUME LoopInv, pc = "done", attempt < MaxRetries PROVE NotTransient(answer)
    BY DEF TransientUsesAttempts, NotTransient
  <2>1. CASE answer = NoAnswer
    BY <2>1 DEF NotTransient, NoAnswer, HasError
  <2>2. CASE answer # NoAnswer
    <3>1. attempt # MaxRetries
      BY RetryConfigAssumption DEF LoopInv, TypeOK
    <3>2. answer \in Answers /\ ~is_retryable(try_call(method, answer))
      BY <2>2, <3>1 DEF LoopInv, CallInv
    <3> QED
      BY <3>2, FinalIsNotTransient
  <2> QED
    BY <2>1, <2>2
<1> QED
  BY <1>1, LoopInvariant, PTL

\* The typed error of a failed contract call is that of the kind the answer
\* names, whichever shape names it and whatever HTTP status carries it.
THEOREM ShapeDoesNotMatter == Spec => []ShapeIndependent
<1>1. LoopInv => ShapeIndependent
  <2> SUFFICES ASSUME LoopInv, pc = "done", HasError(answer),
                      answer.body.cause = "CONTRACT_EXECUTION_ERROR",
                      NEW k \in DOMAIN CallErrorVariant, Kinds(answer.body) = {k}
               PROVE  result = Err(CallErrorVariant[k])
    BY DEF ShapeIndependent, Kinds
  <2>1. answer \in Answers /\ result = try_call(method, answer)
    BY DEF LoopInv, CallInv, HasError, NoAnswer
  <2>2. answer.body \in Bodies /\ answer.body.form = "error"
    BY <2>1, AnswerCases DEF HasError
  <2>3. parse_rpc_error(answer.body) = Err(CallErrorVariant[k])
    BY <2>2, ParseFacts, OneKindDecides
  <2>4. parse_rpc_error(answer.body).variant # "Rpc"
    BY <2>3 DEF Err, CallErrorVariant
  <2> QED
    BY <2>1, <2>3, <2>4, TryCallError
<1> QED
  BY <1>1, LoopInvariant, PTL

\* A sleep whose product fits a u64 is the capped product.
LEMMA BackoffExact ==
    ASSUME NEW n \in Nat, InitialDelay * PowerOfTwo[n] < U64
    PROVE  /\ InitialDelay * PowerOfTwo[n] \in Nat
           /\ backoff(n) = IF InitialDelay * PowerOfTwo[n] < MaxDelay
                           THEN InitialDelay * PowerOfTwo[n] ELSE MaxDelay
<1>1. U64 \in Nat \ {0} /\ InitialDelay \in Nat /\ PowerOfTwo[n] \in Nat
  BY RetryConfigAssumption, PowerOfTwoFacts
<1>2. InitialDelay * PowerOfTwo[n] \in Nat
  BY <1>1
<1>3. InitialDelay * (PowerOfTwo[n] % U64) = InitialDelay * PowerOfTwo[n]
  <2>1. CASE InitialDelay = 0
    <3>1. PowerOfTwo[n] % U64 \in Nat
      BY <1>1
    <3> QED
      BY <1>1, <2>1, <3>1
  <2>2. CASE InitialDelay # 0
    <3>1. ASSUME NEW i \in Nat, i # 0, NEW p \in Nat PROVE p <= i * p
      BY <3>1
    <3>2. PowerOfTwo[n] < U64
      BY <1>1, <1>2, <2>2, <3>1
    <3> QED
      BY <1>1, <3>2, ModSmall
  <2> QED
    BY <2>1, <2>2
<1>4. (InitialDelay * PowerOfTwo[n]) % U64 = InitialDelay * PowerOfTwo[n]
  BY <1>1, <1>2, ModSmall
<1> QED
  BY <1>2, <1>3, <1>4 DEF backoff

\* When the last product fits a u64, as it does for every configuration of
\* reasonable size, the sleeps double from initial_delay_ms up to
\* max_delay_ms, for any number of retries.
THEOREM SleepsDouble ==
    ASSUME \A n \in 0 .. MaxRetries - 1 : InitialDelay * PowerOfTwo[n] < U64
    PROVE  Spec => []DelaysGrow
<1>1. ASSUME LoopInv PROVE DelaysGrow
  <2> SUFFICES ASSUME NEW i \in DOMAIN delays
               PROVE  /\ delays[i] <= MaxDelay
                      /\ i = 1 => delays[i] = (IF InitialDelay < MaxDelay THEN InitialDelay ELSE MaxDelay)
                      /\ i > 1 => delays[i] = (IF 2 * delays[i - 1] < MaxDelay
                                               THEN 2 * delays[i - 1] ELSE MaxDelay)
    BY DEF DelaysGrow
  <2>1. /\ MaxRetries \in Nat /\ MaxDelay \in Nat /\ InitialDelay \in Nat
        /\ attempt \in 0 .. MaxRetries
        /\ delays \in Seq(Nat) /\ Len(delays) = attempt
        /\ \A j \in 1 .. Len(delays) : delays[j] = backoff(j - 1)
    BY <1>1, RetryConfigAssumption DEF LoopInv, TypeOK, DelayInv
  <2>2. i \in 1 .. attempt /\ i - 1 \in Nat /\ i - 1 \in 0 .. MaxRetries - 1
    BY <2>1
  <2>3. delays[i] = backoff(i - 1)
    BY <2>1, <2>2
  <2>4. delays[i] <= MaxDelay
    BY <2>2, <2>3, BackoffType
  <2>5. ASSUME i = 1
        PROVE  delays[i] = (IF InitialDelay < MaxDelay THEN InitialDelay ELSE MaxDelay)
    <3>1. PowerOfTwo[i - 1] = 1
      BY <2>5, PowerOfTwoFacts
    <3>2. InitialDelay * PowerOfTwo[i - 1] = InitialDelay
      BY <2>1, <3>1
    <3> QED
      BY <2>2, <2>3, <3>2, BackoffExact
  <2>6. ASSUME i > 1
        PROVE  delays[i] = (IF 2 * delays[i - 1] < MaxDelay THEN 2 * delays[i - 1] ELSE MaxDelay)
    <3> DEFINE x == InitialDelay * PowerOfTwo[i - 2]
    <3>0. /\ i \in Int /\ i > 1 /\ i <= attempt /\ attempt \in Int /\ attempt <= MaxRetries
          /\ MaxRetries \in Int /\ Len(delays) = attempt
      BY <2>1, <2>2, <2>6
    <3>1. i - 2 \in Nat /\ i - 2 \in 0 .. MaxRetries - 1 /\ i - 1 \in 1 .. Len(delays) /\ (i - 1) - 1 = i - 2
      BY <3>0
    <3>2. PowerOfTwo[i - 2] \in Nat /\ PowerOfTwo[i - 1] = 2 * PowerOfTwo[i - 2]
      BY <3>1, PowerOfTwoFacts, (i - 2) + 1 = i - 1
    <3>3. InitialDelay * PowerOfTwo[i - 1] = 2 * x
      BY <2>1, <3>2
    <3>4. x \in Nat /\ delays[i - 1] = IF x < MaxDelay THEN x ELSE MaxDelay
      BY <2>1, <3>1, BackoffExact
    <3>5. delays[i] = IF 2 * x < MaxDelay THEN 2 * x ELSE MaxDelay
      BY <2>2, <2>3, <3>3, BackoffExact
    <3> HIDE DEF x
    <3> QED
      BY <2>1, <3>4, <3>5
  <2> QED
    BY <2>4, <2>5, <2>6
<1> QED
  BY <1>1, LoopInvariant, PTL
=============================================================================
