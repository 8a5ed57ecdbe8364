--------------------------- MODULE TransactionSend --------------------------
(***************************************************************************)
(* client/transaction.rs: the transactions of one process on their way to  *)
(* the chain.  Every member of Sends is one future, run concurrently with  *)
(* the others:                                                             *)
(*   - Kind "send":  `builder.send().await`, the loop that claims a key,   *)
(*     views its access key, takes a nonce, signs, submits, and signs      *)
(*     again with a new nonce when the node answers InvalidNonce/Expired;  *)
(*   - Kind "sign":  `builder.sign().await`, then `near.send(&signed)`     *)
(*     at any later time or never: one submission, no new nonce;           *)
(*   - Kind "build": `builder.build().await`, whose caller signs elsewhere *)
(*     and sends the result the same way.                                  *)
(* They share the nonce manager and the rotation counters of the signers.  *)
(* RpcClient::call's loop appears as the re-submission of the same bytes;  *)
(* its classification of errors is in RpcErrors, its backoff in RpcCall.   *)
(*                                                                         *)
(* The chain and its nodes are external, modelled from how the client uses *)
(* them.  A node never executes a transaction at or below the access       *)
(* key's nonce or one whose block hash has expired, and does not answer    *)
(* InvalidNonce or Expired for a transaction that was executed.            *)
(***************************************************************************)
EXTENDS Integers, Sequences, FiniteSets

CONSTANTS
    Sends,            \* the futures of this process
    Kind,             \* Kind[s]: "send", "sign" or "build"
    Url,              \* Url[s]: url of the client's RPC endpoint (cache key)
    Signers,          \* the signers in use
    SignerOf,         \* SignerOf[s]: signer of the builder, or NoSigner
    NoSigner,
    KeysOf,           \* KeysOf[g]: the keys of signer g, in rotation order
    Empty,            \* the sends whose builder holds no action
    ExecutedLevel,    \* the sends that wait for execution (not just submission)
    MaxNonceRetries,  \* builder.max_nonce_retries
    MaxRetries,       \* RetryConfig::max_retries
    U64,              \* number of values of a nonce; 2^64 in the code
    ChainNonce0,      \* nonces the access keys may start with
    MaxForeign,       \* bound: transactions of other processes
    MaxExpiries       \* bound: transactions whose block hash expires

VARIABLES
    \* one future
    pc, attempt, key, view, akNonce, tx, result,
    rpcTry,           \* RpcClient::call's attempt
    \* shared by the futures of the process
    nonces, poisoned, \* the nonce manager's map and its mutex
    counter,          \* RotatingSigner::counter
    built,            \* history: every transaction given a nonce
    \* the chain
    chain,            \* access key nonce of each key, latest block
    final,            \* the same, latest final block
    executed, expired, foreign,
    requests          \* <<transaction, RPC attempt>> pairs sent and not rejected

sendVars  == <<pc, attempt, key, view, akNonce, tx, result, rpcTry>>
procVars  == <<nonces, poisoned, counter, built>>
chainVars == <<chain, final, executed, expired, foreign>>
vars == <<sendVars, procVars, chainVars, requests>>

Keys  == UNION {{KeysOf[g][i] : i \in DOMAIN KeysOf[g]} : g \in Signers}
Urls  == {Url[s] : s \in Sends}
Slots == Urls \X Keys

\* An Option that is None.
None == -1

\* No transaction yet.
NoTx == [send |-> NoSigner, slot |-> <<>>, nonce |-> None]

Nonces == 0 .. U64 - 1
Txs == [send : Sends, slot : Slots, nonce : Nonces]

Results == {"pending", "ok", "empty", "no_signer", "view_failed", "signing_failed",
            "invalid_nonce", "invalid_nonce_at_runtime", "expired", "congested",
            "rpc_failed", "panicked", "dropped"}

\* The results that surface as Error::InvalidTx with a nonce or a block-hash
\* reason, whichever layer reported it.
NonceResults == {"invalid_nonce", "invalid_nonce_at_runtime", "expired"}

ASSUME ConstantsAssumption ==
    /\ Kind \in [Sends -> {"send", "sign", "build"}]
    /\ NoSigner \notin Signers \union Sends
    /\ SignerOf \in [Sends -> Signers \union {NoSigner}]
    /\ KeysOf \in [Signers -> Seq(Keys)]
    /\ \A g \in Signers : Len(KeysOf[g]) > 0
    /\ DOMAIN Url = Sends
    /\ Empty \subseteq Sends
    /\ ExecutedLevel \subseteq Sends
    /\ MaxNonceRetries \in Nat
    /\ MaxRetries \in Nat
    /\ U64 \in Nat \ {0}
    /\ ChainNonce0 \subseteq 0 .. U64 - 1
    /\ MaxForeign \in Nat
    /\ MaxExpiries \in Nat

TypeOK ==
    /\ pc \in [Sends -> {"start", "claim", "view", "nonce", "sign", "held",
                         "wait", "done"}]
    /\ attempt \in [Sends -> 0 .. MaxNonceRetries]
    /\ key \in [Sends -> Keys \union {NoSigner}]
    /\ view \in [Sends -> Nonces \union {None}]
    /\ akNonce \in [Sends -> Nonces \union {None}]
    /\ tx \in [Sends -> Txs \union {NoTx}]
    /\ result \in [Sends -> Results]
    /\ rpcTry \in [Sends -> 0 .. MaxRetries]
    /\ nonces \in [Slots -> Nonces \union {None}]
    /\ poisoned \in BOOLEAN
    /\ counter \in [Signers -> Nat]
    /\ built \subseteq Txs
    /\ chain \in [Keys -> Nonces]
    /\ final \in [Keys -> Nonces]
    /\ executed \subseteq built
    /\ expired \subseteq built
    /\ foreign \in 0 .. MaxForeign
    /\ requests \subseteq built \X (0 .. MaxRetries)

Init ==
    /\ pc = [s \in Sends |-> "start"]
    /\ attempt = [s \in Sends |-> 0]
    /\ key = [s \in Sends |-> NoSigner]
    /\ view = [s \in Sends |-> None]
    /\ akNonce = [s \in Sends |-> None]
    /\ tx = [s \in Sends |-> NoTx]
    /\ result = [s \in Sends |-> "pending"]
    /\ rpcTry = [s \in Sends |-> 0]
    /\ nonces = [l \in Slots |-> None]
    /\ poisoned = FALSE
    /\ counter = [g \in Signers |-> 0]
    /\ built = {}
    /\ chain \in [Keys -> ChainNonce0]
    /\ final = chain
    /\ executed = {} /\ expired = {} /\ foreign = 0
    /\ requests = {}
-----------------------------------------------------------------------------
(* One future. *)

Return(s, r) ==
    /\ pc' = [pc EXCEPT ![s] = "done"]
    /\ result' = [result EXCEPT ![s] = r]

Goto(s, label) ==
    /\ pc' = [pc EXCEPT ![s] = label]
    /\ UNCHANGED result

\* The two early returns before the loop.
Start(s) ==
    /\ pc[s] = "start"
    /\ \/ s \in Empty /\ Return(s, "empty")
       \/ s \notin Empty /\ SignerOf[s] = NoSigner /\ Return(s, "no_signer")
       \/ s \notin Empty /\ SignerOf[s] # NoSigner /\ Goto(s, "claim")
    /\ UNCHANGED <<attempt, key, view, akNonce, tx, rpcTry, procVars, chainVars, requests>>

\* Signer::public_key: the key that Signer::key would claim next.
public_key(g) == KeysOf[g][(counter[g] % Len(KeysOf[g])) + 1]

\* Signer::key: one fetch_add per claim.  A single-key signer is a rotation
\* of one key.  `build` only peeks.
ClaimKey(s) ==
    /\ pc[s] = "claim"
    /\ key' = [key EXCEPT ![s] = public_key(SignerOf[s])]
    /\ counter' = IF Kind[s] = "build" THEN counter
                  ELSE [counter EXCEPT ![SignerOf[s]] = @ + 1]
    /\ view' = [view EXCEPT ![s] = None]
    /\ Goto(s, "view")
    /\ UNCHANGED <<attempt, akNonce, tx, rpcTry, nonces, poisoned, built, chainVars, requests>>

\* view_access_key at Finality::Final.
ViewAccessKey(s) ==
    /\ pc[s] = "view"
    /\ \/ /\ view' = [view EXCEPT ![s] = final[key[s]]]
          /\ Goto(s, "nonce")
       \/ /\ UNCHANGED view
          /\ Return(s, "view_failed")
    /\ UNCHANGED <<attempt, key, akNonce, tx, rpcTry, procVars, chainVars, requests>>

\* The nonces handed out for each slot.
Granted == [l \in Slots |-> {t.nonce : t \in {u \in built : u.slot = l}}]

NM == INSTANCE NonceManager WITH OverflowChecks <- TRUE, granted <- Granted

Slot(s) == <<Url[s], key[s]>>

\* last_ak_nonce.take().unwrap_or(access_key.nonce)
ProvidedNonce(s) == IF akNonce[s] # None THEN akNonce[s] ELSE view[s]

\* Variant: the nonce is computed but the map keeps its old entry.
TakeNonce_uncached(s) ==
    LET n == NM!NextNonce(nonces[Slot(s)], ProvidedNonce(s))
        t == [send |-> s, slot |-> Slot(s), nonce |-> n]
    IN  /\ pc[s] = "nonce" /\ ~poisoned
        /\ built' = built \union {t}
        /\ tx' = [tx EXCEPT ![s] = t]
        /\ akNonce' = [akNonce EXCEPT ![s] = None]
        /\ Goto(s, IF Kind[s] = "build" THEN "held" ELSE "sign")
        /\ UNCHANGED <<attempt, key, view, rpcTry, nonces, poisoned, counter,
                       chainVars, requests>>

\* NonceManager::next, and the transaction built with its result.
TakeNonce(s) ==
    LET n == NM!NextNonce(nonces[Slot(s)], ProvidedNonce(s))
        t == [send |-> s, slot |-> Slot(s), nonce |-> n]
    IN  /\ pc[s] = "nonce"
        /\ ~poisoned
        /\ ~NM!Panics(NM!Refreshed(nonces[Slot(s)], ProvidedNonce(s)))
        /\ nonces' = [nonces EXCEPT ![Slot(s)] = n]
        /\ built' = built \union {t}
        /\ tx' = [tx EXCEPT ![s] = t]
        /\ akNonce' = [akNonce EXCEPT ![s] = None]
        /\ Goto(s, IF Kind[s] = "build" THEN "held" ELSE "sign")
        /\ UNCHANGED <<attempt, key, view, rpcTry, poisoned, counter, chainVars, requests>>

\* `next` panics, at the increment or because an earlier panic poisoned the
\* mutex, and the future with it.
TakeNoncePanics(s) ==
    /\ pc[s] = "nonce"
    /\ \/ poisoned /\ UNCHANGED <<nonces, poisoned>>
       \/ /\ ~poisoned
          /\ NM!Panics(NM!Refreshed(nonces[Slot(s)], ProvidedNonce(s)))
          /\ nonces' = [nonces EXCEPT ![Slot(s)] = NM!Refreshed(@, ProvidedNonce(s))]
          /\ poisoned' = TRUE
    /\ Return(s, "panicked")
    /\ UNCHANGED <<attempt, key, view, akNonce, tx, rpcTry, counter, built, chainVars, requests>>

\* The first POST of RpcClient::call for tx[s].
Submit(s) ==
    /\ rpcTry' = [rpcTry EXCEPT ![s] = 0]
    /\ requests' = requests \union {<<tx[s], 0>>}
    /\ Goto(s, "wait")

\* SigningKey::sign; "send" goes on to send_tx, "sign" returns to its caller.
Sign(s) ==
    /\ pc[s] = "sign"
    /\ \/ Kind[s] = "send" /\ Submit(s)
       \/ Kind[s] = "sign" /\ Goto(s, "held") /\ UNCHANGED <<rpcTry, requests>>
       \/ Return(s, "signing_failed") /\ UNCHANGED <<rpcTry, requests>>
    /\ UNCHANGED <<attempt, key, view, akNonce, tx, procVars, chainVars>>

\* `near.send(&signed)`: SignedTransactionSend.
SendSigned(s) ==
    /\ pc[s] = "held"
    /\ Submit(s)
    /\ UNCHANGED <<attempt, key, view, akNonce, tx, procVars, chainVars>>
-----------------------------------------------------------------------------
(* The answers to send_tx. *)

Executed(t) == t \in executed

\* No node will execute t from now on: chain nonces only grow and an expired
\* block hash stays expired.
Dead(t) == /\ ~Executed(t)
           /\ t.nonce <= chain[t.slot[2]] \/ t \in expired

\* A node rejects the request send s is waiting on, and keeps nothing of it.
Rejected(s) == requests' = requests \ {<<tx[s], rpcTry[s]>>}

\* The transaction layer's next iteration.
Resign(s) ==
    /\ attempt' = [attempt EXCEPT ![s] = @ + 1]
    /\ Goto(s, "claim")

\* A node accepted tx[s] (and, at the executed levels, reports its outcome).
OnAccepted(s) ==
    /\ pc[s] = "wait"
    /\ IF s \in ExecutedLevel THEN Executed(tx[s]) ELSE ~Dead(tx[s])
    /\ Return(s, "ok")
    /\ UNCHANGED <<attempt, key, view, akNonce, tx, rpcTry, procVars, chainVars, requests>>

\* The node's pre-check answers InvalidNonce: the same bytes are not sent
\* again; "send" signs again with the ak_nonce of the answer.
OnInvalidNonce(s) ==
    /\ pc[s] = "wait"
    /\ ~Executed(tx[s]) /\ tx[s].nonce <= chain[key[s]]
    /\ Rejected(s)
    /\ \/ /\ Kind[s] = "send" /\ attempt[s] < MaxNonceRetries
          /\ akNonce' = [akNonce EXCEPT ![s] = chain[key[s]]]
          /\ Resign(s)
       \/ /\ Kind[s] # "send" \/ attempt[s] = MaxNonceRetries
          /\ Return(s, "invalid_nonce")
          /\ UNCHANGED <<attempt, akNonce>>
    /\ UNCHANGED <<key, view, tx, rpcTry, procVars, chainVars>>

\* The transaction reached a chunk and the runtime refused its nonce: the
\* answer is a successful response whose status is Failure(InvalidTxError),
\* which W::convert turns into an error without another iteration.
OnRuntimeInvalidNonce(s) ==
    /\ pc[s] = "wait" /\ s \in ExecutedLevel
    /\ ~Executed(tx[s]) /\ tx[s].nonce <= chain[key[s]]
    /\ Return(s, "invalid_nonce_at_runtime")
    /\ UNCHANGED <<attempt, key, view, akNonce, tx, rpcTry, procVars, chainVars, requests>>

OnExpired(s) ==
    /\ pc[s] = "wait"
    /\ ~Executed(tx[s]) /\ tx[s] \in expired
    /\ Rejected(s)
    /\ \/ /\ Kind[s] = "send" /\ attempt[s] + 1 < MaxNonceRetries
          /\ Resign(s)
       \/ /\ Kind[s] # "send" \/ attempt[s] + 1 >= MaxNonceRetries
          /\ Return(s, "expired")
          /\ UNCHANGED attempt
    /\ UNCHANGED <<key, view, akNonce, tx, rpcTry, procVars, chainVars>>

\* ShardCongested or ShardStuck: the node rejects this request, and
\* RpcClient::call sends the same bytes again while it has retries left.
OnCongested(s) ==
    /\ pc[s] = "wait" /\ ~Executed(tx[s])
    /\ \/ /\ rpcTry[s] < MaxRetries
          /\ rpcTry' = [rpcTry EXCEPT ![s] = @ + 1]
          /\ requests' = (requests \ {<<tx[s], rpcTry[s]>>})
                            \union {<<tx[s], rpcTry[s] + 1>>}
          /\ Goto(s, "wait")
       \/ /\ rpcTry[s] = MaxRetries
          /\ Rejected(s)
          /\ Return(s, "congested")
          /\ UNCHANGED rpcTry
    /\ UNCHANGED <<attempt, key, view, akNonce, tx, procVars, chainVars>>

\* Variant: the attempt counter starts over instead of ending the call.
OnTransient_restarts(s) ==
    /\ pc[s] = "wait"
    /\ rpcTry' = [rpcTry EXCEPT ![s] = (@ + 1) % (MaxRetries + 1)]
    /\ requests' = requests \union {<<tx[s], rpcTry'[s]>>}
    /\ Goto(s, "wait")
    /\ UNCHANGED <<attempt, key, view, akNonce, tx, procVars, chainVars>>

\* Variant: a lost answer is treated like a rejection, and signed again.
OnTransient_signs_again(s) ==
    /\ pc[s] = "wait" /\ Kind[s] = "send" /\ attempt[s] < MaxNonceRetries
    /\ Resign(s)
    /\ UNCHANGED <<key, view, akNonce, tx, rpcTry, procVars, chainVars, requests>>

\* Variant: the error of an earlier iteration is returned for a lost answer.
OnTransient_old_error(s) ==
    /\ pc[s] = "wait"
    /\ Return(s, IF attempt[s] > 0 THEN "invalid_nonce" ELSE "rpc_failed")
    /\ UNCHANGED <<attempt, key, view, akNonce, tx, rpcTry, procVars, chainVars, requests>>

\* A timeout, a refused connection, a 5xx, an unsynced node: no answer about
\* the transaction, which may or may not have reached a node.
OnTransient(s) ==
    /\ pc[s] = "wait"
    /\ \/ /\ rpcTry[s] < MaxRetries
          /\ rpcTry' = [rpcTry EXCEPT ![s] = @ + 1]
          /\ requests' = requests \union {<<tx[s], rpcTry[s] + 1>>}
          /\ Goto(s, "wait")
       \/ /\ rpcTry[s] = MaxRetries
          /\ Return(s, "rpc_failed")
          /\ UNCHANGED <<rpcTry, requests>>
    /\ UNCHANGED <<attempt, key, view, akNonce, tx, procVars, chainVars>>

\* Any other error: an answer that neither layer retries.
OnFatal(s) ==
    /\ pc[s] = "wait"
    /\ Return(s, "rpc_failed")
    /\ UNCHANGED <<attempt, key, view, akNonce, tx, rpcTry, procVars, chainVars, requests>>

\* The caller drops the future at one of its await points.
DropFuture(s) ==
    /\ pc[s] \in {"view", "sign", "wait"}
    /\ Return(s, "dropped")
    /\ UNCHANGED <<attempt, key, view, akNonce, tx, rpcTry, procVars, chainVars, requests>>
-----------------------------------------------------------------------------
(* The chain. *)

\* A chunk includes t, a transaction some node received.
Execute(t) ==
    /\ ~Executed(t) /\ ~Dead(t)
    /\ executed' = executed \union {t}
    /\ chain' = [chain EXCEPT ![t.slot[2]] = t.nonce]
    /\ UNCHANGED <<sendVars, procVars, final, expired, foreign, requests>>

\* The block hash of t leaves the validity period.
Expire(t) ==
    /\ ~Executed(t) /\ t \notin expired
    /\ Cardinality(expired) < MaxExpiries
    /\ expired' = expired \union {t}
    /\ UNCHANGED <<sendVars, procVars, chain, final, executed, foreign, requests>>

\* Another process uses key k.
Foreign(k) ==
    /\ foreign < MaxForeign /\ chain[k] + 1 < U64
    /\ foreign' = foreign + 1
    /\ chain' = [chain EXCEPT ![k] = @ + 1]
    /\ UNCHANGED <<sendVars, procVars, final, executed, expired, requests>>

Finalize(k) ==
    /\ final[k] # chain[k]
    /\ final' = [final EXCEPT ![k] = chain[k]]
    /\ UNCHANGED <<sendVars, procVars, chain, executed, expired, foreign, requests>>

ChainStep ==
    \/ \E r \in requests : Execute(r[1])
    \/ \E t \in built : Expire(t)
    \/ \E k \in Keys : Foreign(k) \/ Finalize(k)
-----------------------------------------------------------------------------
\* What the future does by itself once it is polled and the transport has
\* completed the exchange it waits for.
Progress(s) ==
    \/ Start(s) \/ ClaimKey(s) \/ ViewAccessKey(s)
    \/ TakeNonce(s) \/ TakeNoncePanics(s) \/ Sign(s)
    \/ OnAccepted(s) \/ OnInvalidNonce(s) \/ OnRuntimeInvalidNonce(s)
    \/ OnExpired(s) \/ OnCongested(s) \/ OnTransient(s) \/ OnFatal(s)

\* Every future has returned, or holds a signed transaction nobody sends.
Terminated ==
    /\ \A s \in Sends : pc[s] \in {"done", "held"}
    /\ UNCHANGED vars

Next ==
    \/ \E s \in Sends : Progress(s) \/ SendSigned(s) \/ DropFuture(s)
    \/ ChainStep
    \/ Terminated

Spec == Init /\ [][Next]_vars

FairSpec == Spec /\ \A s \in Sends : WF_vars(Progress(s))
-----------------------------------------------------------------------------
(* Properties. *)

\* Two transactions of the process never carry the same nonce for the same
\* key, whichever futures built them, in whichever order, on whatever stale
\* access-key views (NonceManager: "Prevents nonce collisions when sending
\* multiple transactions in parallel").
NoCollision ==
    \A t, u \in built :
        t.slot[2] = u.slot[2] /\ t.nonce = u.nonce => t = u

\* However often a send signs again and however many copies of each signed
\* transaction the RPC layer puts on the wire, at most one of its
\* transactions is ever executed: the loop only signs again when the node
\* rejected the previous transaction for good.
AtMostOnce ==
    \A t, u \in executed : t.send = u.send => t = u

\* A send that returns InvalidNonce or Expired has changed nothing: none of
\* its transactions was executed and none ever will be, late copies included
\* (Error::InvalidTx: "No receipt was created, no nonce was incremented").
NonceErrorIsFinal ==
    \A s \in Sends : result[s] \in NonceResults =>
        \A t \in built : t.send = s => Dead(t)

\* The safety of sending in one formula, for futures of every kind and signers
\* with several keys: no two transactions collide, no future executes twice,
\* and a nonce error is final.
SendsAreSafe ==
    /\ NoCollision
    /\ AtMostOnce
    /\ NonceErrorIsFinal

\* Every new signature is paid for by something that really overtook the
\* send: a transaction of another future, one of another process, or an
\* expired block hash.  So n concurrent sends never run out of retries on
\* their own when max_nonce_retries >= n - 1 (single-key signers).
RetriesArePaidFor ==
    \A s \in Sends :
        attempt[s] <= Cardinality({t \in executed : t.send # s}) + foreign
                        + Cardinality({t \in expired : t.send = s})

\* The transactions the futures build are an execution of the nonce
\* manager: no step hands out a nonce past it.
UsesNonceManager == NM!Spec

\* Every future that was started returns: both retry loops are bounded.
EverySendReturns ==
    \A s \in Sends : <>(pc[s] \in {"done", "held"})
-----------------------------------------------------------------------------
(* What comments and docs of the repository say and the code does not do.  *)

\* "prefer ak_nonce from a prior InvalidNonce error (more recent than the
\* view_access_key result) [...] stale values are harmless": the nonce signed
\* in an attempt is above the access-key nonce viewed in that attempt.
SignedAboveView ==
    \A s \in Sends : pc[s] = "sign" => tx[s].nonce > view[s]

\* "Retry loop for transient InvalidTxErrors (nonce conflicts, expired block
\* hash)": a send returns Expired only when its retries are used up.
ExpiredUsesRetries ==
    \A s \in Sends : result[s] = "expired" => attempt[s] = MaxNonceRetries
=============================================================================
