# near-kit in TLA+

near-kit is a Rust client for NEAR: it signs transactions and sends them through
JSON-RPC nodes. The crate keeps little state, but the state it keeps is shared by
every future of the process, is read before an `await` and used after it, and
travels over an unreliable network to a chain that moves on its own. This
directory models those parts, checks them with TLC and proves the main results
with TLAPS. Paths below are relative to `src/crates/near-kit/src/`.

## The system

| Component | State it keeps | Operations | Interacts with |
|---|---|---|---|
| Nonce manager, `client/nonce_manager.rs` | one process-wide mutex-guarded map from (url, account, public key) to the last nonce handed out | `next` | every `send`, `sign` and `build` future |
| Transaction sending, `client/transaction.rs` | per future: attempt number, claimed key, viewed nonce, `last_ak_nonce`, signed transaction | `build`, `sign`, `send`, `SignedTransactionSend`, `delegate` | signer, nonce manager, RPC client |
| Rotating signer, `client/signer.rs` | an atomic counter over a list of keys | `key`, `public_key` | transaction futures |
| RPC call loop, `client/rpc.rs`, `error.rs`, `types/error.rs` | per call: attempt number, delay | `call`, `try_call`, `parse_rpc_error`, `is_retryable` | transport; every method |
| Paginated readers, `client/rpc.rs` | per call: the pages so far, the cursor, the pinned block | `view_access_key_list`, `view_state_all` and their page methods | RPC call loop, a moving chain |
| Wait levels, `types/wait_level.rs` | none | `convert` per level | `send` |
| Meta-transactions, `client/transaction.rs`, `types/action.rs` | per future: key, nonce, height limit; payloads on the wire | `delegate`, `signed_delegate_action`, `to_base64`, `from_base64` | signer, RPC client, relayers |
| Token clients, `tokens/` | `OnceCell` caches of metadata and storage bounds | cached views, calls, amounts | query and transaction builders |
| Sandbox, `sandbox.rs` | one shared `OnceCell<Sandbox>`, a container | `shared`, `fresh`, `set_balance`, `fast_forward` | Docker, RPC client |
| Client, builders and queries, `client/near.rs`, `client/query.rs`, `contract.rs` | configuration; the actions and the open call of a chain | construct the futures above | all |
| Signers, `client/signer.rs`, `client/keyring_signer.rs` | keys; the rotation counter | constructors, `key`, `public_key` | client, transaction futures |
| RPC transport, `client/transport.rs` | none | `post_json`: reqwest, or wasi:http with its own URL splitting | RPC call loop |
| NEP-413, keys, HD paths, units, RPC views, `types/` | none | encode, decode, sign, verify, parse, format | all |
| Contract macros, `near-kit-macros` | none | code generation | client |
| Tracing, `trace.rs` | none | logging | all |

What is hard here:

* Concurrent sends of one key view the same access-key nonce at *final* finality,
  already behind, and must still not sign the same nonce.
* Two retry loops are nested. The RPC loop repeats the same signed bytes; the
  transaction loop signs again with another nonce. An answer can be lost after
  the node accepted the transaction, and copies can execute late.
* Transactions signed in nonce order reach the chain in another order.
* The same error reaches the client in several shapes, through two layers
  (pre-check and runtime), under HTTP statuses that providers choose.
* A listing is collected over several requests while the reference it was asked
  at moves.
* Counters have a width: nonces (`u64`), attempts (`u32`), delays (`u64`), amounts
  (`u128`).
* A delegate action takes its nonce past the nonce manager, and its payload can be
  relayed late, twice, in a batch, or next to one another program made.
* `set_balance` writes back a record it read earlier, through a node that applies
  patches late and can lose one.
* Builders are moved through long chains of calls, with a call under construction
  kept aside; formats are taken apart by hand; errors nodes will send in a later
  release have to be read by this one.

Each of these is an entry of `hazards` in `PROJECT.json`, at the line where it bites.

## Modules

| Module | What it is |
|---|---|
| `NonceAllocator` | abstract specification: an allocator that hands out, per slot, ever larger nonces, until it fails as a whole |
| `NonceManager` | `NonceManager::next`, with overflow and mutex poisoning |
| `TransactionSend` | all futures of a process, the signers, the nonce manager (an instance of `NonceManager`'s operators) and the chain |
| `TransactionSendProofs` | its theorems |
| `RpcErrors` | the classification of one answer: `try_call`, `parse_rpc_error`, contract-error shapes, `is_retryable`, as operators |
| `RpcCall`, `RpcCallProofs` | the retry loop of `RpcClient::call` over those operators, and their theorems |
| `Pagination`, `PaginationProofs` | the paginated readers, and their theorems |
| `OnceCells`, `OnceCellsProofs` | the values filled in on first use by concurrent callers, and their theorems |
| `Actions` | the action kinds with their wire discriminants, and which are delegate actions |
| `Delegate`, `DelegateProofs` | `delegate()` as concurrent futures, relayers, and the chain's rules for delegate actions, and their theorems |
| `Sandbox`, `SandboxProofs` | `set_balance` and `fast_forward` against a node that applies patches later, and their theorems |
| `Inputs` | the one variable, `input`, of the modules below, and `Result` |
| `TransactionBuilder` | chains of builder methods, from the shortcuts of `Near` and the token clients to `send`, `sign`, `build`, `delegate` and the offline forms |
| `Client` | clients from builder calls and environment, derived clients, the loading of signers, known tokens, `SandboxBuilder` |
| `Queries` | block references, existence queries, errors completed by the methods, view calls, the order of statuses |
| `Signing` | what is signed for transactions and delegate actions of both versions and for NEP-413 messages; reading back, verifying |
| `Keys` | keys, handles and signatures as text and borsh, seed phrases, derivation paths |
| `Amounts` | token amounts with their decimals, NEAR and gas with their units |
| `Views` | account balances, execution errors with unknown variants, outcomes per wait level, action views |
| `WasiTransport` | URL splitting, credentials and the exchange over wasi:http |
| `ContractMacro` | `#[near_kit::contract]`: the requests the generated methods make |
| `Values` | the sequential modules side by side, for one run and for the proofs |
| `NumberProofs` | the theorems of `NonceManager`, and the lemmas about amounts |
| `ValuesProofs` | the theorems of the sequential modules |
| `MC...` | the values of constants that a configuration file cannot write |

`TransactionSend` composes: it takes `NextNonce`, `Refreshed` and `Panics` from
`NonceManager`, and `UsesNonceManager` says that what its futures do to the shared
map is a behaviour of `NonceManager` (and so, by the refinement, of the abstract
allocator). The retries of `RpcCall` appear in it as repeated submission of the
same bytes, and a whole RPC call is one step of `Pagination` and of `Sandbox`.
`Queries` builds on the classification of `RpcErrors`. `Delegate`,
`TransactionBuilder` and `Views` share `Actions`. `Values` composes the
modules over `Inputs`: one run checks them, and one module proves about them.

Definitions named `X_something` next to a definition `X` are deliberately wrong
versions of it. They are used only to confirm that a property notices them.

### NonceManager

`nonces[slot]` is the map, `poisoned` the mutex flag, `granted` a history of the
values returned. A call holds the mutex from start to end, so it is one step:
`next` when it returns, `nextPanics` when `+= 1` overflows. `OverflowChecks`
chooses between a build that panics on overflow and one that wraps. The nonce
passed in by the caller is any value: it comes from views of any age.

### TransactionSend

A future walks `start, claim, view, nonce, sign, (held,) wait, done`:

| Action | Code |
|---|---|
| `Start` | the early returns of `into_future` (no actions, no signer) |
| `ClaimKey` | `signer.key()`, a `fetch_add`; `build` only peeks with `public_key()` |
| `ViewAccessKey` | `view_access_key` at final finality, or its error |
| `TakeNonce`, `TakeNoncePanics` | `nonce_manager().next(..)` with `last_ak_nonce.take().unwrap_or(access_key.nonce)` |
| `Sign` | signing; `send` goes on to `send_tx`, `sign` returns the transaction |
| `SendSigned` | `SignedTransactionSend`: one submission of a held transaction, any time later or never |
| `OnAccepted` | a response without error, after `W::convert` |
| `OnInvalidNonce`, `OnExpired` | the two arms that sign again, with their guards |
| `OnRuntimeInvalidNonce` | the same error from the runtime, inside a successful response |
| `OnCongested` | `ShardCongested`/`ShardStuck`: rejected, repeated by the RPC loop |
| `OnTransient` | no answer about the transaction; repeated by the RPC loop |
| `OnFatal` | any other error |
| `DropFuture` | the caller drops the future at an await |

The chain (`Execute`, `Expire`, `Foreign`, `Finalize`) is external. Assumptions,
all taken from how the client uses nodes: a node never executes a transaction at
or below the access key's nonce, or one whose block hash expired; it executes a
transaction at most once; it does not answer `InvalidNonce` or `Expired` for a
transaction that was executed; chain nonces only grow. A request that was sent
and not rejected may be executed at any later time, or never.

### RpcErrors and RpcCall

An answer is a transport failure, or a status with a body: not JSON, a result, or
an error with a cause, `info` present or not, an `InvalidTxError`, and a contract
failure that may be in `info.vm_error`, in `info.error` and in `data`, structured
or as text. Wording is left out except where the code parses it, and then it is
the kind of thing that was recognised. `RpcCall` draws any answer at each attempt.

### Pagination

`req` is the request about to be sent, `values[k]` counts how often key `k` is in
the collected list, `at` is the block of the first page. The node resolves a
moving reference to any block it knows at the time of the request and may cut a
page anywhere after its first entry, which stands for the byte limit of a page.

### OnceCells

`cell[c]` is a `tokio::sync::OnceCell`: the metadata or the storage bounds of one
token client (a clone is another client, with empty cells), or `SHARED_SANDBOX`.
A task walks `idle, enter, init, view, done`: it enters a method, takes the value
or the permit of the cell, runs the initialiser (`FetchOk`, `StartOk`,
`InitFails`), and in `balance_of` and `total_supply` makes a second view call
before it builds the `FtAmount`. The cell itself is external, modelled from its
contract: one permit, a value closes it, a failed or dropped initialiser gives
the permit back. An initialiser may bring an older version than the one the
contract serves by now. `StartOk` is `Sandbox::start` with the registration of the
exit handler, which has no await between it and the value; the run of that handler at process
exit and the containers' own life are not modelled.

### Delegate

A future walks `start, view, status, sign, done` (`Start`, `ViewAccessKey`,
`Status` or `AdditionPanics`, `Sign`, and `Fails` for errors and dropped futures);
given options skip the request they make unnecessary. `wire` holds the payloads a
relayer may have, `Strangers` are payloads of other programs, which can hold
anything that decodes. `Relay` is a relayer's transaction with one or two payloads
(`signed_delegate_action` names the receiver each time). The chain is external: it
executes all delegate actions of a transaction or none, each only for its sender as
receiver, above the key's nonce and up to its height; `OtherTx` stands for ordinary
transactions of the same keys.

### Sandbox

A record is an amount and, for every other field, how many transactions changed
them. A call walks `fetch, patch, patch_again, poll, done`. `head` is the latest
block, `final` the one a poll reads, `queue` the patches accepted and not applied.
The RPC loop may deliver a request more than once or give up after delivering it;
the node may lose a patch. `touched` and `unsettled` mark the calls that others
interfered with, since the code makes no promise to those.

### The sequential modules

Builders, configuration, encodings, parsers and code generation have no
concurrency: what is hard in them is the combination of inputs. Each is a set of
operators named after the functions of the code; the action of its exercise
section picks any input of a bounded set, or extends a chain by one call, and the
properties relate what the operators make of it: what is written reads back, two
paths to the same thing agree, nothing is accepted that later fails.
Cryptography is ideal (a signature verifies under its own key and message and
under no other; hashes are injective), base58 and base64 are whether a text
decodes. In `Amounts`, `u128` and the powers of ten are scaled together
(`Modulus`), with debug and release arithmetic (`build`). Texts are digits, plus
signs, other characters and points in `Amounts` (ASCII only), tokens in HD paths and bytes in URLs.

In `Signing` a message reaches the server as JSON: `to_json` writes the bytes of the
signature without their type, and `from_json` reads 64 bytes as an Ed25519
signature and refuses everything else, before `verify_signature` sees it.

## Runs

| Run | Instance | Shows |
|---|---|---|
| `nonce_manager` | 2 slots, nonces below 6 | `CacheDominates`: no nonce handed out is above its entry, even after a panic. `ImplementsAllocator`: refinement of `NonceAllocator` |
| `send_shared_key` | 2 sends, 1 key, 2 nonce retries, 1 RPC retry, 1 foreign transaction, 1 expiry, interchangeable sends | `NoCollision`, `AtMostOnce`, `NonceErrorIsFinal`, `RetriesArePaidFor`, `UsesNonceManager` |
| `send_mixed` | 5 futures of all kinds (one without actions, one without signer), 2 rotating keys, nonces below 4, an early wait level | `SendsAreSafe`, the first three in one, with the overflow reached and the mutex poisoned for everybody |
| `send_returns` | 2 sends, 2 keys, all bounds 1, fair | `EverySendReturns` |
| `pagination` | 3 keys, 2 blocks with any content, 2 prefixes, page sizes 0 to 2, node cap 2, fair | `SnapshotExact`, `NeverTooLarge`, `ListingEnds` |
| `once_cells` | 3 tasks, a client and its clone, the shared sandbox, 1 upgrade, `U128` = 4, fair | `OneInitializer`, `WriteOnce`, `AmountsAddUp`, `CleanupMatches`, `CallsReturn` |
| `rpc_call` | every answer at each of 4 attempts, delays 5, 10, 15 | `NeverRepeatsDecided`, `TransientUsesAttempts`, `ShapeIndependent`, `DelaysGrow` |
| `delegate` | 4 futures over 2 rotating keys (given and fetched nonces and heights, one nested, without signer), 1 payload of another program, nonces below 6, 1 new block, 1 other transaction, 2 relayed transactions | `SharedOnlyInOverlap`, `UsableUntilOvertaken`, `PayloadsAsAsked` |
| `set_balance` | 2 calls on 2 accounts, on one to the same balance and on one to two balances, 2 polls, requests delivered up to twice, 1 other transaction, 1 lost patch, fair | `OnlyTheBalance`, `SecondSendSuffices`, `ReadsItsBalance`, `CallsReturn` |
| `values` | some million inputs of the sequential modules | one property per module: `BuildsWhatWasWritten`, `ConfiguredAsAsked`, `AnswersTheQuestion`, `SignedForOneUse`, `KeysKeepTheirIdentity`, `AmountsAreExact`, `ViewsAreHonest`, `ExchangesAreWhole`, `GeneratedAsDeclared`, each the conjunction of named parts |
| `finding_...` | the smallest instance with the effect | see Findings |

Why the bounds are enough to be interesting. Two sends suffice for every pairwise
race on the nonce map and on the chain; the foreign transaction makes one of them
lose twice, the expiry adds the second reason to sign again, and one RPC retry is
what it takes to have two copies of the same bytes alive. In `send_mixed` the
small `U64` puts the overflow within reach of a fresh access key (`ChainNonce0`
contains `U64 - 2`). In `pagination` three keys under a cap of two force a second
page, and a third when the first is cut short; two blocks are what a moving
reference needs. In `once_cells` one task initialises, one waits and takes over when
the first fails or is dropped, and a third comes late, with the upgrade between any two of
them; the small `U128` lets sums overflow. In `rpc_call` the third delay is the first one capped.
In `delegate` two rotations of two keys bring two futures to one key, with a given
nonce that meets a fetched one; two relayed transactions are a payload sent twice
or a batch that is overtaken; one new block passes the limit of a payload and
lets an offset overflow. In `set_balance` two calls are a
conflict on one account, and one loss is what the second send is for. In `values`
chains have three calls, which is a call begun, set and followed by another action;
URLs have up to five bytes behind the scheme, enough for credentials, host,
query and fragment at once; account ids have the lengths at which the first two
bytes of a transaction could be taken for a tag; errors are nested to the full depth
of the code's enums. The theorems below remove the bounds where they apply.

The runs check the type invariants of `RpcCall`, `Delegate` and `Sandbox`; those of
the other concurrent modules are proved only.

`RetriesArePaidFor` is the quantitative one: every signature after the first is
matched by a transaction of another future, one of another process, or an expired
block hash. So `n` concurrent sends on one key never exhaust
`max_nonce_retries >= n - 1` among themselves. It is stated for single-key
signers: see the rotation finding. `RetriesHaveACause` proves it without the bounds.

Deadlock is checked except in `nonce_manager`, where a poisoned mutex stops the
system for good, and in `rpc_call`, `delegate` and `values`, which end.

`UsableUntilOvertaken` is the promise that is left to `delegate()` without the nonce
manager: two payloads may carry the same nonce, and then only one can be executed,
but none is unusable from the start. `SharedOnlyInOverlap` says when they do: a fetched nonce gives
way only to what was executed after its view, and a rotating signer whose keys are distinct
keeps as many calls apart as it has keys. That a payload executes once is the chain's rule, not this
code's, and is no property here. `ReadsItsBalance` and
`OnlyTheBalance` say the same for `set_balance`: exactly which interference
takes its promise away.

### Fairness

`EverySendReturns` assumes `WF_vars(Progress(s))` for each future: the executor
polls a future that can go on, and the exchange a future waits for completes.
The second half is an assumption about the environment: `RpcTransport::post_json`
ends with an answer or an error. The built-in transport sets no request timeout
of its own, so a node that accepts a connection and never answers is outside it.
Nothing is assumed of the chain (transactions may never execute), of other
processes, of the callers holding signed transactions, or about which answer
arrives. `ListingEnds` assumes the same of the one reader,
and `CallsReturn` of `once_cells` of each task that has entered a method: tasks may never call,
and the contract may never be upgraded. `CallsReturn` of `set_balance` assumes it of
each call, and nothing of the node: blocks may never come, and then the polls run out.

## Proofs

For all values of the constants allowed by the named `ASSUME`s:

* `NumberProofs`: `TypeCorrect` for any callers and slots and in any build; `CacheIsDominant` and
  `ManagerImplementsAllocator` for builds with overflow checks. `CacheDominates` is
  inductive together with the type invariant, and it is exactly what makes the next nonce
  larger than all earlier ones. Without overflow checks the map wraps and neither holds,
  hence the hypothesis.
* `TransactionSendProofs`:
  * `TypeCorrect`. The type invariant alone is not inductive; `Control` adds which
    fields a future has filled in at each point (a claimed key from `view` on, a
    viewed nonce at `nonce`, a built transaction from `sign` on).
  * `ExecutedAtMostOnce` and `NonceErrorsAreFinal`, from `TxInv`: a future's latest
    transaction is dead whenever the future is about to build another one, and
    every transaction that is not its future's latest is dead. The argument has
    two halves: death is permanent (`DeadStable`: chain nonces grow, expiry stays)
    and every arm that signs again was entered by an answer that implies death
    (`RejectionIsFinal`). A lost answer does not imply it, which is why that arm
    must repeat the same bytes instead.
  * `SendingIsSafe` puts these two and the next one together as `SendsAreSafe`.
  * `NoncesNeverCollide`, from `NonceInv`: the map's entry dominates every nonce
    built for its slot, and a slot's nonces are distinct. Slots contain the url,
    keys of the chain do not: the theorem has the hypothesis that all futures use
    one url.
  * `SendsUseNonceManager`: every step of a future or of the chain is a step or a
    stutter of `NonceManager` (a safety refinement).
  * `RetriesHaveACause`, for any urls and any number of futures, under `OneKeyEach`
    (a signer has one key; the rotation finding shows it is needed). Counting rejections against
    events is not inductive: a rejection comes later than its event, and an event
    must not pay twice. `PaidInv` therefore keeps a balance: the events so far
    (other transactions executed on the key, expiries of this future's transactions)
    are at least the rejections, one more while the
    current transaction is dead or the nonce about to be taken may already be
    overtaken (`Behind`), and two more when it is both expired and overtaken. A
    rejection spends one, and needs a dead transaction to do so. Cardinalities come
    from `FiniteSetTheorems`, with `FiniteInv` for the sets that grow.
* `PaginationProofs`: `TypeCorrect`, `ListingsAreSnapshots`,
  `ListingsPassTheSizeGate`. The invariant says that before a further page the
  request is pinned to the first page's block and the list holds each selected key up
  to the cursor exactly once; `PageExtends` moves it past one page.
* `OnceCellsProofs`: `TypeCorrect`, `InitializersExclude`, `SandboxStartedOnce`,
  `AmountsOfAClientAddUp`, `CachedForGood`. The invariant adds what the types leave
  open: a task at `init` holds the permit of its cell and that cell is empty; a
  task at `view` has a filled cell; and every amount returned carries the metadata
  its client's cell holds. The last needs `WriteOnce`, and `WriteOnce` the first.

* `RpcCallProofs`: `TypeCorrect`, `DecidedEndsTheCall`, `EarlyReturnIsFinal`,
  `ShapeDoesNotMatter`, `SleepsDouble`, all from `LoopInvariant`. `CallInv` ties the
  loop to the last answer: what is about to be repeated was classified retryable,
  what was returned is the classification of the answer, and a retryable
  error is returned only when the attempts are used up. The lemmas about
  `RpcErrors` then say, for each class of answers, whether it is retryable. The
  first version was not inductive: with `total_attempts` wrapped to 0 the call ends
  without an answer, and the invariant had to say that none exists at `call`.
  `DelayInv` gives the n-th sleep as a function of n. `SleepsDouble` has the
  hypothesis that no product `initial_delay_ms * 2^n` within the retries reaches 2^64:
  beyond it the code wraps (see Findings) and the statement is false.
* `DelegateProofs`: `TypeCorrect`, `NoncesSharedInOverlap`, `UsableWhileKeyIsIdle`
  (builds with overflow checks), `PayloadsAreAsAsked`. `TypeInv` adds what each future
  has filled in, that a payload on the wire is a stranger's or comes from a future that
  returned it, and that a relayed transaction is made of such payloads. `FetchedInv`: a future holds a nonce
  above its key's until somebody takes one. `OvertakenInv` extends it from then on: whatever was executed
  at or above a fetched nonce is among the nonces taken since the view. It needs `Spent`, that an executed
  payload's nonce is at or below its key's, since the view at final height may be older than
  the head, and the fetched nonce must still clear what was executed before (`Fetches`). `RotationInv` is about
  the counter alone: while it has not passed the number of keys, each call that claimed a key holds one of the
  first, and no two the same. `AskedInv`: the builder's actions
  travel unchanged, and the height limit is at or above the height that was seen.
* `SandboxProofs`: `TypeCorrect`, `RestSurvives`, `TwoSendsSuffice`,
  `EarlyReturnIsReliable`. `RestInv`: on an untouched account every patch, queued or
  about to be sent, carries the current rest of the record. `SendsInv`: of the patches a
  call has sent, those not lost are queued or were applied, so that with one loss the
  last one applied was asked for. `PollInv`: for a call alone on its
  account that read it settled, the final record has the balance only after the latest
  one has, so a poll that sees the balance sees the effect of its own patch. Without "the call
  did not fail" it is not inductive: a call that failed on its read wrote nothing, and the
  record may have the balance for other reasons.
  What a queue of patches makes of a record is read off the last patch for the
  account (`Max` of a set of positions), which avoids recursion over the queue.
* `ValuesProofs`, with `NumberProofs` for amounts: one theorem for the property of each
  sequential module, from one inductive invariant. `Typed` says that an input is of the kind its field `of` names,
  for chains, lists and texts of any length; the exercise keeps it, and
  a lemma per module shows that it implies the module's property.
  * `ChainsBuildWhatWasWritten`: what a builder holds after a prefix of a chain is told
    from the calls of that prefix (the last of each setting, the actions in order, the
    call that is still open), and one more call keeps that. `send`, `sign`, `build`,
    `delegate` and the offline forms are then compared on what the whole chain left.
  * `DocumentsSignedForOneUse`: two documents with the same bytes have the same tag, and
    those of one kind the same fields. The assumption on account lengths is
    the protocol's: 2 to 64, so that the length a transaction starts with is never a tag.
    For messages the key is of any type and the signature crosses JSON in any form a
    wallet writes: `SignatureRead` says which are read back, from their lengths.
  * `ClientsConfiguredAsAsked`, `TraitsGeneratedAsDeclared`, `QuestionsAlwaysAnswered`:
    by cases on the input, for any urls, any number of rotating signers, methods and block
    references, and every answer of a node.
  * `KeysAlwaysKeepTheirIdentity`: keys, handles and signatures are read back from
    text and bytes for every message; a path derives segment by segment, and its text tells every segment,
    which needs where each ends.
  * `ExchangesAlwaysWhole`: where a URL ends its authority, its user and its host is the
    position of a first or last separator, for bytes of any length; `percent_decode` undoes
    the encoding of every credential, and a body is read to its length or is an error.
  * `AmountsAlwaysExact`: the number that digits write is a capped recursion, joining
    digits multiplies by a power of ten, and an amount's digits without trailing zeros
    still write it. A leading plus sign counts as a zero (`Signless`). Needs a width of more than 1000 values (`AmountsAssumption`), which 2^128 has.
  * `ViewsAlwaysHonest`: the paths of errors are built from the innermost enum outwards. The
    invariant of that construction (`Sound`) says for each enum what is read of each of its paths: an enum
    with a fallback reads every path, keeps every tag above the innermost enum that
    has one, and below `TxExecutionError` an enum without a fallback is only reached
    through the two tags the property names. At the top it reads every error but those of
    a kind that is not there (`TopRead`), which decides what outcome is given at each wait level. Balances, outcomes and conversions are by cases.

The provers know the equation of a recursive function only once a function that satisfies
it is shown to exist, and the library's induction theorems take an operator as a
parameter, which the provers cannot instantiate. The proof modules with recursion therefore have `LeastNat`, that a non-empty
set of numbers has a least element: existence, uniqueness and every induction over
numbers, chains and texts takes the least counterexample and finds a smaller one (the powers of two in
`RpcCallProofs`, the nesting filter of `Actions` in `DelegateProofs`, all recursions
of the sequential modules).

Only model-checked: liveness (`EverySendReturns`, `ListingEnds`, both
`CallsReturn`), which the prover does not handle. Every safety property of a
passing run is stated by a theorem.

## Findings

Each has a run that shows the code departing from a sentence of the repository.

* `finding_rotation_ak_nonce`: with a rotating signer, `last_ak_nonce` of the
  rejected key becomes the base nonce for the next key.
* `finding_expired_guard`: the `Expired` arm stops one retry early; with one retry
  allowed it never retries.

Met while modelling, without a run of their own:

* `InvalidNonce` reported by the runtime, inside a successful response, is returned
  without a retry (`OnRuntimeInvalidNonce`), unlike the same error of the pre-check.
* After a lost answer the repeated request can be refused as congested and is
  returned as `InvalidTx` ("rejected before execution", `error.rs:738`), while the
  first copy executes (`OnCongested` followed by `Execute`).
* A 408 or 429 with a JSON-RPC body of unknown cause is not retried, though the same
  status with an HTML body is (`preserve_http_retry_classification`).
* Two clients of one network through different RPC urls do not share the cache
  and can sign the same nonce (`client/transaction.rs:1639` keys the cache by url).
  It is the hypothesis of `NoncesNeverCollide`.
* `initial_delay_ms * 2u64.pow(attempt)` is computed before the cap
  (`client/rpc.rs:528`), so with some sixty retries it wraps to 0 in a release
  build. `backoff` models the wrap; the `rpc_call` instance stays below it, and
  `SleepsDouble` has it as its hypothesis.
* `max_retries + 1` (`client/rpc.rs:512`) wraps to 0 for `u32::MAX`: no attempt is
  made and the `unreachable!` is reached. `Enter` models it.
* `set_balance` returns `Ok` when its polls run out or fail; a final record that was
  already overtaken can have the balance by chance and end the polls early; of two
  concurrent calls on one account the last patch wins, with the whole record.
* `args` and `args_borsh` turn a value that does not serialize into empty arguments
  (`Serialized`).
* `near.deploy(..).sign_with(other)` keeps the client's account as receiver.
* `AccountBalance.total` is documented as available plus locked (`types/rpc.rs:118`)
  and is `amount`, the liquid part; `SpendableLeavesStorage` is stated with that meaning.
* An outcome that does not deserialize becomes `None` (`types/rpc.rs:859`): an error of
  a kind `TxExecutionError` has not, or a receipt that failed with something other than an action error.
  It reads as "not executed yet" at the early levels, against `types/rpc.rs:785-786`
  ("`outcome` is `Some` once that data exists"), and is an error at the executed ones. `OutcomeHonest` says
  exactly which outcomes are lost.
* The documentation of the flexible signature reader of NEP-413 (`types/nep413.rs:582-585`) names
  `secp256k1:`, but only Ed25519 signatures are read: messages signed with secp256k1 or
  ML-DSA-65 keys verify in the process that signed them and are refused once they went through JSON.
  `AuthPayloadVerifies` states both halves.
* `u128::from_str` takes a plus sign, and a fraction is parsed as a number of its own: "1.+5" with six
  decimals is read as 1.05 (`tokens/types.rs:423-426`), and so is "1.+5 NEAR" (`types/units.rs:144-160`).
  `ReadsExactly` and `UnitsAgree` state it.
* The public half of a 64-byte Ed25519 secret key is ignored, not compared.
* The path `m//` derives the master key: one slash is stripped at either end.
* More than 24 digits behind the point of a NEAR amount are cut unseen, other
  characters included, and the cut (`types/units.rs:150`) is at a byte: inside a
  multi-byte character it panics.
* Tokens with 39 or more decimals overflow `10u128.pow` (`tokens/types.rs:368`):
  formatting panics in a debug build and shows another number in a release build.
* The contract macro drops an argument bound by a pattern (`_: Args`) without a
  diagnostic.

## Not modelled

* The RPC methods that forward one parameter object and decode one answer
  (`genesis_config`, `maintenance_windows`, `receipt_to_tx` and the like), and the
  token views that do the same.
* The reqwest transport, and reading files, the environment or the OS keyring: input
  and output, with outcomes that are inputs of the models. Containers are Docker's.
* `KeyPair`, `CryptoHash` and the random source: arrays of bytes with accessors.
* The views of blocks, chunks, receipts and validators in `types/rpc.rs`: serde structs without
  code of their own.
* The bytes of encodings beyond what tells two documents apart; cryptography itself.
* Tracing.

## Plan

Done, in this order: the nonce manager and its allocator; sending; RPC errors and
the call loop; the proofs of the first two; pagination and its proofs;
the once-cells and their proofs; delegate actions; `set_balance`; the sequential modules
and their common run; the proofs of the call loop, of delegate actions, of
`set_balance` and of the retry count; the proofs of the sequential modules.

Next:

1. Views inside views to any depth: `TryFrom` stops at one level, because a delegate
   view inside a delegate view is refused whatever it holds, except for which of two errors is returned.
2. The reqwest transport, once it holds more than the call of a library.
