------------------------------ MODULE Delegate -------------------------------
(***************************************************************************)
(* Meta-transactions: TransactionBuilder::delegate signs a DelegateAction  *)
(* for a user, its payload travels to relayers, and a relayer wraps one or *)
(* two payloads into a transaction of its own with signed_delegate_action. *)
(* A payload is known by the future that made it, or is a stranger's, made *)
(* by another library.  It can be relayed any number of times, by anybody. *)
(* delegate() does not use the nonce manager: it takes the access key's    *)
(* nonce of an optimistic view, plus one.                                  *)
(*                                                                         *)
(* The chain is external: it executes a delegate action when the           *)
(* transaction's receiver is its sender, its nonce is above the key's and  *)
(* its max_block_height is not passed, all actions of a transaction or     *)
(* none, and stores the nonce.                                             *)
(***************************************************************************)
EXTENDS Actions, FiniteSetsExt

CONSTANTS
    Futures,          \* calls of delegate()
    Strangers,        \* payloads of other libraries
    StrangerAsked,    \* StrangerAsked[x]: actions of a stranger's payload
    Senders,          \* accounts
    SenderOf,         \* SenderOf[d]: account of the signer, or NoSigner
    NoSigner,
    KeysOf,           \* KeysOf[a]: keys of a's signer, in rotation order
    Asked,            \* Asked[d]: the actions in the builder
    NonceOption,      \* DelegateOptions::nonce, or None
    HeightOption,     \* DelegateOptions::max_block_height, or None
    Offset,           \* block_height_offset, or its default 200
    OverflowChecks,   \* BOOLEAN: + panics on overflow, as in a debug build, or wraps
    U64,              \* number of values of a nonce and of a height; 2^64
    MaxHeight,        \* bound: blocks produced
    MaxOther,         \* bound: other transactions of the users' keys
    MaxRelays         \* bound: transactions relayers submit

None == U64           \* an Option that is None

Keys == UNION {{KeysOf[a][i] : i \in DOMAIN KeysOf[a]} : a \in Senders}
Payloads == Futures \cup Strangers
U64s == 0 .. U64 - 1

ASSUME NamesAssumption ==
    /\ Futures \cap Strangers = {}
    /\ NoSigner \notin Senders \cup Keys
    /\ SenderOf \in [Payloads -> Senders \cup {NoSigner}]
    /\ \A x \in Strangers : SenderOf[x] \in Senders
    /\ KeysOf \in [Senders -> Seq(Keys)]
    /\ \A a \in Senders : Len(KeysOf[a]) > 0
    /\ Asked \in [Futures -> Seq([kind : Kinds, arg : Nat])]
    /\ StrangerAsked \in [Strangers -> Seq([kind : Kinds, arg : Nat])]
ASSUME NumbersAssumption ==
    /\ OverflowChecks \in BOOLEAN
    /\ U64 \in Nat \ {0}
    /\ NonceOption \in [Futures -> 0 .. U64]
    /\ HeightOption \in [Futures -> 0 .. U64]
    /\ Offset \in [Futures -> U64s]
    /\ MaxHeight \in U64s /\ MaxOther \in Nat /\ MaxRelays \in Nat

VARIABLES
    pc, key, nonce, max_block_height, actions, result, \* one future
    counter,          \* RotatingSigner::counter
    wire,             \* payloads a relayer may have
    relayed,          \* transactions of relayers not applied yet
    submitted,        \* number of transactions submitted by relayers
    head, final,      \* nonce of each key, in the latest and the final block
    height, other,
    applied,          \* applied[p]: how often p was executed
    seen,             \* history: the height the future was told
    taken             \* history: nonces of its key used since the future's view

futureVars == <<pc, key, nonce, max_block_height, actions, result, counter, seen>>
chainVars == <<head, final, height, other, applied>>
vars == <<futureVars, wire, relayed, submitted, chainVars, taken>>

(* enum Error, as far as delegate() returns it. *)
Results == {"pending", "ok", "empty", "nested", "no_signer", "failed", "panicked"}

TypeOK ==
    /\ pc \in [Futures -> {"start", "view", "status", "sign", "done"}]
    /\ key \in [Futures -> Keys \cup {NoSigner}]
    /\ nonce \in [Payloads -> 0 .. U64]
    /\ max_block_height \in [Payloads -> 0 .. U64]
    /\ actions \in [Payloads -> Seq([kind : Kinds, arg : Nat])]
    /\ result \in [Futures -> Results]
    /\ counter \in [Senders -> Nat]
    /\ wire \subseteq Payloads
    /\ \A t \in relayed : t.receiver \in Senders /\ t.delegates \in Seq(Payloads)
    /\ submitted \in 0 .. MaxRelays
    /\ head \in [Keys -> Nat] /\ final \in [Keys -> Nat]
    /\ height \in 0 .. MaxHeight /\ other \in 0 .. MaxOther
    /\ applied \in [Payloads -> Nat]
    /\ seen \in [Futures -> 0 .. U64]
    /\ taken \in [Futures -> SUBSET Nat]
    /\ \A d \in Futures : result[d] = "ok" => pc[d] = "done" /\ nonce[d] # None /\ key[d] \in Keys

Init ==
    /\ pc = [d \in Futures |-> "start"]
    /\ key = [d \in Futures |-> NoSigner]
    /\ nonce = [p \in Payloads |-> IF p \in Strangers THEN 1 ELSE None]
    /\ max_block_height = [p \in Payloads |-> IF p \in Strangers THEN MaxHeight ELSE None]
    /\ actions = [p \in Payloads |-> IF p \in Strangers THEN StrangerAsked[p] ELSE <<>>]
    /\ result = [d \in Futures |-> "pending"]
    /\ counter = [a \in Senders |-> 0]
    /\ wire = Strangers
    /\ relayed = {} /\ submitted = 0
    /\ head = [k \in Keys |-> 0] /\ final = head
    /\ height = 0 /\ other = 0
    /\ applied = [p \in Payloads |-> 0]
    /\ seen = [d \in Futures |-> None]
    /\ taken = [d \in Futures |-> {}]
-----------------------------------------------------------------------------
(* TransactionBuilder::delegate. *)

Return(d, r) ==
    /\ pc' = [pc EXCEPT ![d] = "done"]
    /\ result' = [result EXCEPT ![d] = r]

\* Variant: an explicit limit is taken for an explicit nonce too.
NextAwait_height(n, h) ==
    CASE h # None -> "sign"
      [] n = None /\ h = None -> "view"
      [] OTHER -> "status"

\* The first await the options leave to be made.
NextAwait(n, h) ==
    CASE n = None -> "view"
      [] n # None /\ h = None -> "status"
      [] OTHER -> "sign"

Refused(d) ==
    CASE Asked[d] = <<>> -> "empty"
      [] \E i \in DOMAIN Asked[d] : is_delegate(Asked[d][i]) -> "nested"
      [] OTHER -> "no_signer"

\* Variant: every call reads the same counter.
ClaimKey_uncounted(d) ==
    /\ LET keys == KeysOf[SenderOf[d]]
       IN  key' = [key EXCEPT ![d] = keys[(counter[SenderOf[d]] % Len(keys)) + 1]]
    /\ UNCHANGED counter

\* RotatingSigner::key: the next key in rotation.
ClaimKey(d) ==
    /\ LET keys == KeysOf[SenderOf[d]]
       IN  key' = [key EXCEPT ![d] = keys[(counter[SenderOf[d]] % Len(keys)) + 1]]
    /\ counter' = [counter EXCEPT ![SenderOf[d]] = @ + 1]

\* The checks, and signer.key() before the first await.
Start(d) ==
    /\ pc[d] = "start"
    /\ \/ /\ \/ Asked[d] = <<>>
             \/ \E i \in DOMAIN Asked[d] : is_delegate(Asked[d][i])
             \/ SenderOf[d] = NoSigner
          /\ Return(d, Refused(d))
          /\ UNCHANGED <<key, nonce, max_block_height, counter>>
       \/ /\ Asked[d] # <<>> /\ \A i \in DOMAIN Asked[d] : ~is_delegate(Asked[d][i])
          /\ SenderOf[d] # NoSigner
          /\ ClaimKey(d)
          /\ nonce' = [nonce EXCEPT ![d] = NonceOption[d]]
          /\ max_block_height' = [max_block_height EXCEPT ![d] = HeightOption[d]]
          /\ pc' = [pc EXCEPT ![d] = NextAwait(NonceOption[d], HeightOption[d])]
          /\ UNCHANGED result
    /\ UNCHANGED <<actions, seen, wire, relayed, submitted, chainVars, taken>>

\* x + y of u64s, which panics or wraps around when it overflows.
Overflows(x, y) == OverflowChecks /\ x + y >= U64
Plus(x, y) == (x + y) % U64

Viewed(d, n) ==
    /\ pc[d] = "view" /\ ~Overflows(n, 1)
    /\ nonce' = [nonce EXCEPT ![d] = Plus(n, 1)]
    /\ pc' = [pc EXCEPT ![d] = NextAwait(Plus(n, 1), max_block_height[d])]
    /\ taken' = [taken EXCEPT ![d] = {}]
    /\ UNCHANGED <<key, max_block_height, actions, result, counter, seen, wire, relayed, submitted, chainVars>>

\* Variant: the view is made at final finality, as for ordinary transactions.
ViewAccessKey_final(d) == Viewed(d, final[key[d]])

\* view_access_key at Finality::Optimistic, then access_key.nonce + 1.
ViewAccessKey(d) == Viewed(d, head[key[d]])

Limited(d, limit) ==
    /\ pc[d] = "status"
    /\ seen' = [seen EXCEPT ![d] = height]
    /\ max_block_height' = [max_block_height EXCEPT ![d] = limit]
    /\ pc' = [pc EXCEPT ![d] = "sign"]
    /\ UNCHANGED <<key, nonce, actions, result, counter, wire, relayed, submitted, chainVars, taken>>

\* rpc.status(), then latest_block_height + offset.
Status(d) == ~Overflows(height, Offset[d]) /\ Limited(d, Plus(height, Offset[d]))

AdditionPanics(d) ==
    /\ \/ pc[d] = "view" /\ Overflows(head[key[d]], 1)
       \/ pc[d] = "status" /\ Overflows(height, Offset[d])
    /\ Return(d, "panicked")
    /\ UNCHANGED <<key, nonce, max_block_height, actions, counter, seen, wire, relayed, submitted, chainVars, taken>>

\* The actions are converted, signed and encoded for the relayer.
Sign(d) ==
    /\ pc[d] = "sign"
    /\ actions' = [actions EXCEPT ![d] = NonDelegateActions(Asked[d])]
    /\ wire' = wire \cup {d}
    /\ Return(d, "ok")
    /\ UNCHANGED <<key, nonce, max_block_height, counter, seen, relayed, submitted, chainVars, taken>>

\* A request or the signer fails, or the caller drops the future.
Fails(d) ==
    /\ pc[d] \in {"view", "status", "sign"}
    /\ Return(d, "failed")
    /\ UNCHANGED <<key, nonce, max_block_height, actions, counter, seen, wire, relayed, submitted, chainVars, taken>>
-----------------------------------------------------------------------------
(* The relayer. *)

\* SignedDelegateAction::from_base64.
Decodes(p) == \A i \in DOMAIN actions[p] : NonDelegateReads(actions[p][i])

\* signed_delegate_action, once per payload: the last one names the receiver.
receiver_id(begun, batch) == SenderOf[batch[Len(batch)]]

Batches == {<<p>> : p \in wire} \cup {<<p, q>> : p, q \in wire}

\* near.transaction(begun), the payloads, send().
Relay(begun, batch) ==
    /\ submitted < MaxRelays
    /\ \A i \in DOMAIN batch : Decodes(batch[i])
    /\ relayed' = relayed \cup {[id |-> submitted, receiver |-> receiver_id(begun, batch), delegates |-> batch]}
    /\ submitted' = submitted + 1
    /\ UNCHANGED <<futureVars, wire, chainVars, taken>>
-----------------------------------------------------------------------------
(* The chain. *)

KeyOf(p) == IF p \in Futures THEN key[p] ELSE KeysOf[SenderOf[p]][1]

Valid(t, p) == t.receiver = SenderOf[p] /\ nonce[p] > head[KeyOf(p)] /\ height <= max_block_height[p]

NoncesOf(t, k) == {nonce[t.delegates[i]] : i \in {j \in DOMAIN t.delegates : KeyOf(t.delegates[j]) = k}}

Executable(t) ==
    /\ \A i \in DOMAIN t.delegates : Valid(t, t.delegates[i])
    /\ \A i, j \in DOMAIN t.delegates :
          i < j /\ KeyOf(t.delegates[i]) = KeyOf(t.delegates[j]) => nonce[t.delegates[i]] < nonce[t.delegates[j]]

\* The delegate actions of a transaction are executed, or none is.
Apply(t) ==
    /\ relayed' = relayed \ {t}
    /\ \/ /\ Executable(t)
          /\ head' = [k \in Keys |-> Max({head[k]} \cup NoncesOf(t, k))]
          /\ taken' = [d \in Futures |-> taken[d] \cup NoncesOf(t, key[d])]
          /\ applied' = [p \in Payloads |->
                applied[p] + Cardinality({i \in DOMAIN t.delegates : t.delegates[i] = p})]
       \/ ~Executable(t) /\ UNCHANGED <<head, applied, taken>>
    /\ UNCHANGED <<futureVars, wire, submitted, final, height, other>>

\* A transaction of this key that is not a delegate action.
OtherTx(k) ==
    /\ other < MaxOther /\ head[k] + 1 < U64
    /\ head' = [head EXCEPT ![k] = @ + 1]
    /\ taken' = [d \in Futures |-> IF key[d] = k THEN taken[d] \cup {head'[k]} ELSE taken[d]]
    /\ other' = other + 1
    /\ UNCHANGED <<futureVars, wire, relayed, submitted, final, height, applied>>

NewBlock ==
    /\ height < MaxHeight
    /\ height' = height + 1
    /\ UNCHANGED <<futureVars, wire, relayed, submitted, head, final, other, applied, taken>>

Finalize ==
    /\ final # head
    /\ final' = head
    /\ UNCHANGED <<futureVars, wire, relayed, submitted, head, height, other, applied, taken>>
-----------------------------------------------------------------------------
DelegateStep(d) ==
    \/ Start(d) \/ ViewAccessKey(d) \/ Status(d) \/ AdditionPanics(d) \/ Sign(d) \/ Fails(d)

Chain == (\E t \in relayed : Apply(t)) \/ (\E k \in Keys : OtherTx(k)) \/ NewBlock \/ Finalize

Next ==
    \/ \E d \in Futures : DelegateStep(d)
    \/ \E begun \in Senders, batch \in Batches : Relay(begun, batch)
    \/ Chain

Spec == Init /\ [][Next]_vars
-----------------------------------------------------------------------------
(* Properties. *)

Signed == {d \in Futures : result[d] = "ok"}

\* delegate() reads a nonce without reserving it, so two of its payloads may
\* carry the same nonce and only one of them can then be executed.  It happens
\* to overlapping calls only: when a payload with a fetched nonce gives way to
\* one executed with that nonce or a later one, that was executed after its
\* view, never before.  And a rotating signer keeps as many overlapping calls
\* apart as it has keys: two of its calls get the same nonce of the same key
\* only when its rotation has come round.
SharedOnlyInOverlap ==
    \A d \in Signed :
        NonceOption[d] = None =>
            /\ \A p \in Payloads :
                  applied[p] > 0 /\ KeyOf(p) = key[d] /\ nonce[p] >= nonce[d] => nonce[p] \in taken[d]
            /\ \A e \in Signed \ {d} :
                  /\ SenderOf[e] = SenderOf[d] /\ IsInjective(KeysOf[SenderOf[d]])
                  /\ key[e] = key[d] /\ nonce[e] = nonce[d]
                  => counter[SenderOf[d]] > Len(KeysOf[SenderOf[d]])

\* A payload whose nonce was fetched can be executed until somebody else
\* uses a nonce of its key: delegate() never hands out one already used.
UsableUntilOvertaken ==
    \A d \in Signed :
        NonceOption[d] = None /\ taken[d] = {} => nonce[d] > head[key[d]]

\* What can be executed is what the user asked for: no action of the
\* builder is lost on the way, and none is a delegate action.
CarriesWhatWasAsked == \A d \in Signed : actions[d] = Asked[d]

\* No relayer submits a payload with a delegate action inside, whoever
\* encoded it.
NeverNested ==
    \A t \in relayed : \A i \in DOMAIN t.delegates :
        \A j \in DOMAIN actions[t.delegates[i]] : ~is_delegate(actions[t.delegates[i]][j])

\* A transaction with the delegate actions of one user is addressed to that
\* user, whatever receiver the relayer began it with.
AddressedToSender ==
    \A t \in relayed :
        (\E a \in Senders : \A i \in DOMAIN t.delegates : SenderOf[t.delegates[i]] = a)
            => \A i \in DOMAIN t.delegates : t.receiver = SenderOf[t.delegates[i]]

\* A payload that got its limit from the chain's height has not expired at
\* that height, for every offset a caller may choose: with overflow checks.
NotBornExpired ==
    OverflowChecks => \A d \in Signed : HeightOption[d] = None => max_block_height[d] >= seen[d]

\* A payload and the transaction that relays it are what the user asked for:
\* all its actions, none of them a delegate action, addressed to the user, not
\* expired when it is made.
PayloadsAsAsked ==
    /\ CarriesWhatWasAsked
    /\ NeverNested
    /\ AddressedToSender
    /\ NotBornExpired
=============================================================================
