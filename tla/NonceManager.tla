---------------------------- MODULE NonceManager ----------------------------
(***************************************************************************)
(* client/nonce_manager.rs: the process-wide map from a slot (network url, *)
(* account, public key) to the last nonce handed out for it.  `next` runs  *)
(* with the map's mutex held, so one call is one step.                     *)
(***************************************************************************)
EXTENDS Integers

CONSTANTS Slots,          \* (network url, account, public key) triples
          U64,            \* number of values of u64; 2^64 in the code
          OverflowChecks  \* TRUE: `+= 1` past the maximum panics; FALSE: wraps

ASSUME U64Assumption == U64 \in Nat \ {0}
ASSUME OverflowChecksAssumption == OverflowChecks \in BOOLEAN

VARIABLES nonces,    \* nonces[s]: the cached nonce of s, or Vacant
          poisoned,  \* a caller panicked holding the mutex
          granted    \* history: the nonces returned for each slot

vars == <<nonces, poisoned, granted>>

Nonces == 0 .. U64 - 1

\* The map has no entry for the slot.
Vacant == -1

TypeOK ==
    /\ nonces \in [Slots -> Nonces \union {Vacant}]
    /\ poisoned \in BOOLEAN
    /\ granted \in [Slots -> SUBSET Nonces]

Init ==
    /\ nonces = [s \in Slots |-> Vacant]
    /\ poisoned = FALSE
    /\ granted = [s \in Slots |-> {}]

\* Variant: the chain nonce overwrites the cached one.
Refreshed_uncached(cached, chainNonce) == chainNonce

\* The entry before the increment: and_modify(max) or or_insert.
Refreshed(cached, chainNonce) ==
    IF cached = Vacant \/ cached < chainNonce THEN chainNonce ELSE cached

\* `*nonce += 1` cannot be carried out: the build panics instead of wrapping.
Panics(base) == OverflowChecks /\ base = U64 - 1

\* Variant: the entry is returned before it is incremented.
NextNonce_unincremented(cached, chainNonce) == Refreshed(cached, chainNonce)

\* The nonce `next` returns for a slot whose cached nonce is `cached`.
NextNonce(cached, chainNonce) ==
    LET base == Refreshed(cached, chainNonce)
    IN  IF base = U64 - 1 THEN 0 ELSE base + 1

\* A call that returns.
next(s, chainNonce) ==
    /\ ~poisoned
    /\ ~Panics(Refreshed(nonces[s], chainNonce))
    /\ LET n == NextNonce(nonces[s], chainNonce)
       IN  /\ nonces' = [nonces EXCEPT ![s] = n]
           /\ granted' = [granted EXCEPT ![s] = @ \union {n}]
    /\ UNCHANGED poisoned

\* A call that panics at the increment: the entry keeps the refreshed value,
\* the mutex is poisoned and no later `lock().unwrap()` returns.
nextPanics(s, chainNonce) ==
    /\ ~poisoned
    /\ Panics(Refreshed(nonces[s], chainNonce))
    /\ nonces' = [nonces EXCEPT ![s] = Refreshed(@, chainNonce)]
    /\ poisoned' = TRUE
    /\ UNCHANGED granted

Next ==
    \E s \in Slots, chainNonce \in Nonces :
        next(s, chainNonce) \/ nextPanics(s, chainNonce)

Spec == Init /\ [][Next]_vars
-----------------------------------------------------------------------------
\* The cached nonce of a slot is at or above every nonce handed out for it, so
\* the next call returns a fresh one although the chain nonce its caller read
\* may be stale.  Only a build with overflow checks keeps it: a wrapped counter
\* starts again below the nonces it handed out.
CacheDominates ==
    \A s \in Slots : \A n \in granted[s] : nonces[s] # Vacant /\ n <= nonces[s]

\* No call is granted a nonce granted before for the slot, nor one at or below
\* the chain nonce it passed in: however many callers race and however stale
\* the chain nonces they read, `max(cached, chain) + 1` allocates increasing
\* nonces.
Allocator == INSTANCE NonceAllocator
ImplementsAllocator == Allocator!Spec
=============================================================================
