--------------------------- MODULE NonceAllocator ---------------------------
(***************************************************************************)
(* What the nonce manager promises, without the cache that keeps the       *)
(* promise: every nonce granted for a slot is above every nonce granted    *)
(* for it before, and above the nonce the caller saw on chain.             *)
(***************************************************************************)
EXTENDS Integers

CONSTANTS Slots,   \* (network url, account, public key) triples
          U64      \* number of values of the nonce type; 2^64 in the code

VARIABLE granted   \* granted[s]: the nonces handed out for slot s

Nonces == 0 .. U64 - 1

Init == granted = [s \in Slots |-> {}]

\* One caller, which saw chainNonce on chain, is granted nonce n for slot s.
Grant(s, chainNonce, n) ==
    /\ n > chainNonce
    /\ \A m \in granted[s] : n > m
    /\ granted' = [granted EXCEPT ![s] = @ \union {n}]

Next == \E s \in Slots, chainNonce, n \in Nonces : Grant(s, chainNonce, n)

Spec == Init /\ [][Next]_granted
=============================================================================
