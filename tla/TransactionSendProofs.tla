----------------------- MODULE TransactionSendProofs ------------------------
(***************************************************************************)
(* TransactionSend for any number of futures, signers, keys and retries.   *)
(*                                                                         *)
(* Typing needs Control: which fields a future has filled in at each point *)
(* of its code.  The safety theorems rest on TxInv, whose core is that a   *)
(* future signs again only over a dead transaction: of the transactions a  *)
(* future built, only the latest can still be executed.                    *)
(*                                                                         *)
(* The last section counts: PaidInv gives every rejection of a future's    *)
(* transactions an event of its own that caused it.                        *)
(***************************************************************************)
EXTENDS TransactionSend, FiniteSetTheorems, TLAPS

\* The steps of one future.
SendStep(s) == Progress(s) \/ SendSigned(s) \/ DropFuture(s)

\* What future s has filled in, by the point it has reached.
Control(s) ==
    /\ pc[s] \in {"claim", "view", "nonce", "sign", "held", "wait"} => SignerOf[s] \in Signers
    /\ pc[s] \in {"view", "nonce", "sign", "held", "wait"} => key[s] \in Keys
    /\ pc[s] = "nonce" => view[s] \in Nonces
    /\ pc[s] \in {"sign", "held", "wait"} => tx[s] \in built

TypeInv == TypeOK /\ \A s \in Sends : Control(s)

\* Future s and its latest transaction: before the next one is built the
\* latest is dead, and so it is when s returns a nonce or block-hash error.
TxOf(s) ==
    /\ tx[s] # NoTx => tx[s] \in built /\ tx[s].send = s
    /\ pc[s] \in {"sign", "held", "wait"} => tx[s] # NoTx /\ tx[s].slot = Slot(s)
    /\ pc[s] \in {"start", "claim", "view", "nonce"} /\ tx[s] # NoTx => Dead(tx[s])
    /\ result[s] \in NonceResults => pc[s] = "done" /\ tx[s] # NoTx /\ Dead(tx[s])

\* A transaction that is not its future's latest one is dead.
Superseded == \A t \in built : t # tx[t.send] => Dead(t)

TxInv == Superseded /\ \A s \in Sends : TxOf(s)

\* The map's entry is at or above every nonce taken for the slot.
CacheBound == \A t \in built : nonces[t.slot] # None /\ t.nonce <= nonces[t.slot]

\* Two transactions of one slot have different nonces.
SlotUnique == \A t, u \in built : t.slot = u.slot /\ t.nonce = u.nonce => t = u

NonceInv == CacheBound /\ SlotUnique
-----------------------------------------------------------------------------
\* Signer::public_key and Signer::key return a key of the signer.
LEMMA PublicKeyType ==
    ASSUME TypeOK, NEW g \in Signers
    PROVE  public_key(g) \in Keys
<1>1. counter[g] \in Nat /\ Len(KeysOf[g]) \in Nat /\ Len(KeysOf[g]) > 0
      /\ KeysOf[g] \in Seq(Keys)
  BY ConstantsAssumption DEF TypeOK
<1>2. (counter[g] % Len(KeysOf[g])) + 1 \in 1 .. Len(KeysOf[g])
  BY <1>1
<1> QED
  BY <1>1, <1>2 DEF public_key

\* What NonceManager::next computes for a future is a u64, and above the
\* entry and the chain nonce when it does not panic.
LEMMA NextNonceFacts ==
    ASSUME NEW cached \in Nonces \union {None}, NEW chainNonce \in Nonces
    PROVE  /\ NM!Refreshed(cached, chainNonce) \in Nonces
           /\ NM!NextNonce(cached, chainNonce) \in Nonces
           /\ ~NM!Panics(NM!Refreshed(cached, chainNonce)) =>
                NM!NextNonce(cached, chainNonce) > cached
  BY ConstantsAssumption
  DEF NM!Refreshed, NM!NextNonce, NM!Panics, NM!Vacant, None, Nonces

\* A future that is about to take a nonce has a slot and a chain nonce.
LEMMA ProvidedNonceType ==
    ASSUME TypeInv, NEW s \in Sends, pc[s] = "nonce"
    PROVE  /\ Slot(s) \in Slots
           /\ ProvidedNonce(s) \in Nonces
           /\ nonces[Slot(s)] \in Nonces \union {None}
<1>1. key[s] \in Keys /\ view[s] \in Nonces
  BY DEF TypeInv, Control
<1>2. Slot(s) \in Slots
  BY <1>1 DEF Slot, Slots, Urls
<1>3. ProvidedNonce(s) \in Nonces
  BY <1>1 DEF TypeInv, TypeOK, ProvidedNonce
<1> QED
  BY <1>2, <1>3 DEF TypeInv, TypeOK

\* A step of future s leaves the chain and the other futures alone.
LEMMA SendStepFrame ==
    ASSUME TypeOK, NEW s \in Sends, SendStep(s)
    PROVE  /\ UNCHANGED chainVars
           /\ \A q \in Sends \ {s} : /\ pc'[q] = pc[q]
                                     /\ tx'[q] = tx[q]
                                     /\ key'[q] = key[q]
                                     /\ result'[q] = result[q]
                                     /\ attempt'[q] = attempt[q]
                                     /\ view'[q] = view[q]
                                     /\ akNonce'[q] = akNonce[q]
<1> USE DEF chainVars, TypeOK, Return, Goto
<1>1. CASE Start(s)
  BY <1>1 DEF Start
<1>2. CASE ClaimKey(s)
  BY <1>2 DEF ClaimKey
<1>3. CASE ViewAccessKey(s)
  BY <1>3 DEF ViewAccessKey
<1>4. CASE TakeNonce(s)
  BY <1>4 DEF TakeNonce
<1>5. CASE TakeNoncePanics(s)
  BY <1>5 DEF TakeNoncePanics
<1>6. CASE Sign(s)
  BY <1>6 DEF Sign, Submit
<1>7. CASE OnAccepted(s)
  BY <1>7 DEF OnAccepted
<1>8. CASE OnInvalidNonce(s)
  BY <1>8 DEF OnInvalidNonce, Resign
<1>9. CASE OnRuntimeInvalidNonce(s)
  BY <1>9 DEF OnRuntimeInvalidNonce
<1>10. CASE OnExpired(s)
  BY <1>10 DEF OnExpired, Resign
<1>11. CASE OnCongested(s)
  BY <1>11 DEF OnCongested
<1>12. CASE OnTransient(s)
  BY <1>12 DEF OnTransient
<1>13. CASE OnFatal(s)
  BY <1>13 DEF OnFatal
<1>14. CASE SendSigned(s)
  BY <1>14 DEF SendSigned, Submit
<1>15. CASE DropFuture(s)
  BY <1>15 DEF DropFuture
<1> QED
  BY <1>1, <1>2, <1>3, <1>4, <1>5, <1>6, <1>7, <1>8, <1>9, <1>10, <1>11,
     <1>12, <1>13, <1>14, <1>15 DEF SendStep, Progress

\* Only NonceManager::next gives a future a new transaction.
LEMMA OnlyTakeNonceBuilds ==
    ASSUME NEW s \in Sends, SendStep(s), ~TakeNonce(s)
    PROVE  UNCHANGED <<tx, built>>
<1> USE DEF procVars
<1>1. CASE Start(s)
  BY <1>1 DEF Start
<1>2. CASE ClaimKey(s)
  BY <1>2 DEF ClaimKey
<1>3. CASE ViewAccessKey(s)
  BY <1>3 DEF ViewAccessKey
<1>4. CASE TakeNoncePanics(s)
  BY <1>4 DEF TakeNoncePanics
<1>5. CASE Sign(s)
  BY <1>5 DEF Sign
<1>6. CASE OnAccepted(s)
  BY <1>6 DEF OnAccepted
<1>7. CASE OnInvalidNonce(s)
  BY <1>7 DEF OnInvalidNonce
<1>8. CASE OnRuntimeInvalidNonce(s)
  BY <1>8 DEF OnRuntimeInvalidNonce
<1>9. CASE OnExpired(s)
  BY <1>9 DEF OnExpired
<1>10. CASE OnCongested(s)
  BY <1>10 DEF OnCongested
<1>11. CASE OnTransient(s)
  BY <1>11 DEF OnTransient
<1>12. CASE OnFatal(s)
  BY <1>12 DEF OnFatal
<1>13. CASE SendSigned(s)
  BY <1>13 DEF SendSigned
<1>14. CASE DropFuture(s)
  BY <1>14 DEF DropFuture
<1> QED
  BY <1>1, <1>2, <1>3, <1>4, <1>5, <1>6, <1>7, <1>8, <1>9, <1>10, <1>11,
     <1>12, <1>13, <1>14 DEF SendStep, Progress
-----------------------------------------------------------------------------
\* Initially every future is at its start and every map is empty.
LEMMA TypeInit == Init => TypeInv
<1> SUFFICES ASSUME Init PROVE TypeInv
  OBVIOUS
<1>1. MaxNonceRetries \in Nat /\ MaxRetries \in Nat /\ MaxForeign \in Nat
      /\ ChainNonce0 \subseteq Nonces
  BY ConstantsAssumption DEF Nonces
<1>2. chain \in [Keys -> Nonces] /\ final \in [Keys -> Nonces]
  BY <1>1 DEF Init
<1>3. /\ attempt \in [Sends -> 0 .. MaxNonceRetries]
      /\ rpcTry \in [Sends -> 0 .. MaxRetries]
      /\ foreign \in 0 .. MaxForeign
  BY <1>1 DEF Init
<1>4. TypeOK
  BY <1>2, <1>3 DEF Init, TypeOK, Results
<1>5. ASSUME NEW s \in Sends PROVE Control(s)
  BY DEF Init, Control
<1> QED
  BY <1>4, <1>5 DEF TypeInv

\* A future that only moves on (no transaction built, nothing submitted).
LEMMA TypeStart ==
    ASSUME TypeInv, NEW s \in Sends, Start(s) \/ OnAccepted(s)
             \/ OnRuntimeInvalidNonce(s) \/ OnFatal(s) \/ DropFuture(s)
    PROVE  TypeInv'
<1>0. SignerOf[s] \in Signers \union {NoSigner}
  BY ConstantsAssumption
<1>1. CASE Start(s)
  BY <1>0, <1>1
  DEF Start, Return, Goto, TypeInv, TypeOK, Control, procVars, chainVars, Results
<1>2. CASE OnAccepted(s)
  BY <1>2 DEF OnAccepted, Return, TypeInv, TypeOK, Control, procVars, chainVars, Results
<1>3. CASE OnRuntimeInvalidNonce(s)
  BY <1>3 DEF OnRuntimeInvalidNonce, Return, TypeInv, TypeOK, Control, procVars,
              chainVars, Results
<1>4. CASE OnFatal(s)
  BY <1>4 DEF OnFatal, Return, TypeInv, TypeOK, Control, procVars, chainVars, Results
<1>5. CASE DropFuture(s)
  BY <1>5 DEF DropFuture, Return, TypeInv, TypeOK, Control, procVars, chainVars, Results
<1> QED
  BY <1>1, <1>2, <1>3, <1>4, <1>5

\* Claiming a key.
LEMMA TypeClaimKey ==
    ASSUME TypeInv, NEW s \in Sends, ClaimKey(s)
    PROVE  TypeInv'
<1>1. SignerOf[s] \in Signers
  BY DEF ClaimKey, TypeInv, Control
<1>2. public_key(SignerOf[s]) \in Keys
  BY <1>1, PublicKeyType DEF TypeInv
<1> QED
  BY <1>1, <1>2 DEF ClaimKey, Goto, TypeInv, TypeOK, Control, chainVars

\* The answer of view_access_key is a nonce.
LEMMA TypeViewAccessKey ==
    ASSUME TypeInv, NEW s \in Sends, ViewAccessKey(s)
    PROVE  TypeInv'
<1>1. key[s] \in Keys
  BY DEF ViewAccessKey, TypeInv, Control
<1>2. final[key[s]] \in Nonces
  BY <1>1 DEF TypeInv, TypeOK
<1> QED
  BY <1>1, <1>2
  DEF ViewAccessKey, Goto, Return, TypeInv, TypeOK, Control, procVars, chainVars, Results

\* Taking a nonce builds a transaction of the slot.
LEMMA TypeTakeNonce ==
    ASSUME TypeInv, NEW s \in Sends, TakeNonce(s)
    PROVE  TypeInv'
<1> DEFINE n == NM!NextNonce(nonces[Slot(s)], ProvidedNonce(s))
           t == [send |-> s, slot |-> Slot(s), nonce |-> n]
<1>1. pc[s] = "nonce"
  BY DEF TakeNonce
<1>2. Slot(s) \in Slots /\ n \in Nonces
  BY <1>1, ProvidedNonceType, NextNonceFacts
<1>3. t \in Txs
  BY <1>2 DEF Txs
<1>4. key[s] \in Keys /\ SignerOf[s] \in Signers
  BY <1>1 DEF TypeInv, Control
<1>5. /\ nonces' = [nonces EXCEPT ![Slot(s)] = n]
      /\ built' = built \union {t}
      /\ tx' = [tx EXCEPT ![s] = t]
      /\ akNonce' = [akNonce EXCEPT ![s] = None]
      /\ Goto(s, "held") \/ Goto(s, "sign")
      /\ UNCHANGED <<attempt, key, view, rpcTry, poisoned, counter, chainVars, requests>>
  BY DEF TakeNonce
<1>6. TypeOK'
  BY <1>2, <1>3, <1>5 DEF TypeInv, TypeOK, Return, Goto, Results, chainVars
<1>7. ASSUME NEW q \in Sends PROVE Control(q)'
  <2>1. CASE q = s
    BY <2>1, <1>4, <1>5 DEF TypeInv, TypeOK, Control, Return, Goto
  <2>2. CASE q # s
    BY <2>2, <1>5 DEF TypeInv, TypeOK, Control, Return, Goto
  <2> QED
    BY <2>1, <2>2
<1> QED
  BY <1>6, <1>7 DEF TypeInv

\* A panicking `next` leaves a nonce in the map.
LEMMA TypeTakeNoncePanics ==
    ASSUME TypeInv, NEW s \in Sends, TakeNoncePanics(s)
    PROVE  TypeInv'
<1>1. pc[s] = "nonce"
  BY DEF TakeNoncePanics
<1>2. NM!Refreshed(nonces[Slot(s)], ProvidedNonce(s)) \in Nonces
  BY <1>1, ProvidedNonceType, NextNonceFacts
<1> QED
  BY <1>1, <1>2
  DEF TakeNoncePanics, Return, TypeInv, TypeOK, Control, chainVars, Results

\* The first submission of a transaction that was built.
LEMMA TypeSubmit ==
    ASSUME TypeInv, NEW s \in Sends, Sign(s) \/ SendSigned(s)
    PROVE  TypeInv'
<1>1. tx[s] \in built /\ key[s] \in Keys /\ SignerOf[s] \in Signers
  BY DEF Sign, SendSigned, TypeInv, Control
<1>2. 0 \in 0 .. MaxRetries
  BY ConstantsAssumption
<1>3. CASE Sign(s)
  BY <1>1, <1>2, <1>3 DEF Sign, Submit, Return, Goto, TypeInv, TypeOK, Control, procVars,
                          chainVars, Results
<1>4. CASE SendSigned(s)
  BY <1>1, <1>2, <1>4 DEF SendSigned, Submit, Goto, TypeInv, TypeOK, Control, procVars,
                          chainVars
<1> QED
  BY <1>3, <1>4

\* A rejected future signs again or returns; its attempt stays in bounds.
LEMMA TypeRejected ==
    ASSUME TypeInv, NEW s \in Sends, OnInvalidNonce(s) \/ OnExpired(s)
    PROVE  TypeInv'
<1>1. key[s] \in Keys /\ SignerOf[s] \in Signers
  BY DEF OnInvalidNonce, OnExpired, TypeInv, Control
<1>2. chain[key[s]] \in Nonces
  BY <1>1 DEF TypeInv, TypeOK
<1>3. MaxNonceRetries \in Nat /\ attempt[s] \in 0 .. MaxNonceRetries
  BY ConstantsAssumption DEF TypeInv, TypeOK
<1>4. /\ attempt' \in [Sends -> 0 .. MaxNonceRetries]
      /\ akNonce' \in [Sends -> Nonces \union {None}]
      /\ requests' \subseteq requests
      /\ Goto(s, "claim") \/ Return(s, "invalid_nonce") \/ Return(s, "expired")
      /\ UNCHANGED <<key, view, tx, rpcTry, procVars, chainVars>>
  <2>1. CASE OnInvalidNonce(s)
    BY <1>2, <1>3, <2>1 DEF OnInvalidNonce, Rejected, Resign, TypeInv, TypeOK
  <2>2. CASE OnExpired(s)
    BY <1>3, <2>2 DEF OnExpired, Rejected, Resign, TypeInv, TypeOK
  <2> QED
    BY <2>1, <2>2
<1>5. TypeOK'
  BY <1>4 DEF TypeInv, TypeOK, Return, Goto, Results, procVars, chainVars
<1>6. ASSUME NEW q \in Sends PROVE Control(q)'
  BY <1>1, <1>4 DEF TypeInv, TypeOK, Control, Return, Goto, procVars
<1> QED
  BY <1>5, <1>6 DEF TypeInv

\* RpcClient::call's attempt stays in bounds.
LEMMA TypeRepeated ==
    ASSUME TypeInv, NEW s \in Sends, OnCongested(s) \/ OnTransient(s)
    PROVE  TypeInv'
<1>1. /\ pc[s] = "wait"
      /\ tx[s] \in built /\ key[s] \in Keys /\ SignerOf[s] \in Signers
  BY DEF OnCongested, OnTransient, TypeInv, Control
<1>2. MaxRetries \in Nat /\ rpcTry[s] \in 0 .. MaxRetries
  BY ConstantsAssumption DEF TypeInv, TypeOK
<1>3. /\ rpcTry' \in [Sends -> 0 .. MaxRetries]
      /\ requests' \subseteq requests \union (built \X (0 .. MaxRetries))
      /\ Goto(s, "wait") \/ Return(s, "congested") \/ Return(s, "rpc_failed")
      /\ UNCHANGED <<attempt, key, view, akNonce, tx, procVars, chainVars>>
  <2>1. CASE OnCongested(s)
    BY <1>1, <1>2, <2>1 DEF OnCongested, Rejected, TypeInv, TypeOK
  <2>2. CASE OnTransient(s)
    BY <1>1, <1>2, <2>2 DEF OnTransient, TypeInv, TypeOK
  <2> QED
    BY <2>1, <2>2
<1>4. TypeOK'
  BY <1>3 DEF TypeInv, TypeOK, Return, Goto, Results, procVars, chainVars
<1>5. ASSUME NEW q \in Sends PROVE Control(q)'
  BY <1>1, <1>3 DEF TypeInv, TypeOK, Control, Return, Goto, procVars
<1> QED
  BY <1>4, <1>5 DEF TypeInv

\* The chain executes and expires built transactions only.
LEMMA TypeChainStep ==
    ASSUME TypeInv, ChainStep
    PROVE  TypeInv'
<1>1. ASSUME NEW r \in requests, Execute(r[1]) PROVE TypeInv'
  <2>1. r[1] \in built /\ r[1] \in Txs
    BY DEF TypeInv, TypeOK
  <2>2. r[1].nonce \in Nonces
    BY <2>1 DEF Txs
  <2> QED
    BY <1>1, <2>1, <2>2 DEF Execute, TypeInv, TypeOK, Control, sendVars, procVars
<1>2. ASSUME NEW t \in built, Expire(t) PROVE TypeInv'
  BY <1>2 DEF Expire, TypeInv, TypeOK, Control, sendVars, procVars
<1>3. ASSUME NEW k \in Keys, Foreign(k) PROVE TypeInv'
  BY <1>3, ConstantsAssumption
  DEF Foreign, TypeInv, TypeOK, Control, sendVars, procVars, Nonces
<1>4. ASSUME NEW k \in Keys, Finalize(k) PROVE TypeInv'
  BY <1>4 DEF Finalize, TypeInv, TypeOK, Control, sendVars, procVars
<1> QED
  BY <1>1, <1>2, <1>3, <1>4 DEF ChainStep

\* Every step.
LEMMA TypeStep == TypeInv /\ [Next]_vars => TypeInv'
<1> SUFFICES ASSUME TypeInv, [Next]_vars PROVE TypeInv'
  OBVIOUS
<1>1. ASSUME NEW s \in Sends, SendStep(s) PROVE TypeInv'
  BY <1>1, TypeStart, TypeClaimKey, TypeViewAccessKey, TypeTakeNonce,
     TypeTakeNoncePanics, TypeSubmit, TypeRejected, TypeRepeated
  DEF SendStep, Progress
<1>2. CASE ChainStep
  BY <1>2, TypeChainStep
<1>3. CASE UNCHANGED vars
  BY <1>3 DEF vars, sendVars, procVars, chainVars, TypeInv, TypeOK, Control
<1> QED
  BY <1>1, <1>2, <1>3 DEF Next, SendStep, Terminated

\* Every field of every future, the shared maps and the chain keep their
\* types: in particular `attempt` stays within max_nonce_retries, `rpcTry`
\* within max_retries, and only transactions that were built are executed.
THEOREM TypeCorrect == Spec => []TypeOK
<1>1. TypeInv => TypeOK
  BY DEF TypeInv
<1> QED
  BY <1>1, TypeInit, TypeStep, PTL DEF Spec
-----------------------------------------------------------------------------
\* Dead transactions stay dead: chain nonces only grow, an expired block hash
\* stays expired, and a node executes only what is not dead.
LEMMA DeadStable ==
    ASSUME TypeInv, [Next]_vars, NEW t \in built, Dead(t)
    PROVE  Dead(t)'
<1>1. t \in Txs /\ t.slot[2] \in Keys /\ t.nonce \in Nonces
  BY DEF TypeInv, TypeOK, Txs, Slots
<1>2. \A k \in Keys : chain[k] \in Int
  BY ConstantsAssumption DEF TypeInv, TypeOK, Nonces
<1>3. t.nonce \in Int
  BY <1>1, ConstantsAssumption DEF Nonces
<1>4. ASSUME NEW s \in Sends, SendStep(s) PROVE Dead(t)'
  BY <1>4, SendStepFrame DEF TypeInv, Dead, Executed, chainVars
<1>5. ASSUME NEW r \in requests, Execute(r[1]) PROVE Dead(t)'
  <2>1. r[1] \in Txs
    BY DEF TypeInv, TypeOK
  <2>2. r[1].slot[2] \in Keys /\ r[1].nonce \in Int
    BY <2>1, ConstantsAssumption DEF Txs, Slots, Nonces
  <2>3. r[1] # t
    BY <1>5 DEF Execute
  <2>4. t \notin executed'
    BY <1>5, <2>3 DEF Execute, Dead, Executed
  <2>5. CASE t \in expired
    BY <1>5, <2>4, <2>5 DEF Execute, Dead, Executed
  <2>6. CASE t.nonce <= chain[t.slot[2]]
    <3>1. r[1].nonce > chain[r[1].slot[2]]
      BY <1>2, <1>5, <2>2 DEF Execute, Dead
    <3>2. chain'[t.slot[2]] >= chain[t.slot[2]]
      BY <1>1, <1>2, <1>5, <2>2, <3>1 DEF Execute, TypeInv, TypeOK
    <3>3. chain'[t.slot[2]] \in Int
      BY <1>1, <1>2, <1>5, <2>2 DEF Execute, TypeInv, TypeOK
    <3> QED
      BY <1>1, <1>2, <1>3, <2>4, <2>6, <3>2, <3>3 DEF Dead, Executed
  <2> QED
    BY <2>5, <2>6 DEF Dead
<1>6. ASSUME NEW u \in built, Expire(u) PROVE Dead(t)'
  BY <1>6 DEF Expire, Dead, Executed
<1>7. ASSUME NEW k \in Keys, Foreign(k) PROVE Dead(t)'
  BY <1>1, <1>2, <1>3, <1>7 DEF Foreign, Dead, Executed, TypeInv, TypeOK
<1>8. ASSUME NEW k \in Keys, Finalize(k) PROVE Dead(t)'
  BY <1>8 DEF Finalize, Dead, Executed
<1>9. CASE UNCHANGED vars
  BY <1>9 DEF vars, chainVars, Dead, Executed
<1> QED
  BY <1>4, <1>5, <1>6, <1>7, <1>8, <1>9 DEF Next, SendStep, ChainStep, Terminated
-----------------------------------------------------------------------------
\* The future that takes a nonce: its new transaction is its latest one.
LEMMA TxTakeNonce ==
    ASSUME TypeInv, TxInv, NEW s \in Sends, TakeNonce(s)
    PROVE  TxOf(s)' /\ Superseded'
<1> DEFINE n == NM!NextNonce(nonces[Slot(s)], ProvidedNonce(s))
           u == [send |-> s, slot |-> Slot(s), nonce |-> n]
<1>1. /\ pc[s] = "nonce"
      /\ built' = built \union {u}
      /\ tx' = [tx EXCEPT ![s] = u]
      /\ Goto(s, "held") \/ Goto(s, "sign")
      /\ UNCHANGED <<key, chainVars>>
  BY DEF TakeNonce
<1>2. u # NoTx /\ u.send = s /\ u.slot = Slot(s)
  BY ConstantsAssumption DEF NoTx
<1>3. tx'[s] = u /\ Slot(s)' = Slot(s)
  BY <1>1 DEF TypeInv, TypeOK, Slot
<1>4. TxOf(s)'
  <2>1. result[s] \notin NonceResults
    BY <1>1 DEF TxInv, TxOf
  <2> QED
    BY <1>1, <1>2, <1>3, <2>1 DEF TxOf, Return, Goto, TypeInv, TypeOK, NonceResults
<1>5. ASSUME NEW t \in built, t # tx'[t.send] PROVE Dead(t)'
  <2>1. t \in Txs /\ t.send \in Sends /\ t # NoTx
    BY ConstantsAssumption DEF TypeInv, TypeOK, Txs, NoTx
  <2>2. Dead(t)
    <3>1. CASE t # tx[t.send]
      BY <3>1 DEF TxInv, Superseded
    <3>2. CASE t = tx[t.send]
      <4>1. t.send = s
        BY <1>1, <1>5, <2>1, <3>2 DEF TypeInv, TypeOK
      <4> QED
        BY <1>1, <2>1, <3>2, <4>1 DEF TxInv, TxOf
    <3> QED
      BY <3>1, <3>2
  <2> QED
    BY <1>1, <2>2 DEF Dead, Executed, chainVars
<1>6. Superseded'
  BY <1>1, <1>2, <1>3, <1>5 DEF Superseded
<1> QED
  BY <1>4, <1>6

\* The node's answer InvalidNonce or Expired leaves the transaction dead.
LEMMA RejectionIsFinal ==
    ASSUME TypeInv, TxInv, NEW s \in Sends,
           OnInvalidNonce(s) \/ OnRuntimeInvalidNonce(s) \/ OnExpired(s)
    PROVE  tx[s] # NoTx /\ tx[s] \in built /\ Dead(tx[s])
<1>1. pc[s] = "wait"
  BY DEF OnInvalidNonce, OnRuntimeInvalidNonce, OnExpired
<1>2. tx[s] # NoTx /\ tx[s] \in built /\ tx[s].slot = <<Url[s], key[s]>>
  BY <1>1 DEF TxInv, TxOf, Slot
<1> QED
  BY <1>2 DEF OnInvalidNonce, OnRuntimeInvalidNonce, OnExpired, Dead

\* A future that keeps its transaction.
LEMMA TxKept ==
    ASSUME TypeInv, TxInv, NEW s \in Sends, SendStep(s), ~TakeNonce(s)
    PROVE  TxOf(s)'
<1>1. UNCHANGED <<tx, built, chainVars>>
  BY OnlyTakeNonceBuilds, SendStepFrame DEF TypeInv
<1>2. Dead(tx[s])' <=> Dead(tx[s])
  BY <1>1 DEF Dead, Executed, chainVars
<1>3. tx[s] # NoTx => tx[s] \in built /\ tx[s].send = s
  BY DEF TxInv, TxOf
<1>4. ASSUME NEW r \in Results \ NonceResults, Return(s, r) PROVE TxOf(s)'
  BY <1>1, <1>3, <1>4 DEF TxOf, Return, TypeInv, TypeOK
<1>5. ASSUME Goto(s, "claim") \/ Goto(s, "view") \/ Goto(s, "nonce"),
             tx[s] # NoTx => Dead(tx[s]), pc[s] # "done"
      PROVE  TxOf(s)'
  BY <1>1, <1>2, <1>3, <1>5 DEF TxInv, TxOf, Goto, TypeInv, TypeOK
<1>6. ASSUME Goto(s, "held") \/ Goto(s, "wait"), pc[s] \in {"sign", "held", "wait"},
             UNCHANGED key
      PROVE  TxOf(s)'
  BY <1>1, <1>2, <1>3, <1>6 DEF TxInv, TxOf, Goto, Slot, TypeInv, TypeOK
<1>7. ASSUME NEW r \in Results, Return(s, r), tx[s] # NoTx, Dead(tx[s]) PROVE TxOf(s)'
  BY <1>1, <1>2, <1>3, <1>7 DEF TxOf, Return, TypeInv, TypeOK
<1>8. pc[s] \in {"start", "claim", "view", "nonce"} => (tx[s] # NoTx => Dead(tx[s]))
  BY DEF TxInv, TxOf
<1> USE DEF Results, NonceResults
<1>9. CASE Start(s)
  BY <1>4, <1>5, <1>8, <1>9 DEF Start
<1>10. CASE ClaimKey(s)
  BY <1>5, <1>8, <1>10 DEF ClaimKey
<1>11. CASE ViewAccessKey(s)
  BY <1>4, <1>5, <1>8, <1>11 DEF ViewAccessKey
<1>12. CASE TakeNoncePanics(s)
  BY <1>4, <1>12 DEF TakeNoncePanics
<1>13. CASE Sign(s)
  BY <1>4, <1>6, <1>13 DEF Sign, Submit
<1>14. CASE OnAccepted(s)
  BY <1>4, <1>14 DEF OnAccepted
<1>15. CASE OnInvalidNonce(s)
  BY <1>5, <1>7, <1>15, RejectionIsFinal DEF OnInvalidNonce, Resign
<1>16. CASE OnRuntimeInvalidNonce(s)
  BY <1>7, <1>16, RejectionIsFinal DEF OnRuntimeInvalidNonce
<1>17. CASE OnExpired(s)
  BY <1>5, <1>7, <1>17, RejectionIsFinal DEF OnExpired, Resign
<1>18. CASE OnCongested(s)
  BY <1>4, <1>6, <1>18 DEF OnCongested
<1>19. CASE OnTransient(s)
  BY <1>4, <1>6, <1>19 DEF OnTransient
<1>20. CASE OnFatal(s)
  BY <1>4, <1>20 DEF OnFatal
<1>21. CASE SendSigned(s)
  BY <1>6, <1>21 DEF SendSigned, Submit
<1>22. CASE DropFuture(s)
  BY <1>4, <1>22 DEF DropFuture
<1> QED
  BY <1>9, <1>10, <1>11, <1>12, <1>13, <1>14, <1>15, <1>16, <1>17, <1>18, <1>19,
     <1>20, <1>21, <1>22 DEF SendStep, Progress

\* A future that does not move, while another one or the chain does.
LEMMA TxOfFrame ==
    ASSUME TypeInv, [Next]_vars, NEW q \in Sends, TxOf(q), built \subseteq built',
           pc'[q] = pc[q], tx'[q] = tx[q], key'[q] = key[q], result'[q] = result[q]
    PROVE  TxOf(q)'
<1>1. tx[q] # NoTx /\ Dead(tx[q]) => Dead(tx[q])'
  <2> SUFFICES ASSUME tx[q] # NoTx, Dead(tx[q]) PROVE Dead(tx[q])'
    OBVIOUS
  <2>1. PICK t \in built : t = tx[q]
    BY DEF TxOf
  <2>2. Dead(t)'
    BY <2>1, DeadStable
  <2> QED
    BY <2>1, <2>2 DEF Dead, Executed
<1> QED
  BY <1>1 DEF TxOf, Slot

\* Every step keeps superseded transactions dead.
LEMMA TxStep == TypeInv /\ TxInv /\ [Next]_vars => TxInv'
<1> SUFFICES ASSUME TypeInv, TxInv, [Next]_vars PROVE TxInv'
  OBVIOUS
<1>1. ASSUME UNCHANGED <<tx, built>> PROVE Superseded'
  <2>1. ASSUME NEW t \in built, t # tx[t.send] PROVE Dead(t)'
    BY <2>1, DeadStable DEF TxInv, Superseded
  <2> QED
    BY <1>1, <2>1 DEF Superseded
<1>2. ASSUME NEW s \in Sends, SendStep(s) PROVE TxInv'
  <2>1. built \subseteq built'
    <3>1. CASE TakeNonce(s)
      BY <3>1 DEF TakeNonce
    <3>2. CASE ~TakeNonce(s)
      BY <1>2, <3>2, OnlyTakeNonceBuilds
    <3> QED
      BY <3>1, <3>2
  <2>2. ASSUME NEW q \in Sends \ {s} PROVE TxOf(q)'
    BY <1>2, <2>1, SendStepFrame, TxOfFrame DEF TypeInv, TxInv
  <2>3. TxOf(s)' /\ Superseded'
    <3>1. CASE TakeNonce(s)
      BY <3>1, TxTakeNonce
    <3>2. CASE ~TakeNonce(s)
      BY <1>1, <1>2, <3>2, TxKept, OnlyTakeNonceBuilds
    <3> QED
      BY <3>1, <3>2
  <2> QED
    BY <2>2, <2>3 DEF TxInv
<1>3. ASSUME UNCHANGED sendVars, UNCHANGED procVars PROVE TxInv'
  <2>1. UNCHANGED <<pc, tx, key, result, built>>
    BY <1>3 DEF sendVars, procVars
  <2>2. ASSUME NEW q \in Sends PROVE TxOf(q)'
    BY <2>1, TxOfFrame DEF TxInv
  <2> QED
    BY <1>1, <2>1, <2>2 DEF TxInv
<1>4. CASE ChainStep
  BY <1>3, <1>4 DEF ChainStep, Execute, Expire, Foreign, Finalize
<1>5. CASE UNCHANGED vars
  BY <1>3, <1>5 DEF vars
<1> QED
  BY <1>2, <1>4, <1>5 DEF Next, SendStep, Terminated

\* No future has a transaction initially.
LEMMA TxInit == Init => TxInv
  BY DEF Init, TxInv, TxOf, Superseded, NonceResults

\* The typing and transaction invariants hold in every reachable state.
LEMMA TxInvariant == Spec => [](TypeInv /\ TxInv)
  BY TypeInit, TypeStep, TxInit, TxStep, PTL DEF Spec

\* At most one of the transactions a future signs is executed, however often
\* the loop of TransactionSend::into_future signs again and RpcClient::call
\* repeats the request, for any number of futures and any retry limits.
THEOREM ExecutedAtMostOnce == Spec => []AtMostOnce
<1>1. TypeInv /\ TxInv => AtMostOnce
  <2> SUFFICES ASSUME TypeInv, TxInv, NEW t \in executed PROVE t = tx[t.send]
    BY DEF AtMostOnce
  <2> QED
    BY DEF TypeInv, TypeOK, TxInv, Superseded, Dead, Executed
<1> QED
  BY <1>1, TxInvariant, PTL

\* A future that returns InvalidNonce or Expired leaves no transaction that
\* was or can be executed: the error of the last iteration speaks for all.
THEOREM NonceErrorsAreFinal == Spec => []NonceErrorIsFinal
<1>1. TypeInv /\ TxInv => NonceErrorIsFinal
  <2> SUFFICES ASSUME TypeInv, TxInv, NEW s \in Sends, result[s] \in NonceResults,
                      NEW t \in built, t.send = s
               PROVE  Dead(t)
    BY DEF NonceErrorIsFinal
  <2>1. CASE t = tx[s]
    BY <2>1 DEF TxInv, TxOf
  <2>2. CASE t # tx[s]
    BY <2>2 DEF TxInv, Superseded
  <2> QED
    BY <2>1, <2>2
<1> QED
  BY <1>1, TxInvariant, PTL
-----------------------------------------------------------------------------
(* The nonce manager. *)

\* What TakeNonce does to the map, in the nonce manager's terms.
LEMMA TakeNonceFacts ==
    ASSUME TypeInv, NEW s \in Sends, TakeNonce(s)
    PROVE  \E n \in Nonces :
             /\ Slot(s) \in Slots
             /\ n = NM!NextNonce(nonces[Slot(s)], ProvidedNonce(s))
             /\ n > nonces[Slot(s)]
             /\ nonces' = [nonces EXCEPT ![Slot(s)] = n]
             /\ built' = built \union {[send |-> s, slot |-> Slot(s), nonce |-> n]}
<1>1. pc[s] = "nonce" /\ ~NM!Panics(NM!Refreshed(nonces[Slot(s)], ProvidedNonce(s)))
  BY DEF TakeNonce
<1>2. /\ Slot(s) \in Slots
      /\ ProvidedNonce(s) \in Nonces
      /\ nonces[Slot(s)] \in Nonces \union {None}
  BY <1>1, ProvidedNonceType
<1>3. /\ NM!NextNonce(nonces[Slot(s)], ProvidedNonce(s)) \in Nonces
      /\ NM!NextNonce(nonces[Slot(s)], ProvidedNonce(s)) > nonces[Slot(s)]
  BY <1>1, <1>2, NextNonceFacts
<1> QED
  BY <1>2, <1>3 DEF TakeNonce

\* The other steps of a future that touch the map: a panicking `next`.
LEMMA OtherStepsKeepNonces ==
    ASSUME NEW s \in Sends, SendStep(s), ~TakeNonce(s), ~TakeNoncePanics(s)
    PROVE  UNCHANGED <<nonces, poisoned>>
<1> USE DEF procVars
<1>1. CASE Start(s)
  BY <1>1 DEF Start
<1>2. CASE ClaimKey(s)
  BY <1>2 DEF ClaimKey
<1>3. CASE ViewAccessKey(s)
  BY <1>3 DEF ViewAccessKey
<1>4. CASE Sign(s)
  BY <1>4 DEF Sign
<1>5. CASE OnAccepted(s)
  BY <1>5 DEF OnAccepted
<1>6. CASE OnInvalidNonce(s)
  BY <1>6 DEF OnInvalidNonce
<1>7. CASE OnRuntimeInvalidNonce(s)
  BY <1>7 DEF OnRuntimeInvalidNonce
<1>8. CASE OnExpired(s)
  BY <1>8 DEF OnExpired
<1>9. CASE OnCongested(s)
  BY <1>9 DEF OnCongested
<1>10. CASE OnTransient(s)
  BY <1>10 DEF OnTransient
<1>11. CASE OnFatal(s)
  BY <1>11 DEF OnFatal
<1>12. CASE SendSigned(s)
  BY <1>12 DEF SendSigned
<1>13. CASE DropFuture(s)
  BY <1>13 DEF DropFuture
<1> QED
  BY <1>1, <1>2, <1>3, <1>4, <1>5, <1>6, <1>7, <1>8, <1>9, <1>10, <1>11, <1>12, <1>13
  DEF SendStep, Progress

\* A panicking `next` leaves the entry at or above its old value.
LEMMA PanicFacts ==
    ASSUME TypeInv, NEW s \in Sends, TakeNoncePanics(s)
    PROVE  /\ UNCHANGED built
           /\ \A l \in Slots : nonces[l] # None =>
                /\ nonces'[l] \in Nonces
                /\ nonces'[l] >= nonces[l]
<1>1. pc[s] = "nonce"
  BY DEF TakeNoncePanics
<1> DEFINE base == NM!Refreshed(nonces[Slot(s)], ProvidedNonce(s))
<1>2. /\ Slot(s) \in Slots /\ nonces[Slot(s)] \in Nonces \union {None}
      /\ base \in Nonces
  BY <1>1, ProvidedNonceType, NextNonceFacts
<1>3. base >= nonces[Slot(s)]
  BY <1>1, <1>2, ProvidedNonceType, ConstantsAssumption
  DEF NM!Refreshed, NM!Vacant, None, Nonces
<1>4. nonces' = nonces \/ nonces' = [nonces EXCEPT ![Slot(s)] = base]
  BY DEF TakeNoncePanics
<1>5. nonces \in [Slots -> Nonces \union {None}] /\ UNCHANGED built
  BY DEF TakeNoncePanics, TypeInv, TypeOK
<1>6. \A n \in Nonces : n >= n
  BY ConstantsAssumption DEF Nonces
<1> HIDE DEF base
<1> QED
  BY <1>2, <1>3, <1>4, <1>5, <1>6

\* Every step keeps the map above the nonces of its slots.
LEMMA NonceStep == TypeInv /\ NonceInv /\ [Next]_vars => NonceInv'
<1> SUFFICES ASSUME TypeInv, NonceInv, [Next]_vars PROVE NonceInv'
  OBVIOUS
<1>1. \A t \in built : t.slot \in Slots /\ t.nonce \in Nonces
  BY DEF TypeInv, TypeOK, Txs
<1>2. ASSUME NEW s \in Sends, TakeNonce(s) PROVE NonceInv'
  <2>1. PICK n \in Nonces :
             /\ Slot(s) \in Slots
             /\ n > nonces[Slot(s)]
             /\ nonces' = [nonces EXCEPT ![Slot(s)] = n]
             /\ built' = built \union {[send |-> s, slot |-> Slot(s), nonce |-> n]}
    BY <1>2, TakeNonceFacts
  <2>2. nonces \in [Slots -> Nonces \union {None}]
    BY DEF TypeInv, TypeOK
  <2>3. \A t \in built : t.slot = Slot(s) => t.nonce < n
    BY <1>1, <2>1, <2>2, ConstantsAssumption DEF NonceInv, CacheBound, Nonces, None
  <2>4. CacheBound'
    BY <1>1, <2>1, <2>2, <2>3, ConstantsAssumption DEF NonceInv, CacheBound, Nonces, None
  <2>5. SlotUnique'
    BY <1>1, <2>1, <2>3, ConstantsAssumption DEF NonceInv, SlotUnique, Nonces
  <2> QED
    BY <2>4, <2>5 DEF NonceInv
<1>3. ASSUME NEW s \in Sends, TakeNoncePanics(s) PROVE NonceInv'
  BY <1>1, <1>3, PanicFacts, ConstantsAssumption
  DEF NonceInv, CacheBound, SlotUnique, Nonces, None, TypeInv, TypeOK
<1>4. ASSUME UNCHANGED <<nonces, built>> PROVE NonceInv'
  BY <1>4 DEF NonceInv, CacheBound, SlotUnique
<1>5. ASSUME NEW s \in Sends, SendStep(s) PROVE NonceInv'
  BY <1>2, <1>3, <1>4, <1>5, OtherStepsKeepNonces, OnlyTakeNonceBuilds
<1>6. CASE ChainStep
  BY <1>4, <1>6 DEF ChainStep, Execute, Expire, Foreign, Finalize, procVars
<1>7. CASE UNCHANGED vars
  BY <1>4, <1>7 DEF vars, procVars
<1> QED
  BY <1>5, <1>6, <1>7 DEF Next, SendStep, Terminated

\* No two transactions of one (url, key) slot carry the same nonce, whatever
\* the futures do; with one RPC url per network, no two of one key do.
THEOREM NoncesNeverCollide ==
    (\A s, q \in Sends : Url[s] = Url[q]) => (Spec => []NoCollision)
<1> SUFFICES ASSUME \A s, q \in Sends : Url[s] = Url[q] PROVE Spec => []NoCollision
  OBVIOUS
<1>1. Init => NonceInv
  BY DEF Init, NonceInv, CacheBound, SlotUnique
<1>2. TypeInv /\ NonceInv => NoCollision
  <2> SUFFICES ASSUME TypeInv, NonceInv, NEW t \in built, NEW u \in built,
                      t.slot[2] = u.slot[2], t.nonce = u.nonce
               PROVE  t = u
    BY DEF NoCollision
  <2>1. t.slot \in Urls \X Keys /\ u.slot \in Urls \X Keys
    BY DEF TypeInv, TypeOK, Txs, Slots
  <2>2. t.slot[1] = u.slot[1]
    BY <2>1 DEF Urls
  <2>3. t.slot = u.slot
    BY <2>1, <2>2
  <2> QED
    BY <2>3 DEF NonceInv, SlotUnique
<1> QED
  BY <1>1, <1>2, TypeInit, TypeStep, NonceStep, PTL DEF Spec

\* Sending is safe for any number of futures, keys and retries, when all
\* clients of the network use one RPC url.
THEOREM SendingIsSafe ==
    (\A s, q \in Sends : Url[s] = Url[q]) => (Spec => []SendsAreSafe)
<1> SUFFICES ASSUME \A s, q \in Sends : Url[s] = Url[q] PROVE Spec => []SendsAreSafe
  OBVIOUS
<1>1. Spec => []NoCollision
  BY NoncesNeverCollide
<1>2. NoCollision /\ AtMostOnce /\ NonceErrorIsFinal => SendsAreSafe
  BY DEF SendsAreSafe
<1> QED
  BY <1>1, <1>2, ExecutedAtMostOnce, NonceErrorsAreFinal, PTL

\* The futures only take nonces from NonceManager::next: seen through its
\* map, its mutex and the nonces in the transactions built, every behaviour
\* of the futures and the chain is one of the nonce manager.
THEOREM SendsUseNonceManager == Spec => UsesNonceManager
<1>1. Init => NM!Init
  BY DEF Init, NM!Init, NM!Vacant, None, Granted
<1>2. TypeInv /\ [Next]_vars => [NM!Next]_(NM!vars)
  <2> SUFFICES ASSUME TypeInv, [Next]_vars PROVE NM!Next \/ UNCHANGED NM!vars
    OBVIOUS
  <2>1. ASSUME UNCHANGED <<nonces, poisoned, built>> PROVE UNCHANGED NM!vars
    BY <2>1 DEF NM!vars, Granted
  <2>2. ASSUME NEW s \in Sends, TakeNonce(s) PROVE NM!Next
    <3> DEFINE l == Slot(s)
    <3>1. PICK n \in Nonces :
             /\ l \in Slots
             /\ n = NM!NextNonce(nonces[l], ProvidedNonce(s))
             /\ nonces' = [nonces EXCEPT ![l] = n]
             /\ built' = built \union {[send |-> s, slot |-> l, nonce |-> n]}
      BY <2>2, TakeNonceFacts
    <3>2. Granted' = [Granted EXCEPT ![l] = @ \union {n}]
      <4> DEFINE new == [send |-> s, slot |-> l, nonce |-> n]
      <4>1. new.slot = l /\ new.nonce = n /\ built' = built \union {new}
        BY <3>1
      <4> HIDE DEF new, l
      <4>2. {u \in built' : u.slot = l} = {u \in built : u.slot = l} \union {new}
        BY <4>1
      <4>3. \A m \in Slots \ {l} : {u \in built' : u.slot = m} = {u \in built : u.slot = m}
        BY <4>1
      <4>4. {t.nonce : t \in {u \in built' : u.slot = l}}
              = {t.nonce : t \in {u \in built : u.slot = l}} \union {n}
        BY <4>1, <4>2
      <4>5. ASSUME NEW m \in Slots \ {l} PROVE Granted'[m] = Granted[m]
        BY <4>3 DEF Granted
      <4>6. Granted'[l] = Granted[l] \union {n}
        BY <3>1, <4>4 DEF Granted
      <4>7. Granted = [m \in Slots |-> Granted[m]] /\ Granted' = [m \in Slots |-> Granted'[m]]
        BY DEF Granted
      <4> QED
        BY <4>5, <4>6, <4>7
    <3>3. ~poisoned /\ UNCHANGED poisoned
          /\ ~NM!Panics(NM!Refreshed(nonces[l], ProvidedNonce(s)))
      BY <2>2 DEF TakeNonce
    <3>4. NM!next(l, ProvidedNonce(s))
      BY <3>1, <3>2, <3>3 DEF NM!next
    <3>5. ProvidedNonce(s) \in NM!Nonces
      BY <2>2, ProvidedNonceType DEF TakeNonce, Nonces, NM!Nonces
    <3> QED
      BY <3>1, <3>4, <3>5 DEF NM!Next
  <2>3. ASSUME NEW s \in Sends, TakeNoncePanics(s) PROVE NM!Next \/ UNCHANGED NM!vars
    <3>1. CASE poisoned
      <4>1. UNCHANGED <<nonces, poisoned, built>>
        BY <2>3, <3>1 DEF TakeNoncePanics
      <4> QED
        BY <2>1, <4>1
    <3>2. CASE ~poisoned
      <4>1. UNCHANGED Granted
        BY <2>3, PanicFacts DEF Granted
      <4>2. NM!nextPanics(Slot(s), ProvidedNonce(s))
        BY <2>3, <3>2, <4>1 DEF TakeNoncePanics, NM!nextPanics
      <4>3. Slot(s) \in Slots /\ ProvidedNonce(s) \in NM!Nonces
        BY <2>3, ProvidedNonceType DEF TakeNoncePanics, Nonces, NM!Nonces
      <4> QED
        BY <4>2, <4>3 DEF NM!Next
    <3> QED
      BY <3>1, <3>2
  <2>4. ASSUME NEW s \in Sends, SendStep(s) PROVE NM!Next \/ UNCHANGED NM!vars
    BY <2>1, <2>2, <2>3, <2>4, OtherStepsKeepNonces, OnlyTakeNonceBuilds
  <2>5. CASE ChainStep
    BY <2>1, <2>5 DEF ChainStep, Execute, Expire, Foreign, Finalize, procVars
  <2>6. CASE UNCHANGED vars
    BY <2>1, <2>6 DEF vars, procVars
  <2> QED
    BY <2>4, <2>5, <2>6 DEF Next, SendStep, Terminated
<1> QED
  BY <1>1, <1>2, TypeInit, TypeStep, PTL DEF Spec, UsesNonceManager, NM!Spec
-----------------------------------------------------------------------------
(* The retries. *)

\* What can overtake future s: transactions of other futures, transactions
\* of other processes, and the expiry of its own transactions.
Others(s) == {t \in executed : t.send # s}
Lapsed(s) == {t \in expired : t.send = s}
Events(s) == Cardinality(Others(s)) + foreign + Cardinality(Lapsed(s))

\* The key of a future whose signer has one.
OnlyKey(s) == KeysOf[SignerOf[s]][1]

\* The next transaction of s may be overtaken already: neither the map nor
\* the nonce it will pass to NonceManager::next reaches the chain's.
Behind(s) ==
    /\ chain[OnlyKey(s)] > nonces[<<Url[s], OnlyKey(s)>>]
    /\ chain[OnlyKey(s)] > IF akNonce[s] # None THEN akNonce[s]
                           ELSE IF pc[s] = "nonce" THEN view[s]
                           ELSE final[OnlyKey(s)]

HasTx(s) == pc[s] \in {"sign", "held", "wait"}

\* The rejections of s so far, and those it is bound to meet, each have an
\* event of their own: one more when its transaction is dead or the next may
\* be, two more when its transaction is both expired and overtaken.
Paid(s) ==
    /\ pc[s] \in {"view", "nonce", "sign", "held", "wait"} => key[s] = OnlyKey(s)
    /\ attempt[s] <= Events(s)
    /\ pc[s] \in {"start", "claim", "view", "nonce"} /\ SignerOf[s] \in Signers /\ Behind(s) =>
          attempt[s] + 1 <= Events(s)
    /\ HasTx(s) /\ Dead(tx[s]) => attempt[s] + 1 <= Events(s)
    /\ HasTx(s) /\ Dead(tx[s]) /\ tx[s] \in expired /\ tx[s].nonce <= chain[OnlyKey(s)] =>
          attempt[s] + 2 <= Events(s)

FiniteInv == IsFiniteSet(executed) /\ IsFiniteSet(expired)

\* What is known of a reachable state when every signer has one key.
PaidInv == TypeInv /\ TxInv /\ NonceInv /\ FiniteInv /\ \A s \in Sends : Paid(s)

\* The chain executes and expires one transaction at a time.
LEMMA FiniteStep == TypeInv /\ FiniteInv /\ [Next]_vars => FiniteInv'
<1> SUFFICES ASSUME TypeInv, FiniteInv, [Next]_vars PROVE FiniteInv'
  OBVIOUS
<1>1. ASSUME NEW s \in Sends, SendStep(s) PROVE FiniteInv'
  BY <1>1, SendStepFrame DEF TypeInv, FiniteInv, chainVars
<1>2. ASSUME NEW r \in requests, Execute(r[1]) PROVE FiniteInv'
  BY <1>2, FS_AddElement DEF Execute, FiniteInv
<1>3. ASSUME NEW t \in built, Expire(t) PROVE FiniteInv'
  BY <1>3, FS_AddElement DEF Expire, FiniteInv
<1>4. ASSUME NEW k \in Keys, Foreign(k) \/ Finalize(k) PROVE FiniteInv'
  BY <1>4 DEF Foreign, Finalize, FiniteInv
<1>5. CASE UNCHANGED vars
  BY <1>5 DEF vars, chainVars, FiniteInv
<1> QED
  BY <1>1, <1>2, <1>3, <1>4, <1>5 DEF Next, SendStep, ChainStep, Terminated

\* The three counts are numbers.
LEMMA EventsType ==
    ASSUME TypeInv, FiniteInv, NEW s \in Sends
    PROVE  /\ Cardinality(Others(s)) \in Nat /\ Cardinality(Lapsed(s)) \in Nat /\ foreign \in Nat
           /\ Events(s) \in Nat
<1>1. IsFiniteSet(Others(s)) /\ IsFiniteSet(Lapsed(s))
  BY FS_Subset DEF FiniteInv, Others, Lapsed
<1>2. Cardinality(Others(s)) \in Nat /\ Cardinality(Lapsed(s)) \in Nat
  BY <1>1, FS_CardinalityType
<1>3. foreign \in Nat
  BY ConstantsAssumption DEF TypeInv, TypeOK
<1> QED
  BY <1>2, <1>3 DEF Events

\* What each step of the chain adds to the events of s.
LEMMA EventsStep ==
    ASSUME TypeInv, FiniteInv, NEW s \in Sends
    PROVE  /\ UNCHANGED chainVars => Events(s)' = Events(s)
           /\ \A t \in built : Execute(t) =>
                Events(s)' = IF t.send # s THEN Events(s) + 1 ELSE Events(s)
           /\ \A t \in built : Expire(t) =>
                Events(s)' = IF t.send = s THEN Events(s) + 1 ELSE Events(s)
           /\ \A k \in Keys : Foreign(k) => Events(s)' = Events(s) + 1
           /\ \A k \in Keys : Finalize(k) => Events(s)' = Events(s)
<1>1. /\ Cardinality(Others(s)) \in Nat /\ Cardinality(Lapsed(s)) \in Nat /\ foreign \in Nat
      /\ IsFiniteSet(Others(s)) /\ IsFiniteSet(Lapsed(s))
  BY EventsType, FS_Subset DEF FiniteInv, Others, Lapsed
<1>2. UNCHANGED chainVars => Events(s)' = Events(s)
  BY DEF chainVars, Events, Others, Lapsed
<1>3. ASSUME NEW t \in built, Execute(t)
      PROVE  Events(s)' = IF t.send # s THEN Events(s) + 1 ELSE Events(s)
  <2>1. t \notin Others(s) /\ executed' = executed \union {t} /\ UNCHANGED <<expired, foreign>>
    BY <1>3 DEF Execute, Executed, Others
  <2>2. Lapsed(s)' = Lapsed(s)
    BY <2>1 DEF Lapsed
  <2>3. CASE t.send # s
    <3>1. Others(s)' = Others(s) \union {t}
      BY <2>1, <2>3 DEF Others
    <3>2. Cardinality(Others(s)') = Cardinality(Others(s)) + 1
      BY <1>1, <2>1, <3>1, FS_AddElement
    <3> QED
      BY <1>1, <2>1, <2>2, <2>3, <3>2 DEF Events
  <2>4. CASE t.send = s
    <3>1. Others(s)' = Others(s)
      BY <2>1, <2>4 DEF Others
    <3> QED
      BY <2>1, <2>2, <2>4, <3>1 DEF Events
  <2> QED
    BY <2>3, <2>4
<1>4. ASSUME NEW t \in built, Expire(t)
      PROVE  Events(s)' = IF t.send = s THEN Events(s) + 1 ELSE Events(s)
  <2>1. t \notin Lapsed(s) /\ expired' = expired \union {t} /\ UNCHANGED <<executed, foreign>>
    BY <1>4 DEF Expire, Lapsed
  <2>2. Others(s)' = Others(s)
    BY <2>1 DEF Others
  <2>3. CASE t.send = s
    <3>1. Lapsed(s)' = Lapsed(s) \union {t}
      BY <2>1, <2>3 DEF Lapsed
    <3>2. Cardinality(Lapsed(s)') = Cardinality(Lapsed(s)) + 1
      BY <1>1, <2>1, <3>1, FS_AddElement
    <3> QED
      BY <1>1, <2>1, <2>2, <2>3, <3>2 DEF Events
  <2>4. CASE t.send # s
    <3>1. Lapsed(s)' = Lapsed(s)
      BY <2>1, <2>4 DEF Lapsed
    <3> QED
      BY <2>1, <2>2, <2>4, <3>1 DEF Events
  <2> QED
    BY <2>3, <2>4
<1>5. ASSUME NEW k \in Keys, Foreign(k) PROVE Events(s)' = Events(s) + 1
  <2>1. foreign' = foreign + 1 /\ Others(s)' = Others(s) /\ Lapsed(s)' = Lapsed(s)
    BY <1>5 DEF Foreign, Others, Lapsed
  <2> QED
    BY <1>1, <2>1 DEF Events
<1>6. ASSUME NEW k \in Keys, Finalize(k) PROVE Events(s)' = Events(s)
  <2>1. foreign' = foreign /\ Others(s)' = Others(s) /\ Lapsed(s)' = Lapsed(s)
    BY <1>6 DEF Finalize, Others, Lapsed
  <2> QED
    BY <2>1 DEF Events
<1> QED
  BY <1>2, <1>3, <1>4, <1>5, <1>6

\* The numbers Paid compares.
LEMMA PaidTypes ==
    ASSUME PaidInv, NEW s \in Sends
    PROVE  /\ attempt[s] \in Nat /\ Events(s) \in Nat
           /\ akNonce[s] \in Int /\ view[s] \in Int
           /\ SignerOf[s] \in Signers =>
                /\ OnlyKey(s) \in Keys /\ <<Url[s], OnlyKey(s)>> \in Slots
                /\ chain[OnlyKey(s)] \in Int /\ final[OnlyKey(s)] \in Int
                /\ nonces[<<Url[s], OnlyKey(s)>>] \in Int
           /\ HasTx(s) =>
                /\ SignerOf[s] \in Signers /\ key[s] = OnlyKey(s)
                /\ tx[s] \in built /\ tx[s].send = s /\ tx[s].slot = <<Url[s], OnlyKey(s)>>
                /\ tx[s].slot[2] = OnlyKey(s) /\ tx[s].nonce \in Int
<1>1. attempt[s] \in Nat /\ akNonce[s] \in Int /\ view[s] \in Int
  BY ConstantsAssumption DEF PaidInv, TypeInv, TypeOK, Nonces, None
<1>2. Events(s) \in Nat
  BY EventsType DEF PaidInv
<1>3. ASSUME SignerOf[s] \in Signers
      PROVE  /\ OnlyKey(s) \in Keys /\ <<Url[s], OnlyKey(s)>> \in Slots
             /\ chain[OnlyKey(s)] \in Int /\ final[OnlyKey(s)] \in Int
             /\ nonces[<<Url[s], OnlyKey(s)>>] \in Int
  <2>1. KeysOf[SignerOf[s]] \in Seq(Keys) /\ Len(KeysOf[SignerOf[s]]) > 0
    BY <1>3, ConstantsAssumption
  <2>2. OnlyKey(s) \in Keys
    BY <2>1 DEF OnlyKey
  <2>3. <<Url[s], OnlyKey(s)>> \in Slots
    BY <2>2 DEF Slots, Urls
  <2>4. Nonces \subseteq Int /\ None \in Int
    BY ConstantsAssumption DEF Nonces, None
  <2> QED
    BY <2>2, <2>3, <2>4 DEF PaidInv, TypeInv, TypeOK
<1>4. ASSUME HasTx(s)
      PROVE  /\ SignerOf[s] \in Signers /\ key[s] = OnlyKey(s)
             /\ tx[s] \in built /\ tx[s].send = s /\ tx[s].slot = <<Url[s], OnlyKey(s)>>
             /\ tx[s].slot[2] = OnlyKey(s) /\ tx[s].nonce \in Int
  <2>1. SignerOf[s] \in Signers /\ key[s] = OnlyKey(s)
    BY <1>4 DEF HasTx, PaidInv, TypeInv, Control, Paid
  <2>2. tx[s] \in built /\ tx[s].send = s /\ tx[s].slot = <<Url[s], key[s]>>
    BY <1>4 DEF HasTx, PaidInv, TxInv, TxOf, Slot
  <2>3. tx[s].nonce \in Int
    BY <2>2, ConstantsAssumption DEF PaidInv, TypeInv, TypeOK, Txs, Nonces
  <2> QED
    BY <2>1, <2>2, <2>3
<1> QED
  BY <1>1, <1>2, <1>3, <1>4

\* A future that does not move, when the chain does not either: the entries
\* of the map only grow.
LEMMA PaidFrame ==
    ASSUME PaidInv, NEW q \in Sends, UNCHANGED chainVars,
           pc'[q] = pc[q], attempt'[q] = attempt[q], key'[q] = key[q], view'[q] = view[q],
           akNonce'[q] = akNonce[q], tx'[q] = tx[q],
           \A l \in Slots : nonces'[l] \in Int /\ nonces'[l] >= nonces[l]
    PROVE  Paid(q)'
<1>1. Events(q)' = Events(q)
  BY EventsStep DEF PaidInv
<1>2. (Dead(tx[q])' <=> Dead(tx[q])) /\ (HasTx(q)' <=> HasTx(q))
  BY DEF Dead, Executed, chainVars, HasTx
<1>3. SignerOf[q] \in Signers /\ Behind(q)' => Behind(q)
  BY PaidTypes DEF Behind, chainVars, OnlyKey
<1>4. Paid(q)
  BY DEF PaidInv
<1> QED
  BY <1>1, <1>2, <1>3, <1>4 DEF Paid, chainVars, OnlyKey

\* The chain moves and something overtakes q.
LEMMA PaidByAnEvent ==
    ASSUME PaidInv, NEW q \in Sends, UNCHANGED <<sendVars, procVars>>,
           Events(q)' = Events(q) + 1,
           HasTx(q) /\ Dead(tx[q])' /\ tx[q] \in expired' /\ tx[q].nonce <= chain'[OnlyKey(q)] =>
              Dead(tx[q])
    PROVE  Paid(q)'
<1>1. attempt[q] \in Nat /\ Events(q) \in Nat
  BY PaidTypes
<1>2. Paid(q)
  BY DEF PaidInv
<1>3. attempt'[q] = attempt[q] /\ pc'[q] = pc[q] /\ key'[q] = key[q] /\ tx'[q] = tx[q]
      /\ (HasTx(q)' <=> HasTx(q))
  BY DEF sendVars, HasTx
<1>4. attempt[q] + 1 <= Events(q)'
  BY <1>1, <1>2 DEF Paid
<1>5. ASSUME HasTx(q)', Dead(tx[q])', tx'[q] \in expired', tx'[q].nonce <= chain'[OnlyKey(q)]
      PROVE  attempt[q] + 2 <= Events(q)'
  <2>1. Dead(tx[q])
    BY <1>3, <1>5
  <2>2. attempt[q] + 1 <= Events(q)
    BY <1>2, <1>3, <1>5, <2>1 DEF Paid
  <2> QED
    BY <1>1, <2>2
<1> QED
  BY <1>1, <1>2, <1>3, <1>4, <1>5 DEF Paid, OnlyKey

\* The chain moves.
LEMMA PaidChainStep ==
    ASSUME PaidInv, ChainStep, NEW q \in Sends
    PROVE  Paid(q)'
<1>1. Paid(q)
  BY DEF PaidInv
<1>2. UNCHANGED <<sendVars, procVars>>
  BY DEF ChainStep, Execute, Expire, Foreign, Finalize
<1>3. /\ attempt' = attempt /\ pc' = pc /\ key' = key /\ tx' = tx /\ nonces' = nonces
      /\ akNonce' = akNonce /\ view' = view /\ built' = built
  BY <1>2 DEF sendVars, procVars
<1>4. ASSUME NEW r \in requests, Execute(r[1]) PROVE Paid(q)'
  <2>1. r[1] \in built /\ ~Dead(r[1]) /\ ~Executed(r[1])
    BY <1>4 DEF PaidInv, TypeInv, TypeOK, Execute
  <2>2. executed' = executed \union {r[1]} /\ expired' = expired
    BY <1>4 DEF Execute
  <2>3. CASE r[1].send # q
    <3>1. Events(q)' = Events(q) + 1
      BY <1>4, <2>1, <2>3, EventsStep DEF PaidInv
    <3>2. HasTx(q) /\ Dead(tx[q])' /\ tx[q] \in expired' => Dead(tx[q])
      BY <1>3, <2>2 DEF Dead, Executed
    <3> QED
      BY <1>2, <2>2, <3>1, <3>2, PaidByAnEvent
  <2>4. CASE r[1].send = q
    <3>1. Events(q)' = Events(q)
      BY <1>4, <2>1, <2>4, EventsStep DEF PaidInv
    <3>2. r[1] = tx[q]
      BY <2>1, <2>4 DEF PaidInv, TxInv, Superseded
    <3>3. r[1] # NoTx
      BY <2>1, ConstantsAssumption DEF PaidInv, TypeInv, TypeOK, Txs, NoTx
    <3>4. pc[q] \notin {"start", "claim", "view", "nonce"}
      BY <2>1, <3>2, <3>3 DEF PaidInv, TxInv, TxOf
    <3>5. ~Dead(tx[q])'
      BY <1>3, <2>2, <3>2 DEF Dead, Executed
    <3> QED
      BY <1>1, <1>3, <3>1, <3>4, <3>5 DEF Paid, OnlyKey
  <2> QED
    BY <2>3, <2>4
<1>5. ASSUME NEW t \in built, Expire(t) PROVE Paid(q)'
  <2>1. /\ executed' = executed /\ expired' = expired \union {t} /\ chain' = chain /\ final' = final
        /\ ~Executed(t)
    BY <1>5 DEF Expire
  <2>2. CASE t.send = q
    <3>1. Events(q)' = Events(q) + 1
      BY <1>5, <2>2, EventsStep DEF PaidInv
    <3>2. ASSUME HasTx(q), Dead(tx[q])', tx[q].nonce <= chain'[OnlyKey(q)] PROVE Dead(tx[q])
      BY <1>3, <2>1, <3>2, PaidTypes DEF Dead, Executed
    <3> QED
      BY <1>2, <2>1, <3>1, <3>2, PaidByAnEvent
  <2>3. CASE t.send # q
    <3>1. Events(q)' = Events(q)
      BY <1>5, <2>3, EventsStep DEF PaidInv
    <3>2. HasTx(q) => tx[q] # t
      BY <2>3, PaidTypes
    <3>3. HasTx(q) => (tx[q] \in expired' <=> tx[q] \in expired) /\ (Dead(tx[q])' <=> Dead(tx[q]))
      BY <1>3, <2>1, <3>2 DEF Dead, Executed
    <3>4. (Behind(q)' <=> Behind(q)) /\ (HasTx(q)' <=> HasTx(q))
      BY <1>3, <2>1 DEF Behind, OnlyKey, HasTx
    <3> QED
      BY <1>1, <1>3, <2>1, <3>1, <3>3, <3>4 DEF Paid, OnlyKey
  <2> QED
    BY <2>2, <2>3
<1>6. ASSUME NEW k \in Keys, Foreign(k) PROVE Paid(q)'
  <2>1. Events(q)' = Events(q) + 1
    BY <1>6, EventsStep DEF PaidInv
  <2>2. executed' = executed /\ expired' = expired
    BY <1>6 DEF Foreign
  <2>3. HasTx(q) /\ Dead(tx[q])' /\ tx[q] \in expired' => Dead(tx[q])
    BY <1>3, <2>2 DEF Dead, Executed
  <2> QED
    BY <1>2, <2>1, <2>2, <2>3, PaidByAnEvent
<1>7. ASSUME NEW k \in Keys, Finalize(k) PROVE Paid(q)'
  <2>1. Events(q)' = Events(q)
    BY <1>7, EventsStep DEF PaidInv
  <2>2. executed' = executed /\ expired' = expired /\ chain' = chain
        /\ final' = [final EXCEPT ![k] = chain[k]]
    BY <1>7 DEF Finalize
  <2>3. (Dead(tx[q])' <=> Dead(tx[q])) /\ (HasTx(q)' <=> HasTx(q))
    BY <1>3, <2>2 DEF Dead, Executed, HasTx
  <2>4. SignerOf[q] \in Signers /\ Behind(q)' => Behind(q)
    <3> SUFFICES ASSUME SignerOf[q] \in Signers, Behind(q)' PROVE Behind(q)
      OBVIOUS
    <3>1. OnlyKey(q) \in Keys /\ chain[OnlyKey(q)] \in Int
      BY PaidTypes
    <3>2. final'[OnlyKey(q)] = IF OnlyKey(q) = k THEN chain[OnlyKey(q)] ELSE final[OnlyKey(q)]
      BY <2>2, <3>1 DEF PaidInv, TypeInv, TypeOK
    <3> QED
      BY <1>3, <2>2, <3>1, <3>2 DEF Behind, OnlyKey
  <2> QED
    BY <1>1, <1>3, <2>1, <2>2, <2>3, <2>4 DEF Paid, OnlyKey
<1> QED
  BY <1>4, <1>5, <1>6, <1>7 DEF ChainStep

\* Every signer has one key.
OneKeyEach == \A g \in Signers : Len(KeysOf[g]) = 1

\* NonceManager::next goes above the nonce it is given.
LEMMA NextNonceAboveProvided ==
    ASSUME NEW cached \in Nonces \union {None}, NEW chainNonce \in Nonces,
           ~NM!Panics(NM!Refreshed(cached, chainNonce))
    PROVE  NM!NextNonce(cached, chainNonce) > chainNonce
  BY ConstantsAssumption
  DEF NM!Refreshed, NM!NextNonce, NM!Panics, NM!Vacant, None, Nonces

\* Future s takes a nonce.
LEMMA PaidTakeNonce ==
    ASSUME PaidInv, NEW s \in Sends, TakeNonce(s)
    PROVE  Paid(s)'
<1> DEFINE k == OnlyKey(s)
<1> DEFINE l == <<Url[s], k>>
<1>1. Paid(s) /\ TypeInv
  BY DEF PaidInv
<1>2. pc[s] = "nonce" /\ key[s] = k /\ SignerOf[s] \in Signers
  BY <1>1 DEF TakeNonce, Paid, TypeInv, Control
<1>3. Slot(s) = l /\ ProvidedNonce(s) \in Nonces /\ nonces[l] \in Nonces \union {None}
  BY <1>1, <1>2, ProvidedNonceType DEF Slot
<1>4. PICK n \in Nonces :
        /\ n = NM!NextNonce(nonces[l], ProvidedNonce(s))
        /\ n > nonces[l]
        /\ built' = built \union {[send |-> s, slot |-> l, nonce |-> n]}
  BY <1>1, <1>3, TakeNonceFacts
<1> DEFINE u == [send |-> s, slot |-> l, nonce |-> n]
<1>5. n > ProvidedNonce(s)
  BY <1>3, <1>4, NextNonceAboveProvided DEF TakeNonce
<1>6. /\ tx'[s] = u /\ attempt'[s] = attempt[s] /\ key'[s] = k /\ HasTx(s)'
      /\ pc'[s] \in {"held", "sign"} /\ UNCHANGED chainVars
  BY <1>2, <1>3, <1>4 DEF TakeNonce, Goto, HasTx, TypeInv, TypeOK, PaidInv
<1>7. Events(s)' = Events(s)
  BY <1>6, EventsStep DEF PaidInv
<1>8. u \notin built
  <2>1. u.slot = l /\ u.nonce = n
    OBVIOUS
  <2>2. n \in Int /\ nonces[l] \in Int
    BY <1>2, <1>4, PaidTypes, ConstantsAssumption DEF Nonces
  <2> HIDE DEF u
  <2> QED
    BY <1>4, <2>1, <2>2 DEF PaidInv, NonceInv, CacheBound
<1>9. u \notin expired' /\ u \notin executed'
  BY <1>6, <1>8 DEF chainVars, PaidInv, TypeInv, TypeOK
<1>10. ASSUME Dead(tx[s])' PROVE attempt[s] + 1 <= Events(s)
  <2>1. n <= chain[k]
    <3>1. tx'[s].nonce = n /\ tx'[s].slot[2] = k
      BY <1>6
    <3>2. tx'[s].nonce <= chain'[tx'[s].slot[2]]
      BY <1>6, <1>9, <1>10 DEF Dead
    <3> QED
      BY <1>6, <3>1, <3>2 DEF chainVars
  <2>2. n \in Int /\ nonces[l] \in Int /\ chain[k] \in Int /\ ProvidedNonce(s) \in Int
    BY <1>2, <1>3, PaidTypes, ConstantsAssumption DEF Nonces
  <2>3. chain[k] > nonces[l] /\ chain[k] > ProvidedNonce(s)
    BY <1>4, <1>5, <2>1, <2>2
  <2>4. Behind(s)
    BY <1>2, <2>3 DEF Behind, ProvidedNonce
  <2> QED
    BY <1>1, <1>2, <2>4 DEF Paid
<1>11. k' = k
  BY DEF OnlyKey
<1> HIDE DEF u
<1> QED
  BY <1>1, <1>6, <1>7, <1>9, <1>10, <1>11 DEF Paid

\* The node rejects the transaction of s, which returns or signs again.
LEMMA PaidRejected ==
    ASSUME PaidInv, NEW s \in Sends, OnInvalidNonce(s) \/ OnExpired(s)
    PROVE  Paid(s)'
<1>1. Paid(s) /\ pc[s] = "wait" /\ HasTx(s) /\ Dead(tx[s])
  BY RejectionIsFinal DEF PaidInv, OnInvalidNonce, OnExpired, HasTx
<1>2. UNCHANGED <<chainVars, nonces>>
  BY DEF OnInvalidNonce, OnExpired, procVars
<1>3. Events(s)' = Events(s)
  BY <1>2, EventsStep DEF PaidInv
<1>4. attempt[s] \in Nat /\ Events(s) \in Nat /\ attempt[s] + 1 <= Events(s)
  BY <1>1, PaidTypes DEF Paid
<1>5. ASSUME NEW r, Return(s, r), UNCHANGED attempt PROVE Paid(s)'
  BY <1>3, <1>4, <1>5 DEF Paid, Return, HasTx, PaidInv, TypeInv, TypeOK
<1>6. ASSUME Resign(s), Behind(s)' => attempt[s] + 2 <= Events(s) PROVE Paid(s)'
  <2>1. attempt'[s] = attempt[s] + 1 /\ pc'[s] = "claim"
    BY <1>6 DEF Resign, Goto, PaidInv, TypeInv, TypeOK
  <2> QED
    BY <1>3, <1>4, <1>6, <2>1 DEF Paid, HasTx
<1>7. /\ SignerOf[s] \in Signers /\ key[s] = OnlyKey(s)
      /\ tx[s] \in built /\ tx[s].slot = <<Url[s], OnlyKey(s)>> /\ tx[s].nonce \in Int
      /\ chain[OnlyKey(s)] \in Int /\ nonces[<<Url[s], OnlyKey(s)>>] \in Int
  BY <1>1, PaidTypes
<1>8. CASE OnInvalidNonce(s)
  <2>1. CASE akNonce' = [akNonce EXCEPT ![s] = chain[key[s]]] /\ Resign(s)
    <3>1. akNonce'[s] = chain[OnlyKey(s)] /\ akNonce'[s] # None
      <4>1. OnlyKey(s) \in Keys /\ chain[OnlyKey(s)] \in Nonces
        BY <1>7, PaidTypes DEF PaidInv, TypeInv, TypeOK
      <4>2. None \notin Nonces
        BY ConstantsAssumption DEF Nonces, None
      <4> QED
        BY <1>7, <2>1, <4>1, <4>2 DEF PaidInv, TypeInv, TypeOK
    <3>2. ~Behind(s)'
      BY <1>2, <1>7, <3>1 DEF Behind, chainVars, OnlyKey
    <3> QED
      BY <1>6, <2>1, <3>2
  <2>2. CASE Return(s, "invalid_nonce") /\ UNCHANGED attempt
    BY <1>5, <2>2
  <2> QED
    BY <1>8, <2>1, <2>2 DEF OnInvalidNonce
<1>9. CASE OnExpired(s)
  <2>1. CASE Resign(s)
    <3>1. ASSUME Behind(s)' PROVE attempt[s] + 2 <= Events(s)
      <4>1. chain[OnlyKey(s)] > nonces[<<Url[s], OnlyKey(s)>>]
        BY <1>2, <3>1 DEF Behind, chainVars, OnlyKey
      <4>2. tx[s].nonce <= nonces[<<Url[s], OnlyKey(s)>>]
        BY <1>7 DEF PaidInv, NonceInv, CacheBound
      <4>3. tx[s].nonce <= chain[OnlyKey(s)]
        BY <1>7, <4>1, <4>2
      <4> QED
        BY <1>1, <1>9, <4>3 DEF Paid, OnExpired
    <3> QED
      BY <1>6, <2>1, <3>1
  <2>2. CASE Return(s, "expired") /\ UNCHANGED attempt
    BY <1>5, <2>2
  <2> QED
    BY <1>9, <2>1, <2>2 DEF OnExpired
<1> QED
  BY <1>8, <1>9

\* The other steps of s leave its attempt alone.
LEMMA PaidOther ==
    ASSUME OneKeyEach, PaidInv, NEW s \in Sends, SendStep(s),
           ~TakeNonce(s), ~OnInvalidNonce(s), ~OnExpired(s)
    PROVE  Paid(s)'
<1>1. Paid(s) /\ TypeOK /\ UNCHANGED <<tx, chainVars>>
  BY SendStepFrame, OnlyTakeNonceBuilds DEF PaidInv, TypeInv
<1>2. Events(s)' = Events(s)
  BY <1>1, EventsStep DEF PaidInv
<1>3. Dead(tx[s])' <=> Dead(tx[s])
  BY <1>1 DEF Dead, Executed, chainVars
<1>4. ASSUME NEW r, Return(s, r), UNCHANGED attempt PROVE Paid(s)'
  BY <1>1, <1>2, <1>4 DEF Paid, Return, HasTx, TypeOK
<1>5. ASSUME HasTx(s), Goto(s, "held") \/ Goto(s, "wait"), UNCHANGED <<attempt, key>> PROVE Paid(s)'
  BY <1>1, <1>2, <1>3, <1>5 DEF Paid, Goto, HasTx, TypeOK, OnlyKey, chainVars
<1>6. CASE Start(s)
  <2>1. CASE Goto(s, "claim") /\ UNCHANGED <<attempt, akNonce, nonces>>
    <3>1. Behind(s)' <=> Behind(s)
      BY <1>1, <1>6, <2>1 DEF Behind, Goto, OnlyKey, chainVars, TypeOK, Start
    <3> QED
      BY <1>1, <1>2, <1>6, <2>1, <3>1 DEF Paid, Goto, HasTx, TypeOK, Start
  <2>2. CASE ~Goto(s, "claim")
    BY <1>4, <1>6, <2>2 DEF Start
  <2> QED
    BY <1>6, <2>1, <2>2 DEF Start, procVars
<1>7. CASE ClaimKey(s)
  <2>1. SignerOf[s] \in Signers
    BY <1>7 DEF ClaimKey, PaidInv, TypeInv, Control
  <2>2. public_key(SignerOf[s]) = OnlyKey(s)
    <3>1. Len(KeysOf[SignerOf[s]]) = 1 /\ counter[SignerOf[s]] \in Nat
      BY <1>1, <2>1 DEF OneKeyEach, TypeOK
    <3>2. (counter[SignerOf[s]] % 1) + 1 = 1
      BY <3>1
    <3> QED
      BY <3>1, <3>2 DEF public_key, OnlyKey
  <2>3. pc[s] = "claim" /\ pc'[s] = "view" /\ key'[s] = OnlyKey(s)
        /\ UNCHANGED <<attempt, akNonce, nonces>>
    BY <1>1, <1>7, <2>2 DEF ClaimKey, Goto, TypeOK
  <2>4. Behind(s)' <=> Behind(s)
    BY <1>1, <2>3 DEF Behind, OnlyKey, chainVars
  <2> QED
    BY <1>1, <1>2, <2>1, <2>3, <2>4 DEF Paid, HasTx, OnlyKey
<1>8. CASE ViewAccessKey(s)
  <2>1. CASE view' = [view EXCEPT ![s] = final[key[s]]] /\ Goto(s, "nonce")
    <3>1. /\ pc[s] = "view" /\ pc'[s] = "nonce" /\ key'[s] = OnlyKey(s) /\ key[s] = OnlyKey(s)
          /\ SignerOf[s] \in Signers /\ view'[s] = final[OnlyKey(s)]
          /\ UNCHANGED <<attempt, akNonce, nonces>>
      BY <1>1, <1>8, <2>1
      DEF ViewAccessKey, Goto, TypeOK, Paid, PaidInv, TypeInv, Control, procVars
    <3>2. Behind(s)' <=> Behind(s)
      BY <1>1, <3>1 DEF Behind, OnlyKey, chainVars
    <3> QED
      BY <1>1, <1>2, <3>1, <3>2 DEF Paid, HasTx, OnlyKey
  <2>2. CASE Return(s, "view_failed")
    BY <1>4, <1>8, <2>2 DEF ViewAccessKey
  <2> QED
    BY <1>8, <2>1, <2>2 DEF ViewAccessKey
<1>9. CASE TakeNoncePanics(s)
  BY <1>4, <1>9 DEF TakeNoncePanics
<1>10. CASE Sign(s)
  BY <1>4, <1>5, <1>10 DEF Sign, Submit, HasTx
<1>11. CASE OnAccepted(s)
  BY <1>4, <1>11 DEF OnAccepted
<1>12. CASE OnRuntimeInvalidNonce(s)
  BY <1>4, <1>12 DEF OnRuntimeInvalidNonce
<1>13. CASE OnCongested(s)
  BY <1>4, <1>5, <1>13 DEF OnCongested, HasTx
<1>14. CASE OnTransient(s)
  BY <1>4, <1>5, <1>14 DEF OnTransient, HasTx
<1>15. CASE OnFatal(s)
  BY <1>4, <1>15 DEF OnFatal
<1>16. CASE SendSigned(s)
  BY <1>5, <1>16 DEF SendSigned, Submit, HasTx
<1>17. CASE DropFuture(s)
  BY <1>4, <1>17 DEF DropFuture
<1> QED
  BY <1>6, <1>7, <1>8, <1>9, <1>10, <1>11, <1>12, <1>13, <1>14, <1>15, <1>16, <1>17
  DEF SendStep, Progress

\* The entries of the map never decrease.
LEMMA NoncesGrow ==
    ASSUME TypeInv, TypeInv', NEW s \in Sends, SendStep(s), NEW l \in Slots
    PROVE  nonces'[l] \in Int /\ nonces'[l] >= nonces[l]
<1>1. nonces[l] \in Nonces \union {None} /\ nonces'[l] \in Nonces \union {None}
  BY DEF TypeInv, TypeOK
<1>2. \A x \in Nonces \union {None} : x \in Int /\ x >= None
  BY ConstantsAssumption DEF Nonces, None
<1>3. CASE TakeNonce(s)
  <2>1. PICK n \in Nonces : /\ Slot(s) \in Slots /\ n > nonces[Slot(s)]
                            /\ nonces' = [nonces EXCEPT ![Slot(s)] = n]
    BY <1>3, TakeNonceFacts
  <2> QED
    BY <1>1, <1>2, <2>1 DEF TypeInv, TypeOK
<1>4. CASE TakeNoncePanics(s)
  BY <1>1, <1>2, <1>4, PanicFacts
<1>5. CASE ~TakeNonce(s) /\ ~TakeNoncePanics(s)
  BY <1>1, <1>2, <1>5, OtherStepsKeepNonces
<1> QED
  BY <1>3, <1>4, <1>5

\* Every step keeps the rejections paid for.
LEMMA PaidStep ==
    ASSUME OneKeyEach, PaidInv, [Next]_vars
    PROVE  PaidInv'
<1>1. TypeInv' /\ TxInv' /\ NonceInv' /\ FiniteInv'
  BY TypeStep, TxStep, NonceStep, FiniteStep DEF PaidInv
<1>2. ASSUME NEW s \in Sends, SendStep(s), NEW q \in Sends PROVE Paid(q)'
  <2>1. CASE q = s
    BY <1>2, <2>1, PaidTakeNonce, PaidRejected, PaidOther
  <2>2. CASE q # s
    <3>1. TypeInv /\ TypeOK
      BY DEF PaidInv, TypeInv
    <3>2. UNCHANGED chainVars /\ \A l \in Slots : nonces'[l] \in Int /\ nonces'[l] >= nonces[l]
      BY <1>1, <1>2, <3>1, SendStepFrame, NoncesGrow
    <3>3. /\ pc'[q] = pc[q] /\ attempt'[q] = attempt[q] /\ key'[q] = key[q]
          /\ view'[q] = view[q] /\ akNonce'[q] = akNonce[q] /\ tx'[q] = tx[q]
      BY <1>2, <2>2, <3>1, SendStepFrame
    <3> QED
      BY <3>2, <3>3, PaidFrame
  <2> QED
    BY <2>1, <2>2
<1>3. ASSUME ChainStep, NEW q \in Sends PROVE Paid(q)'
  BY <1>3, PaidChainStep
<1>4. ASSUME UNCHANGED vars, NEW q \in Sends PROVE Paid(q)'
  <2>1. /\ UNCHANGED <<chainVars, pc, attempt, key, view, akNonce, tx>>
        /\ \A l \in Slots : nonces'[l] \in Int /\ nonces'[l] >= nonces[l]
    <3>1. \A l \in Slots : nonces[l] \in Int
      BY ConstantsAssumption DEF PaidInv, TypeInv, TypeOK, Nonces, None
    <3> QED
      BY <1>4, <3>1 DEF vars, sendVars, procVars
  <2> QED
    BY <2>1, PaidFrame
<1> QED
  BY <1>1, <1>2, <1>3, <1>4 DEF PaidInv, Next, SendStep, Terminated

\* For any number of futures, urls and retries, when every signer has one
\* key: a future signs again only as often as something overtook it or
\* expired, so concurrent futures do not use up each other's retries without
\* one of them making progress.
THEOREM RetriesHaveACause ==
    ASSUME OneKeyEach
    PROVE  Spec => []RetriesArePaidFor
<1>1. Init => PaidInv
  <2> SUFFICES ASSUME Init PROVE PaidInv
    OBVIOUS
  <2>1. TypeInv /\ TxInv
    BY TypeInit, TxInit
  <2>2. NonceInv
    BY DEF Init, NonceInv, CacheBound, SlotUnique
  <2>3. FiniteInv
    BY FS_EmptySet DEF Init, FiniteInv
  <2>4. ASSUME NEW s \in Sends PROVE Paid(s)
    <3>1. attempt[s] = 0 /\ pc[s] = "start" /\ akNonce[s] = None
      BY DEF Init
    <3>2. Events(s) \in Nat
      BY <2>1, <2>3, EventsType
    <3>3. SignerOf[s] \in Signers => ~Behind(s)
      <4> SUFFICES ASSUME SignerOf[s] \in Signers, Behind(s) PROVE FALSE
        OBVIOUS
      <4>1. KeysOf[SignerOf[s]] \in Seq(Keys) /\ Len(KeysOf[SignerOf[s]]) > 0
        BY ConstantsAssumption
      <4>2. OnlyKey(s) \in Keys
        BY <4>1 DEF OnlyKey
      <4>3. chain[OnlyKey(s)] \in Int
        BY <2>1, <4>2, ConstantsAssumption DEF TypeInv, TypeOK, Nonces
      <4>4. chain[OnlyKey(s)] > chain[OnlyKey(s)]
        BY <3>1 DEF Behind, Init
      <4> QED
        BY <4>3, <4>4
    <3> QED
      BY <3>1, <3>2, <3>3 DEF Paid, HasTx
  <2> QED
    BY <2>1, <2>2, <2>3, <2>4 DEF PaidInv
<1>2. PaidInv => RetriesArePaidFor
  BY DEF PaidInv, Paid, Events, Others, Lapsed, RetriesArePaidFor
<1>3. PaidInv /\ [Next]_vars => PaidInv'
  BY PaidStep
<1> QED
  BY <1>1, <1>2, <1>3, PTL DEF Spec
=============================================================================
