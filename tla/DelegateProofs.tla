--------------------------- MODULE DelegateProofs ----------------------------
(***************************************************************************)
(* Delegate for any number of calls, users, keys, strangers' payloads,     *)
(* relays and any width of a nonce.                                        *)
(*                                                                         *)
(* What the chain executes is fixed when a payload reaches the wire: the   *)
(* call has returned and touches neither its key nor its nonce any more    *)
(* (Published).  So a payload that was executed has a nonce its key has    *)
(* passed (Spent), and it can pass no check again.                         *)
(***************************************************************************)
EXTENDS Delegate, FiniteSetTheorems, WellFoundedInduction, TLAPS

\* What a call has filled in, by the await it has reached.
Filled(d) ==
    /\ pc[d] \in {"view", "status", "sign"} =>
          /\ SenderOf[d] \in Senders /\ key[d] \in Keys
          /\ \A i \in DOMAIN Asked[d] : ~is_delegate(Asked[d][i])
    /\ pc[d] \in {"status", "sign"} => nonce[d] # None
    /\ nonce[d] # None => key[d] \in Keys
    /\ pc[d] = "done" <=> result[d] # "pending"

\* What is on the wire is a stranger's or comes from a call that returned.
Published ==
    \A p \in wire : p \in Futures => result[p] = "ok" /\ SenderOf[p] \in Senders

\* A relayed transaction: payloads from the wire, addressed to the last one's user.
Relayed(t) ==
    /\ t.delegates \in Seq(wire) /\ Len(t.delegates) > 0
    /\ t.receiver = SenderOf[t.delegates[Len(t.delegates)]]
    /\ \A i \in DOMAIN t.delegates : Decodes(t.delegates[i])

TypeInv ==
    /\ TypeOK
    /\ \A d \in Futures : Filled(d)
    /\ Published
    /\ \A t \in relayed : Relayed(t)

\* An executed payload was on the wire, once, and its key has passed its nonce.
Spent ==
    \A p \in Payloads :
        /\ applied[p] \in {0, 1}
        /\ applied[p] = 1 => p \in wire /\ nonce[p] <= head[KeyOf(p)]

\* A nonce that was fetched is above its key's until the key is used.
FetchedInv ==
    \A d \in Futures :
        NonceOption[d] = None /\ nonce[d] # None /\ taken[d] = {} => nonce[d] > head[key[d]]

\* A payload executed with a fetched nonce or a later one came after the view.
OvertakenInv ==
    \A d \in Futures :
        NonceOption[d] = None /\ nonce[d] # None =>
            \A p \in Payloads :
                applied[p] = 1 /\ KeyOf(p) = key[d] /\ nonce[p] >= nonce[d] => nonce[p] \in taken[d]

\* The calls of a's signer that have a key.
Claimed(a) == {d \in Futures : SenderOf[d] = a /\ key[d] # NoSigner}

\* In its first round a signer with distinct keys gives every call its own.
RotationInv ==
    /\ \A d \in Futures : pc[d] = "start" => key[d] = NoSigner
    /\ \A d \in Futures : key[d] # NoSigner => SenderOf[d] \in Senders
    /\ \A a \in Senders :
          counter[a] <= Len(KeysOf[a]) /\ IsInjective(KeysOf[a]) =>
              /\ \A d \in Claimed(a) : \E i \in 1 .. counter[a] : key[d] = KeysOf[a][i]
              /\ \A d, e \in Claimed(a) : d # e => key[d] # key[e]

\* A limit that was not given is above the height it was computed from.
LimitInv ==
    OverflowChecks =>
        \A d \in Futures : HeightOption[d] = None => max_block_height[d] >= seen[d]
-----------------------------------------------------------------------------
(* Numbers.  A proof by induction on n takes the least counterexample with *)
(* LeastNat and shows that there is a smaller one.                         *)

\* Every non-empty set of naturals has a least element.
LEMMA LeastNat ==
    ASSUME NEW T, T \subseteq Nat, T # {}
    PROVE  \E x \in T : \A y \in T : x <= y
<1>1. PICK x \in T : \A y \in T : ~(<<y, x>> \in OpToRel(<, Nat))
  BY NatLessThanWellFounded, WFMin, Zenon
<1>2. ASSUME NEW y \in T PROVE x <= y
  <2>1. ~(<<y, x>> \in OpToRel(<, Nat))
    BY <1>1
  <2>2. <<y, x>> \in Nat \X Nat
    OBVIOUS
  <2>3. ~(y < x)
    BY <2>1, <2>2 DEF OpToRel
  <2> QED
    BY <2>3
<1> QED
  BY <1>2

\* Every non-empty set of naturals with a bound has a greatest element.
LEMMA GreatestNat ==
    ASSUME NEW b \in Nat, NEW T, T \subseteq 0 .. b, T # {}
    PROVE  \E x \in T : \A y \in T : y <= x
<1> DEFINE U == {b - x : x \in T}
<1>1. U \subseteq Nat /\ U # {}
  <2>1. \A x \in T : x \in 0 .. b /\ b - x \in Nat
    OBVIOUS
  <2> QED
    BY <2>1
<1>2. PICK u \in U : \A v \in U : u <= v
  BY <1>1, LeastNat
<1>3. PICK x \in T : u = b - x
  BY <1>2
<1>4. ASSUME NEW y \in T PROVE y <= x
  <2>1. b - y \in U
    OBVIOUS
  <2> QED
    BY <1>2, <1>3, <2>1, y \in 0 .. b, x \in 0 .. b
<1> QED
  BY <1>4

\* Max of such a set is its greatest element.
LEMMA MaxFacts ==
    ASSUME NEW b \in Nat, NEW T, T \subseteq 0 .. b, T # {}
    PROVE  Max(T) \in T /\ \A y \in T : y <= Max(T)
<1>1. \E x \in T : \A y \in T : x >= y
  BY GreatestNat
<1> QED
  BY <1>1 DEF Max

\* Arithmetic that does not overflow is exact.
LEMMA ModSmall ==
    ASSUME NEW m \in Nat, NEW n \in Nat, n < m
    PROVE  n % m = n
  OBVIOUS
-----------------------------------------------------------------------------
(* The operators. *)

\* The conversion of a list without delegate actions loses none.
LEMMA KeepsAll ==
    ASSUME NEW S, NEW s \in Seq(S), \A i \in DOMAIN s : ~is_delegate(s[i])
    PROVE  NonDelegateActions(s) = s
<1> DEFINE Def(f) ==
      [i \in 0 .. Len(s) |->
          IF i = 0 THEN <<>>
          ELSE IF is_delegate(s[i]) THEN f[i - 1]
          ELSE Append(f[i - 1], s[i])]
<1> DEFINE kept == CHOOSE f : f = Def(f)
<1> DEFINE prefix == [i \in 0 .. Len(s) |-> SubSeq(s, 1, i)]
<1>1. NonDelegateActions(s) = kept[Len(s)]
  BY DEF NonDelegateActions
<1>2. \A i \in 1 .. Len(s) : Append(SubSeq(s, 1, i - 1), s[i]) = SubSeq(s, 1, i)
  OBVIOUS
<1>3. prefix = Def(prefix)
  <2>1. \A i \in 0 .. Len(s) : prefix[i] = Def(prefix)[i]
    BY <1>2
  <2> QED
    BY <2>1
<1>4. kept = Def(kept)
  <2> HIDE DEF Def, prefix
  <2> QED
    BY <1>3
<1> HIDE DEF kept
<1> DEFINE Bad == {i \in 0 .. Len(s) : kept[i] # SubSeq(s, 1, i)}
<1>5. Bad = {}
  <2>1. SUFFICES ASSUME Bad # {} PROVE FALSE
    OBVIOUS
  <2>2. PICK i \in Bad : \A j \in Bad : i <= j
    BY <2>1, LeastNat, Bad \subseteq Nat
  <2>3. CASE i = 0
    BY <1>4, <2>2, <2>3
  <2>4. CASE i # 0
    <3>1. i \in 1 .. Len(s) /\ i - 1 \in 0 .. Len(s)
      BY <2>2, <2>4
    <3>2. kept[i - 1] = SubSeq(s, 1, i - 1)
      BY <2>2, <3>1
    <3>3. kept[i] = Append(kept[i - 1], s[i])
      <4>1. kept[i] = Def(kept)[i]
        <5> HIDE DEF Def
        <5> QED
          BY <1>4
      <4>2. ~is_delegate(s[i])
        BY <3>1
      <4> QED
        BY <4>1, <4>2, <3>1
    <3> QED
      BY <1>2, <2>2, <3>1, <3>2, <3>3
  <2> QED
    BY <2>3, <2>4
<1>6. kept[Len(s)] = SubSeq(s, 1, Len(s))
  BY <1>5
<1> QED
  BY <1>1, <1>6

\* The reader lets no delegate action in.
LEMMA ReaderRefuses ==
    ASSUME NEW action, action.kind \in Kinds, NonDelegateReads(action)
    PROVE  ~is_delegate(action)
<1>1. ASSUME action.kind = "Delegate" PROVE FALSE
  <2>1. \A i \in DOMAIN Variants : Variants[i] = "Delegate" <=> i = 9
    BY DEF Variants
  <2>2. Discriminant("Delegate") = 8
    BY <2>1, 9 \in DOMAIN Variants DEF Discriminant, Variants
  <2> QED
    BY <1>1, <2>2 DEF NonDelegateReads, DELEGATE_VARIANT_DISCRIMINANTS
<1>2. ASSUME action.kind = "DelegateV2" PROVE FALSE
  <2>1. \A i \in DOMAIN Variants : Variants[i] = "DelegateV2" <=> i = 15
    BY DEF Variants
  <2>2. Discriminant("DelegateV2") = 14
    BY <2>1, 15 \in DOMAIN Variants DEF Discriminant, Variants
  <2> QED
    BY <1>2, <2>2 DEF NonDelegateReads, DELEGATE_VARIANT_DISCRIMINANTS
<1> QED
  BY <1>1, <1>2 DEF is_delegate

\* A signer's keys.
LEMMA KeysFacts ==
    ASSUME NEW a \in Senders
    PROVE  /\ Len(KeysOf[a]) \in Nat \ {0}
           /\ \A i \in 1 .. Len(KeysOf[a]) : KeysOf[a][i] \in Keys
  BY NamesAssumption

\* A payload on the wire belongs to a key.
LEMMA KeyOfType ==
    ASSUME TypeInv, NEW p \in wire
    PROVE  KeyOf(p) \in Keys
<1>1. CASE p \in Futures
  BY <1>1 DEF TypeInv, TypeOK, Published, KeyOf
<1>2. CASE p \notin Futures
  <2>1. p \in Strangers
    BY <1>2 DEF TypeInv, TypeOK, Payloads
  <2> QED
    BY <1>2, <2>1, KeysFacts, NamesAssumption DEF KeyOf
<1> QED
  BY <1>1, <1>2

\* The nonce of a key after a transaction: not below any nonce it used, and
\* unchanged when it used none.
LEMMA NewHead ==
    ASSUME TypeInv, NEW t \in relayed, NEW k \in Keys
    PROVE  LET m == Max({head[k]} \cup NoncesOf(t, k))
           IN  /\ m \in Nat
               /\ head[k] <= m
               /\ \A n \in NoncesOf(t, k) : n \in Nat /\ n <= m
               /\ NoncesOf(t, k) = {} => m = head[k]
<1> DEFINE S == {head[k]} \cup NoncesOf(t, k)
<1>1. head[k] \in Nat /\ U64 \in Nat
  BY NumbersAssumption DEF TypeInv, TypeOK
<1>2. NoncesOf(t, k) \subseteq 0 .. U64
  <2>1. t.delegates \in Seq(Payloads) /\ nonce \in [Payloads -> 0 .. U64]
    BY DEF TypeInv, TypeOK
  <2>2. \A i \in DOMAIN t.delegates : t.delegates[i] \in Payloads
    BY <2>1
  <2> QED
    BY <2>1, <2>2 DEF NoncesOf
<1>3. S \subseteq 0 .. head[k] + U64 /\ head[k] + U64 \in Nat /\ S # {}
  BY <1>1, <1>2
<1>4. Max(S) \in S /\ \A y \in S : y <= Max(S)
  BY <1>3, MaxFacts
<1>5. \A n \in NoncesOf(t, k) : n \in Nat /\ n <= Max(S)
  BY <1>1, <1>2, <1>4
<1>6. NoncesOf(t, k) = {} => Max(S) = head[k]
  BY <1>4
<1> QED
  BY <1>1, <1>3, <1>4, <1>5, <1>6

\* A call that has not returned is not on the wire, and so in no transaction.
LEMMA OffWire ==
    ASSUME TypeInv, NEW d \in Futures, pc[d] # "done"
    PROVE  /\ d \notin wire
           /\ \A t \in relayed : \A i \in DOMAIN t.delegates : t.delegates[i] # d
<1>1. d \notin wire
  BY DEF TypeInv, Published, Filled
<1> QED
  BY <1>1 DEF TypeInv, Relayed
-----------------------------------------------------------------------------
(* The types. *)

\* Starting leaves every field typed.
LEMMA TypeStart ==
    ASSUME TypeInv, NEW d \in Futures, Start(d)
    PROVE  TypeInv'
<1> USE NumbersAssumption DEF TypeInv, TypeOK, None, U64s
<1>1. UNCHANGED <<actions, seen, wire, relayed, submitted, chainVars, taken>> /\ pc[d] = "start"
  BY DEF Start, ClaimKey
<1>2. CASE SenderOf[d] \in Senders /\ pc' = [pc EXCEPT ![d] = NextAwait(NonceOption[d], HeightOption[d])]
           /\ key' = [key EXCEPT ![d] = KeysOf[SenderOf[d]][(counter[SenderOf[d]] % Len(KeysOf[SenderOf[d]])) + 1]]
           /\ counter' = [counter EXCEPT ![SenderOf[d]] = @ + 1]
           /\ nonce' = [nonce EXCEPT ![d] = NonceOption[d]]
           /\ max_block_height' = [max_block_height EXCEPT ![d] = HeightOption[d]]
           /\ result' = result
           /\ \A i \in DOMAIN Asked[d] : ~is_delegate(Asked[d][i])
  <2> DEFINE keys == KeysOf[SenderOf[d]]
  <2>1. (counter[SenderOf[d]] % Len(keys)) + 1 \in 1 .. Len(keys)
    <3>1. counter[SenderOf[d]] \in Nat /\ Len(keys) \in Nat \ {0}
      BY <1>2, KeysFacts
    <3> HIDE DEF keys
    <3> QED
      BY <3>1
  <2>2. key' \in [Futures -> Keys \cup {NoSigner}] /\ key'[d] \in Keys
    BY <1>2, <2>1, KeysFacts
  <2>3. NextAwait(NonceOption[d], HeightOption[d]) \in {"view", "status", "sign"}
        /\ (NextAwait(NonceOption[d], HeightOption[d]) # "view" => NonceOption[d] # None)
    BY DEF NextAwait
  <2>4. TypeOK'
    <3>1. pc' \in [Futures -> {"start", "view", "status", "sign", "done"}]
      BY <1>2, <2>3
    <3>2. nonce' \in [Payloads -> 0 .. U64] /\ max_block_height' \in [Payloads -> 0 .. U64]
      BY <1>2
    <3>3. counter' \in [Senders -> Nat]
      BY <1>2
    <3>4. \A f \in Futures : result'[f] = "ok" => pc'[f] = "done" /\ nonce'[f] # None /\ key'[f] \in Keys
      BY <1>1, <1>2 DEF Payloads
    <3> QED
      BY <1>1, <1>2, <2>2, <3>1, <3>2, <3>3, <3>4 DEF chainVars
  <2>5. \A f \in Futures : Filled(f)'
    BY <1>1, <1>2, <2>2, <2>3 DEF Filled, Payloads
  <2> QED
    BY <1>1, <1>2, <2>4, <2>5 DEF Published, Relayed, Decodes
<1>3. CASE \E r \in Results \ {"pending", "ok"} : Return(d, r) /\ UNCHANGED <<key, nonce, max_block_height, counter>>
  <2>1. PICK r \in Results \ {"pending", "ok"} : Return(d, r) /\ UNCHANGED <<key, nonce, max_block_height, counter>>
    BY <1>3
  <2>4. TypeOK'
    BY <1>1, <2>1 DEF chainVars, Filled, Results, Return
  <2>5. \A f \in Futures : Filled(f)'
    BY <1>1, <2>1 DEF Filled, Return, Results
  <2>6. Published'
    BY <1>1, <2>1, OffWire DEF Published, Return
  <2> QED
    BY <1>1, <2>1, <2>4, <2>5, <2>6 DEF Relayed, Decodes
<1>4. Refused(d) \in Results \ {"pending", "ok"}
  BY DEF Refused, Results
<1>5. SenderOf[d] # NoSigner => SenderOf[d] \in Senders
  BY NamesAssumption DEF Payloads
<1> QED
  BY <1>2, <1>3, <1>4, <1>5 DEF Start, ClaimKey

\* The nonce of the answer is a u64, or the addition panics and is another action.
LEMMA TypeViewAccessKey ==
    ASSUME TypeInv, NEW d \in Futures, ViewAccessKey(d)
    PROVE  TypeInv'
<1> USE NumbersAssumption DEF TypeInv, TypeOK, None, U64s
<1> DEFINE n == Plus(head[key[d]], 1)
<1>1. n \in 0 .. U64 - 1 /\ n \in 0 .. U64 /\ key[d] \in Keys
  <2>1. key[d] \in Keys
    BY DEF ViewAccessKey, Viewed, Filled
  <2>2. head[key[d]] \in Nat
    BY <2>1
  <2> QED
    BY <2>1, <2>2 DEF Plus
<1>2. NextAwait(n, max_block_height[d]) \in {"status", "sign"}
  BY <1>1 DEF NextAwait
<1> HIDE DEF n
<1>3. /\ pc[d] = "view" /\ nonce' = [nonce EXCEPT ![d] = n]
      /\ pc' = [pc EXCEPT ![d] = NextAwait(n, max_block_height[d])]
      /\ taken' = [taken EXCEPT ![d] = {}]
      /\ UNCHANGED <<key, max_block_height, actions, result, counter, seen, wire, relayed, submitted, chainVars>>
  BY DEF ViewAccessKey, Viewed, n
<1>4. TypeOK'
  <2>1. pc' \in [Futures -> {"start", "view", "status", "sign", "done"}]
    BY <1>2, <1>3
  <2>2. nonce' \in [Payloads -> 0 .. U64]
    BY <1>1, <1>3
  <2>3. \A f \in Futures : result'[f] = "ok" => pc'[f] = "done" /\ nonce'[f] # None /\ key'[f] \in Keys
    BY <1>3 DEF Filled, Payloads
  <2> QED
    BY <1>3, <2>1, <2>2, <2>3 DEF chainVars
<1>5. \A f \in Futures : Filled(f)'
  <2> SUFFICES ASSUME NEW f \in Futures PROVE Filled(f)'
    OBVIOUS
  <2>1. CASE f = d
    <3>1. pc'[d] \in {"status", "sign"} /\ nonce'[d] = n /\ n # None /\ key'[d] = key[d] /\ result' = result
      BY <1>1, <1>2, <1>3 DEF Payloads
    <3> QED
      BY <1>1, <1>3, <2>1, <3>1 DEF Filled
  <2>2. CASE f # d
    BY <1>3, <2>2 DEF Filled, Payloads
  <2> QED
    BY <2>1, <2>2
<1> QED
  BY <1>3, <1>4, <1>5 DEF Published, Relayed, Decodes

\* The height limit is a u64.
LEMMA TypeStatus ==
    ASSUME TypeInv, NEW d \in Futures, Status(d)
    PROVE  TypeInv'
<1> USE NumbersAssumption DEF TypeInv, TypeOK, None, U64s
<1>1. Plus(height, Offset[d]) \in 0 .. U64 /\ height \in 0 .. U64
  BY DEF Plus
<1>2. TypeOK'
  <2>1. pc' \in [Futures -> {"start", "view", "status", "sign", "done"}]
    BY DEF Status, Limited
  <2>2. max_block_height' \in [Payloads -> 0 .. U64] /\ seen' \in [Futures -> 0 .. U64]
    BY <1>1 DEF Status, Limited
  <2>3. \A f \in Futures : result'[f] = "ok" => pc'[f] = "done" /\ nonce'[f] # None /\ key'[f] \in Keys
    BY DEF Status, Limited, Filled
  <2> QED
    BY <2>1, <2>2, <2>3 DEF Status, Limited, chainVars
<1>3. \A f \in Futures : Filled(f)'
  BY DEF Status, Limited, Filled
<1> QED
  BY <1>2, <1>3 DEF Status, Limited, Published, Relayed, Decodes

\* AdditionPanics and Fails: a call returns an error and leaves the rest alone.
LEMMA TypeReturn ==
    ASSUME TypeInv, NEW d \in Futures, AdditionPanics(d) \/ Fails(d)
    PROVE  TypeInv'
<1> USE DEF TypeInv, TypeOK
<1>1. PICK r \in Results \ {"pending", "ok"} : Return(d, r) /\ pc[d] \in {"view", "status", "sign"}
        /\ UNCHANGED <<key, nonce, max_block_height, actions, counter, seen, wire, relayed, submitted, chainVars, taken>>
  BY DEF AdditionPanics, Fails, Results
<1>2. TypeOK'
  BY <1>1 DEF chainVars, Filled, Results, Return
<1>3. \A f \in Futures : Filled(f)'
  BY <1>1 DEF Filled, Return, Results
<1>4. Published'
  BY <1>1, OffWire DEF Published, Return
<1> QED
  BY <1>1, <1>2, <1>3, <1>4 DEF Relayed, Decodes

\* A signed payload is one the chain can read.
LEMMA TypeSign ==
    ASSUME TypeInv, NEW d \in Futures, Sign(d)
    PROVE  TypeInv' /\ actions' = [actions EXCEPT ![d] = Asked[d]]
<1> USE DEF TypeInv, TypeOK
<1>1. pc[d] = "sign" /\ d \notin wire /\ Asked[d] \in Seq([kind : Kinds, arg : Nat])
  BY OffWire, NamesAssumption DEF Sign
<1>2. actions' = [actions EXCEPT ![d] = Asked[d]]
  <2>1. \A i \in DOMAIN Asked[d] : ~is_delegate(Asked[d][i])
    BY <1>1 DEF Filled
  <2>2. NonDelegateActions(Asked[d]) = Asked[d]
    BY <1>1, <2>1, KeepsAll
  <2> QED
    BY <2>2 DEF Sign
<1>3. TypeOK'
  BY <1>1, <1>2 DEF Sign, Return, chainVars, Filled, Results, Payloads
<1>4. \A f \in Futures : Filled(f)'
  BY <1>1 DEF Sign, Return, Filled
<1>5. Published'
  BY <1>1 DEF Sign, Return, Published, Filled
<1>6. ASSUME NEW t \in relayed PROVE Relayed(t)'
  <2>1. t.delegates \in Seq(wire') /\ Len(t.delegates) > 0
        /\ t.receiver = SenderOf[t.delegates[Len(t.delegates)]]
    BY DEF Relayed, Sign
  <2>2. \A i \in DOMAIN t.delegates : t.delegates[i] \in Payloads /\ t.delegates[i] # d
    <3>1. t.delegates \in Seq(Payloads)
      OBVIOUS
    <3>2. \A i \in DOMAIN t.delegates : t.delegates[i] # d
      BY <1>1, OffWire
    <3> QED
      BY <3>1, <3>2
  <2>3. \A i \in DOMAIN t.delegates : Decodes(t.delegates[i])'
    BY <1>2, <2>2 DEF Relayed, Decodes
  <2> QED
    BY <2>1, <2>3 DEF Relayed
<1> QED
  BY <1>2, <1>3, <1>4, <1>5, <1>6 DEF Sign

\* A relayer sends one or two payloads it has.
LEMMA TypeRelay ==
    ASSUME TypeInv, NEW begun \in Senders, NEW batch \in Batches, Relay(begun, batch)
    PROVE  TypeInv'
<1> USE DEF TypeInv, TypeOK
<1> DEFINE t == [id |-> submitted, receiver |-> receiver_id(begun, batch), delegates |-> batch]
<1>1. batch \in Seq(wire) /\ batch \in Seq(Payloads) /\ Len(batch) > 0
  <2>1. CASE batch \in {<<p>> : p \in wire}
    <3>1. PICK p \in wire : batch = <<p>>
      BY <2>1
    <3> QED
      BY <3>1
  <2>2. CASE batch \in {<<p, q>> : p, q \in wire}
    <3>1. PICK p \in wire, q \in wire : batch = <<p, q>>
      BY <2>2
    <3> QED
      BY <3>1
  <2> QED
    BY <2>1, <2>2 DEF Batches
<1>2. batch[Len(batch)] \in wire /\ batch[Len(batch)] \in Payloads
  BY <1>1
<1>3. SenderOf[batch[Len(batch)]] \in Senders
  BY <1>2, NamesAssumption DEF Published, Payloads
<1>4. TypeOK'
  <2>1. submitted' \in 0 .. MaxRelays
    BY NumbersAssumption DEF Relay
  <2>2. \A u \in relayed' : u.receiver \in Senders /\ u.delegates \in Seq(Payloads)
    BY <1>1, <1>3 DEF Relay, receiver_id
  <2> QED
    BY <2>1, <2>2 DEF Relay, futureVars, chainVars
<1>5. ASSUME NEW CONSTANT u, u = t PROVE Relayed(u)'
  BY <1>1, <1>5 DEF Relay, Relayed, receiver_id, Decodes, futureVars
<1>6. \A u \in relayed : Relayed(u)'
  BY DEF Relay, Relayed, Decodes, futureVars
<1>7. \A u \in relayed' : Relayed(u)'
  <2>1. relayed' = relayed \cup {t}
    BY DEF Relay
  <2> HIDE DEF t
  <2> QED
    BY <1>5, <1>6, <2>1
<1> QED
  BY <1>4, <1>7 DEF Relay, futureVars, Filled, Published

\* The chain moves nonces only to nonces of payloads.
LEMMA TypeApply ==
    ASSUME TypeInv, NEW t \in relayed, Apply(t)
    PROVE  TypeInv'
<1> USE DEF TypeInv, TypeOK
<1>1. t.delegates \in Seq(Payloads) /\ \A k : NoncesOf(t, k) \subseteq Nat
  <2>1. t.delegates \in Seq(Payloads) /\ nonce \in [Payloads -> 0 .. U64] /\ 0 .. U64 \subseteq Nat
    BY NumbersAssumption
  <2>2. \A i \in DOMAIN t.delegates : t.delegates[i] \in Payloads
    BY <2>1
  <2> QED
    BY <2>1, <2>2 DEF NoncesOf
<1>2. head' \in [Keys -> Nat]
  <2>1. \A k \in Keys : Max({head[k]} \cup NoncesOf(t, k)) \in Nat
    BY NewHead
  <2> QED
    BY <2>1 DEF Apply
<1>3. taken' \in [Futures -> SUBSET Nat]
  BY <1>1 DEF Apply
<1>4. applied' \in [Payloads -> Nat]
  <2>1. \A p \in Payloads : Cardinality({i \in DOMAIN t.delegates : t.delegates[i] = p}) \in Nat
    <3> SUFFICES ASSUME NEW p \in Payloads
                 PROVE  Cardinality({i \in DOMAIN t.delegates : t.delegates[i] = p}) \in Nat
      OBVIOUS
    <3>1. IsFiniteSet(1 .. Len(t.delegates)) /\ DOMAIN t.delegates = 1 .. Len(t.delegates)
      <4>1. Len(t.delegates) \in Nat /\ DOMAIN t.delegates = 1 .. Len(t.delegates)
        BY <1>1
      <4>2. \A n \in Nat : IsFiniteSet(1 .. n)
        BY FS_Interval
      <4> QED
        BY <4>1, <4>2
    <3>2. IsFiniteSet({i \in DOMAIN t.delegates : t.delegates[i] = p})
      BY <3>1, FS_Subset
    <3> QED
      BY <3>2, FS_CardinalityType
  <2>2. CASE UNCHANGED applied
    BY <2>2
  <2>3. CASE applied' = [p \in Payloads |->
                applied[p] + Cardinality({i \in DOMAIN t.delegates : t.delegates[i] = p})]
    <3> DEFINE times(p) == Cardinality({i \in DOMAIN t.delegates : t.delegates[i] = p})
    <3>1. \A p \in Payloads : times(p) \in Nat
      BY <2>1
    <3>2. applied' = [p \in Payloads |-> applied[p] + times(p)]
      BY <2>3
    <3> HIDE DEF times
    <3> QED
      BY <3>1, <3>2
  <2> QED
    BY <2>2, <2>3 DEF Apply
<1>5. UNCHANGED <<futureVars, wire, submitted, final, height, other>> /\ relayed' \subseteq relayed
  BY DEF Apply
<1>6. TypeOK'
  BY <1>2, <1>3, <1>4, <1>5 DEF futureVars
<1>7. \A u \in relayed' : Relayed(u)'
  BY <1>5 DEF Relayed, Decodes, futureVars
<1> QED
  BY <1>5, <1>6, <1>7 DEF futureVars, Filled, Published

\* OtherTx, NewBlock and Finalize: the chain moves without the library.
LEMMA TypeChain ==
    ASSUME TypeInv, (\E k \in Keys : OtherTx(k)) \/ NewBlock \/ Finalize
    PROVE  TypeInv'
<1> USE DEF TypeInv, TypeOK
<1>1. UNCHANGED <<futureVars, wire, relayed, submitted, applied>>
  BY DEF OtherTx, NewBlock, Finalize
<1>2. TypeOK'
  <2>1. head' \in [Keys -> Nat] /\ taken' \in [Futures -> SUBSET Nat] /\ other' \in 0 .. MaxOther
    <3>1. CASE \E k \in Keys : OtherTx(k)
      <4>1. PICK k \in Keys : OtherTx(k)
        BY <3>1
      <4>2. head' \in [Keys -> Nat] /\ other' \in 0 .. MaxOther
        BY <4>1, NumbersAssumption DEF OtherTx
      <4>3. taken' \in [Futures -> SUBSET Nat]
        BY <4>1, <4>2 DEF OtherTx
      <4> QED
        BY <4>2, <4>3
    <3> QED
      BY <3>1 DEF NewBlock, Finalize
  <2>2. final' \in [Keys -> Nat] /\ height' \in 0 .. MaxHeight
    BY NumbersAssumption DEF OtherTx, NewBlock, Finalize, U64s
  <2> QED
    BY <1>1, <2>1, <2>2 DEF futureVars
<1> QED
  BY <1>1, <1>2 DEF futureVars, Filled, Published, Relayed, Decodes

\* The initial states.
LEMMA TypeInit ==
    ASSUME Init
    PROVE  TypeInv
<1>1. TypeOK
  <2>1. nonce \in [Payloads -> 0 .. U64] /\ max_block_height \in [Payloads -> 0 .. U64]
    BY NumbersAssumption DEF Init, None, U64s
  <2>2. actions \in [Payloads -> Seq([kind : Kinds, arg : Nat])]
    <3>1. <<>> \in Seq([kind : Kinds, arg : Nat])
      OBVIOUS
    <3>2. \A x \in Strangers : StrangerAsked[x] \in Seq([kind : Kinds, arg : Nat])
      BY NamesAssumption
    <3> QED
      BY <3>1, <3>2 DEF Init
  <2>3. pc \in [Futures -> {"start", "view", "status", "sign", "done"}]
        /\ key \in [Futures -> Keys \cup {NoSigner}]
        /\ result \in [Futures -> Results]
        /\ \A d \in Futures : result[d] # "ok"
    BY DEF Init, Results
  <2>4. counter \in [Senders -> Nat] /\ head \in [Keys -> Nat] /\ final \in [Keys -> Nat]
        /\ applied \in [Payloads -> Nat]
    BY DEF Init
  <2>5. wire \subseteq Payloads /\ relayed = {} /\ submitted \in 0 .. MaxRelays
        /\ height \in 0 .. MaxHeight /\ other \in 0 .. MaxOther
    BY NumbersAssumption DEF Init, U64s, Payloads
  <2>6. seen \in [Futures -> 0 .. U64] /\ taken \in [Futures -> SUBSET Nat]
    BY NumbersAssumption DEF Init, None
  <2> QED
    BY <2>1, <2>2, <2>3, <2>4, <2>5, <2>6 DEF TypeOK
<1>2. \A d \in Futures : Filled(d)
  BY NamesAssumption DEF Init, Filled, Payloads
<1>3. Published /\ relayed = {}
  BY NamesAssumption DEF Init, Published
<1> QED
  BY <1>1, <1>2, <1>3 DEF TypeInv

\* Every step.
LEMMA TypeStep ==
    ASSUME TypeInv, [Next]_vars
    PROVE  TypeInv'
<1>1. ASSUME NEW d \in Futures, DelegateStep(d) PROVE TypeInv'
  BY <1>1, TypeStart, TypeViewAccessKey, TypeStatus, TypeReturn, TypeSign DEF DelegateStep
<1>2. ASSUME NEW begun \in Senders, NEW batch \in Batches, Relay(begun, batch) PROVE TypeInv'
  BY <1>2, TypeRelay
<1>3. CASE Chain
  BY <1>3, TypeApply, TypeChain DEF Chain
<1>4. CASE UNCHANGED vars
  BY <1>4 DEF TypeInv, TypeOK, Filled, Published, Relayed, Decodes, vars, futureVars, chainVars
<1> QED
  BY <1>1, <1>2, <1>3, <1>4 DEF Next

\* The type invariant, together with what each call has filled in by the
\* await it has reached and what a payload on the wire can be.
THEOREM TypeCorrect == Spec => [](TypeOK /\ TypeInv)
<1>1. Init => TypeInv
  BY TypeInit
<1>2. TypeInv /\ [Next]_vars => TypeInv'
  BY TypeStep
<1>3. TypeInv => TypeOK
  BY DEF TypeInv
<1> QED
  BY <1>1, <1>2, <1>3, PTL DEF Spec
-----------------------------------------------------------------------------
(* What is executed. *)

\* A payload on the wire keeps its key and its nonce.
LEMMA WireKeeps ==
    ASSUME TypeInv, [Next]_vars, NEW CONSTANT p \in wire
    PROVE  p \in wire' /\ nonce'[p] = nonce[p] /\ KeyOf(p)' = KeyOf(p)
<1>1. p \in Payloads /\ Futures \subseteq Payloads
      /\ nonce \in [Payloads -> 0 .. U64] /\ key \in [Futures -> Keys \cup {NoSigner}]
  BY DEF TypeInv, TypeOK, Payloads
<1>2. ASSUME NEW d \in Futures, DelegateStep(d)
      PROVE  p \in wire' /\ nonce'[p] = nonce[p] /\ KeyOf(p)' = KeyOf(p)
  <2>1. pc[d] # "done"
    BY <1>2 DEF DelegateStep, Start, ClaimKey, ViewAccessKey, Viewed, Status, Limited, AdditionPanics, Sign, Fails
  <2>2. p # d
    BY <2>1, OffWire
  <2>3. wire \subseteq wire' /\ nonce' \in {nonce} \cup {[nonce EXCEPT ![d] = n] : n \in 0 .. U64}
        /\ \/ key' = key
           \/ \E k \in Keys : key' = [key EXCEPT ![d] = k]
    <3>1. CASE Start(d)
      <4>1. TypeOK /\ TypeOK'
        BY <3>1, TypeStart DEF TypeInv
      <4>2. nonce' = nonce \/ nonce' = [nonce EXCEPT ![d] = NonceOption[d]]
        BY <3>1 DEF Start, ClaimKey
      <4>3. key' = key \/ (key' = [key EXCEPT ![d] = key'[d]] /\ key'[d] \in Keys)
        <5>1. CASE key' = key
          BY <5>1
        <5>2. CASE SenderOf[d] # NoSigner /\
                   key' = [key EXCEPT ![d] = KeysOf[SenderOf[d]][(counter[SenderOf[d]] % Len(KeysOf[SenderOf[d]])) + 1]]
          <6>1. SenderOf[d] \in Senders
            BY <5>2, <1>1, NamesAssumption
          <6>2. counter[SenderOf[d]] \in Nat /\ Len(KeysOf[SenderOf[d]]) \in Nat \ {0}
            BY <4>1, <6>1, KeysFacts DEF TypeOK
          <6>3. (counter[SenderOf[d]] % Len(KeysOf[SenderOf[d]])) + 1 \in 1 .. Len(KeysOf[SenderOf[d]])
            BY <6>2
          <6> QED
            BY <1>1, <5>2, <6>1, <6>3, KeysFacts
        <5> QED
          BY <3>1, <5>1, <5>2 DEF Start, ClaimKey
      <4>4. wire' = wire /\ NonceOption[d] \in 0 .. U64
        BY <3>1, NumbersAssumption DEF Start, ClaimKey
      <4> QED
        BY <4>2, <4>3, <4>4
    <3>2. CASE ViewAccessKey(d)
      <4>1. TypeOK'
        BY <3>2, TypeViewAccessKey DEF TypeInv
      <4>2. nonce' = [nonce EXCEPT ![d] = nonce'[d]] /\ nonce'[d] \in 0 .. U64
        BY <1>1, <3>2, <4>1 DEF ViewAccessKey, Viewed, TypeOK
      <4> QED
        BY <3>2, <4>2 DEF ViewAccessKey, Viewed
    <3> QED
      BY <1>2, <3>1, <3>2 DEF DelegateStep, Status, Limited, AdditionPanics, Sign, Fails
  <2> QED
    BY <1>1, <2>2, <2>3 DEF KeyOf
<1>3. ASSUME NEW begun \in Senders, NEW batch \in Batches, Relay(begun, batch)
      PROVE  p \in wire' /\ nonce'[p] = nonce[p] /\ KeyOf(p)' = KeyOf(p)
  BY <1>3 DEF Relay, futureVars, KeyOf
<1>4. CASE Chain
  BY <1>4 DEF Chain, Apply, OtherTx, NewBlock, Finalize, futureVars, KeyOf
<1>5. CASE UNCHANGED vars
  BY <1>5 DEF vars, futureVars, KeyOf
<1> QED
  BY <1>2, <1>3, <1>4, <1>5 DEF Next

\* The nonce of a key never falls.
LEMMA HeadGrows ==
    ASSUME TypeInv, [Next]_vars, NEW CONSTANT k \in Keys
    PROVE  head'[k] \in Nat /\ head[k] <= head'[k]
<1>1. head \in [Keys -> Nat]
  BY DEF TypeInv, TypeOK
<1>2. ASSUME NEW t \in relayed, Apply(t) PROVE head'[k] \in Nat /\ head[k] <= head'[k]
  <2>1. LET m == Max({head[k]} \cup NoncesOf(t, k)) IN m \in Nat /\ head[k] <= m
    BY NewHead
  <2>2. head'[k] = Max({head[k]} \cup NoncesOf(t, k)) \/ head' = head
    BY <1>2 DEF Apply
  <2> QED
    BY <1>1, <2>1, <2>2
<1>3. ASSUME NEW l \in Keys, OtherTx(l) PROVE head'[k] \in Nat /\ head[k] <= head'[k]
  BY <1>1, <1>3 DEF OtherTx
<1>4. CASE UNCHANGED head
  BY <1>1, <1>4
<1>5. ASSUME NEW d \in Futures, DelegateStep(d) PROVE UNCHANGED head
  BY <1>5 DEF DelegateStep, Start, ClaimKey, ViewAccessKey, Viewed, Status, Limited, AdditionPanics, Sign, Fails, chainVars
<1>6. ASSUME NEW begun \in Senders, NEW batch \in Batches, Relay(begun, batch) PROVE UNCHANGED head
  BY <1>6 DEF Relay, chainVars
<1>7. CASE Chain
  BY <1>2, <1>3, <1>4, <1>7 DEF Chain, NewBlock, Finalize
<1>8. CASE UNCHANGED vars
  BY <1>4, <1>8 DEF vars, chainVars
<1> QED
  BY <1>4, <1>5, <1>6, <1>7, <1>8 DEF Next

\* In a transaction that is executed every payload is new and comes once.
LEMMA ExecutesNew ==
    ASSUME TypeInv, Spent, NEW t \in relayed, Executable(t), NEW p \in Payloads
    PROVE  LET at == {i \in DOMAIN t.delegates : t.delegates[i] = p}
           IN  \/ at = {} /\ Cardinality(at) = 0
               \/ at # {} /\ Cardinality(at) = 1 /\ applied[p] = 0 /\ p \in wire
                  /\ nonce[p] > head[KeyOf(p)]
                  /\ nonce[p] \in NoncesOf(t, KeyOf(p))
<1> DEFINE at == {i \in DOMAIN t.delegates : t.delegates[i] = p}
<1>1. CASE at = {}
  BY <1>1, FS_EmptySet
<1>2. ASSUME NEW i \in at
      PROVE  at # {} /\ Cardinality(at) = 1 /\ applied[p] = 0 /\ p \in wire
             /\ nonce[p] > head[KeyOf(p)] /\ nonce[p] \in NoncesOf(t, KeyOf(p))
  <2>1. t.delegates \in Seq(wire) /\ p \in wire
    BY DEF TypeInv, Relayed
  <2>2. KeyOf(p) \in Keys
    BY <2>1, KeyOfType
  <2>3. nonce[p] \in Nat /\ head[KeyOf(p)] \in Nat
    BY <2>2, NumbersAssumption DEF TypeInv, TypeOK
  <2>4. nonce[p] > head[KeyOf(p)]
    BY DEF Executable, Valid
  <2>5. applied[p] = 0
    BY <2>3, <2>4 DEF Spent
  <2>6. ASSUME NEW j \in at PROVE j = i
    <3>1. i \in Nat /\ j \in Nat
      BY <2>1
    <3>2. ~(i < j) /\ ~(j < i)
      BY <2>3 DEF Executable
    <3> QED
      BY <3>1, <3>2
  <2>7. at = {i}
    BY <2>6
  <2>8. Cardinality(at) = 1
    BY <2>7, FS_Singleton
  <2>9. nonce[p] \in NoncesOf(t, KeyOf(p))
    BY DEF NoncesOf
  <2> QED
    BY <2>1, <2>4, <2>5, <2>8, <2>9
<1> QED
  BY <1>1, <1>2

\* Every step keeps executed payloads at or below the nonces of their keys.
LEMMA SpentStep ==
    ASSUME TypeInv, Spent, [Next]_vars
    PROVE  Spent'
<1>1. ASSUME NEW CONSTANT p \in wire
      PROVE  /\ p \in wire' /\ nonce'[p] = nonce[p] /\ KeyOf(p)' = KeyOf(p)
             /\ nonce[p] \in Nat /\ KeyOf(p) \in Keys
             /\ head[KeyOf(p)] \in Nat /\ head'[KeyOf(p)] \in Nat
             /\ head[KeyOf(p)] <= head'[KeyOf(p)]
  <2>1. KeyOf(p) \in Keys
    BY KeyOfType
  <2>2. nonce[p] \in Nat /\ head[KeyOf(p)] \in Nat
    BY <2>1, NumbersAssumption DEF TypeInv, TypeOK
  <2>3. head'[KeyOf(p)] \in Nat /\ head[KeyOf(p)] <= head'[KeyOf(p)]
    BY <2>1, HeadGrows
  <2> QED
    BY <2>1, <2>2, <2>3, WireKeeps
<1>2. CASE UNCHANGED applied
  <2> SUFFICES ASSUME NEW p \in Payloads
               PROVE  applied[p] \in {0, 1} /\ (applied[p] = 1 => p \in wire' /\ nonce'[p] <= head'[KeyOf(p)'])
    BY <1>2 DEF Spent, KeyOf
  <2>1. CASE applied[p] = 1
    <3>1. p \in wire /\ nonce[p] <= head[KeyOf(p)]
      BY <2>1 DEF Spent
    <3> QED
      BY <2>1, <3>1, <1>1
  <2> QED
    BY <2>1 DEF Spent
<1>3. ASSUME NEW t \in relayed, Apply(t), Executable(t) PROVE Spent'
  <2> DEFINE at(p) == {i \in DOMAIN t.delegates : t.delegates[i] = p}
  <2>1. applied' = [p \in Payloads |-> applied[p] + Cardinality(at(p))]
    BY <1>3 DEF Apply
  <2>2. \A p \in Payloads :
          \/ at(p) = {} /\ Cardinality(at(p)) = 0
          \/ at(p) # {} /\ Cardinality(at(p)) = 1 /\ applied[p] = 0 /\ p \in wire
             /\ nonce[p] > head[KeyOf(p)]
             /\ nonce[p] \in NoncesOf(t, KeyOf(p))
    BY <1>3, ExecutesNew
  <2>3. \A p \in Payloads : applied[p] \in {0, 1}
    BY DEF Spent
  <2>4. \A p \in Payloads :
          /\ applied'[p] \in {0, 1}
          /\ applied'[p] = 1 => (applied[p] = 1 /\ at(p) = {}) \/ at(p) # {}
    <3> SUFFICES ASSUME NEW p \in Payloads
                 PROVE  /\ applied'[p] \in {0, 1}
                        /\ applied'[p] = 1 => (applied[p] = 1 /\ at(p) = {}) \/ at(p) # {}
      OBVIOUS
    <3>1. applied'[p] = applied[p] + Cardinality(at(p))
      BY <2>1
    <3>2. CASE Cardinality(at(p)) = 0 /\ at(p) = {}
      BY <2>3, <3>1, <3>2
    <3>3. CASE Cardinality(at(p)) = 1 /\ at(p) # {} /\ applied[p] = 0
      BY <3>1, <3>3
    <3> QED
      BY <2>2, <3>2, <3>3
  <2>5. \A p \in Payloads : applied'[p] = 1 => p \in wire
    BY <2>2, <2>4 DEF Spent
  <2> SUFFICES ASSUME NEW CONSTANT p \in Payloads, applied'[p] = 1
               PROVE  p \in wire' /\ nonce'[p] <= head'[KeyOf(p)']
    BY <2>4 DEF Spent, KeyOf
  <2>6. p \in wire
    BY <2>5
  <2>7. CASE at(p) = {}
    <3>1. nonce[p] <= head[KeyOf(p)]
      BY <2>4, <2>7 DEF Spent
    <3> QED
      BY <1>1, <2>6, <3>1
  <2>8. CASE at(p) # {}
    <3>1. nonce[p] \in NoncesOf(t, KeyOf(p)) /\ KeyOf(p) \in Keys
      BY <1>1, <2>2, <2>6, <2>8
    <3>2. head'[KeyOf(p)] = Max({head[KeyOf(p)]} \cup NoncesOf(t, KeyOf(p)))
      BY <1>3, <3>1 DEF Apply
    <3>3. nonce[p] <= head'[KeyOf(p)]
      BY <3>1, <3>2, NewHead
    <3> QED
      BY <1>1, <2>6, <3>3
  <2> QED
    BY <2>7, <2>8
<1>4. ASSUME NEW d \in Futures, DelegateStep(d) PROVE UNCHANGED applied
  BY <1>4 DEF DelegateStep, Start, ClaimKey, ViewAccessKey, Viewed, Status, Limited, AdditionPanics, Sign, Fails, chainVars
<1>5. ASSUME NEW begun \in Senders, NEW batch \in Batches, Relay(begun, batch) PROVE UNCHANGED applied
  BY <1>5 DEF Relay, chainVars
<1>6. CASE Chain
  BY <1>2, <1>3, <1>6 DEF Chain, Apply, OtherTx, NewBlock, Finalize
<1>7. CASE UNCHANGED vars
  BY <1>2, <1>7 DEF vars, chainVars
<1> QED
  BY <1>2, <1>4, <1>5, <1>6, <1>7 DEF Next
-----------------------------------------------------------------------------
(* A payload is usable until its key is used. *)

\* Every step keeps what a future fetched tied to the chain.
LEMMA FetchedStep ==
    ASSUME OverflowChecks, TypeInv, FetchedInv, [Next]_vars
    PROVE  FetchedInv'
<1> SUFFICES ASSUME NEW CONSTANT d \in Futures,
                    NonceOption[d] = None, nonce'[d] # None, taken'[d] = {}
             PROVE  nonce'[d] > head'[key'[d]]
  BY DEF FetchedInv
<1> USE DEF TypeInv, TypeOK
<1>1. d \in Payloads
  BY DEF Payloads
<1>2. ASSUME UNCHANGED <<key, nonce>>, taken[d] = {}, head'[key[d]] = head[key[d]]
      PROVE  nonce'[d] > head'[key'[d]]
  BY <1>2 DEF FetchedInv
<1>3. ASSUME NEW e \in Futures, DelegateStep(e) PROVE nonce'[d] > head'[key'[d]]
  <2>1. CASE e = d /\ Start(d)
    <3>1. nonce' = nonce \/ nonce' = [nonce EXCEPT ![d] = None]
      BY <2>1 DEF Start, ClaimKey
    <3>2. nonce'[d] = nonce[d]
      BY <1>1, <3>1
    <3>3. UNCHANGED <<key, nonce, head, taken>>
      BY <1>1, <2>1, <3>2 DEF Start, ClaimKey, chainVars
    <3> QED
      BY <1>2, <3>3
  <2>2. CASE e = d /\ ViewAccessKey(d)
    <3>1. key[d] \in Keys /\ head[key[d]] \in Nat
      BY <2>2 DEF ViewAccessKey, Viewed, Filled
    <3>2. head[key[d]] + 1 < U64
      BY <2>2, <3>1, NumbersAssumption DEF ViewAccessKey, Viewed, Overflows
    <3>3. Plus(head[key[d]], 1) = head[key[d]] + 1
      BY <3>1, <3>2, NumbersAssumption, ModSmall DEF Plus
    <3>4. nonce'[d] = head[key[d]] + 1 /\ head' = head /\ key' = key
      BY <1>1, <2>2, <3>3 DEF ViewAccessKey, Viewed, chainVars
    <3> QED
      BY <3>1, <3>4
  <2>3. CASE e # d /\ (Start(e) \/ ViewAccessKey(e))
    <3>1. nonce'[d] = nonce[d] /\ key'[d] = key[d] /\ taken'[d] = taken[d] /\ head' = head
      BY <1>1, <2>3 DEF Start, ClaimKey, ViewAccessKey, Viewed, chainVars
    <3> QED
      BY <3>1 DEF FetchedInv
  <2>4. CASE Status(e) \/ AdditionPanics(e) \/ Sign(e) \/ Fails(e)
    BY <1>2, <2>4 DEF Status, Limited, AdditionPanics, Sign, Fails, chainVars
  <2> QED
    BY <1>3, <2>1, <2>2, <2>3, <2>4 DEF DelegateStep
<1>4. ASSUME NEW begun \in Senders, NEW batch \in Batches, Relay(begun, batch)
      PROVE  nonce'[d] > head'[key'[d]]
  BY <1>2, <1>4 DEF Relay, futureVars, chainVars
<1>5. ASSUME NEW t \in relayed, Apply(t) PROVE nonce'[d] > head'[key'[d]]
  <2>1. UNCHANGED <<key, nonce>>
    BY <1>5 DEF Apply, futureVars
  <2>2. CASE UNCHANGED <<head, taken>>
    BY <1>2, <2>1, <2>2
  <2>3. CASE head' = [k \in Keys |-> Max({head[k]} \cup NoncesOf(t, k))]
             /\ taken' = [f \in Futures |-> taken[f] \cup NoncesOf(t, key[f])]
    <3>1. taken[d] = {} /\ NoncesOf(t, key[d]) = {}
      BY <2>3
    <3>2. key[d] \in Keys
      BY <2>1 DEF Filled
    <3>3. head'[key[d]] = head[key[d]]
      BY <2>3, <3>1, <3>2, NewHead
    <3> QED
      BY <1>2, <2>1, <3>1, <3>3
  <2> QED
    BY <1>5, <2>2, <2>3 DEF Apply
<1>6. ASSUME NEW k \in Keys, OtherTx(k) PROVE nonce'[d] > head'[key'[d]]
  <2>1. UNCHANGED <<key, nonce>> /\ key[d] \in Keys
    BY <1>6 DEF OtherTx, futureVars, Filled
  <2>2. key[d] # k /\ taken[d] = {}
    BY <1>6 DEF OtherTx
  <2>3. head'[key[d]] = head[key[d]]
    BY <1>6, <2>1, <2>2 DEF OtherTx
  <2> QED
    BY <1>2, <2>1, <2>2, <2>3
<1>7. CASE NewBlock \/ Finalize \/ UNCHANGED vars
  BY <1>2, <1>7 DEF NewBlock, Finalize, vars, futureVars, chainVars
<1> QED
  BY <1>3, <1>4, <1>5, <1>6, <1>7 DEF Next, Chain

\* A build that checks additions never hands out a nonce that is already used:
\* what delegate() signs with a fetched nonce can be executed until another
\* transaction or payload uses its key.  (Without the checks the successor of
\* the last nonce is 0.)
THEOREM UsableWhileKeyIsIdle ==
    ASSUME OverflowChecks
    PROVE  Spec => []UsableUntilOvertaken
<1>1. Init => FetchedInv
  <2> SUFFICES ASSUME Init, NEW d \in Futures PROVE nonce[d] = None
    BY DEF FetchedInv
  <2> QED
    BY NamesAssumption DEF Init, Payloads
<1>2. TypeInv /\ FetchedInv /\ [Next]_vars => FetchedInv'
  BY FetchedStep
<1>3. TypeInv /\ FetchedInv => UsableUntilOvertaken
  BY DEF TypeInv, TypeOK, FetchedInv, UsableUntilOvertaken, Signed
<1> QED
  BY <1>1, <1>2, <1>3, TypeCorrect, PTL DEF Spec
-----------------------------------------------------------------------------
(* Two payloads share a nonce only when their calls overlap. *)

\* What a view hands out is above the nonce of its key.
LEMMA Fetches ==
    ASSUME OverflowChecks, TypeInv, NEW CONSTANT d \in Futures, ViewAccessKey(d)
    PROVE  /\ key[d] \in Keys /\ head[key[d]] \in Nat
           /\ nonce'[d] = head[key[d]] + 1
           /\ UNCHANGED <<key, head, applied>>
<1>1. d \in Payloads
  BY DEF Payloads
<1>2. key[d] \in Keys /\ head[key[d]] \in Nat
  BY DEF ViewAccessKey, Viewed, Filled, TypeInv, TypeOK
<1>3. head[key[d]] + 1 < U64
  BY <1>2, NumbersAssumption DEF ViewAccessKey, Viewed, Overflows
<1>4. Plus(head[key[d]], 1) = head[key[d]] + 1
  BY <1>2, <1>3, NumbersAssumption, ModSmall DEF Plus
<1> QED
  BY <1>1, <1>2, <1>4 DEF ViewAccessKey, Viewed, chainVars, TypeInv, TypeOK

\* Every step keeps executions with a fetched nonce behind its view.
LEMMA OvertakenStep ==
    ASSUME OverflowChecks, TypeInv, Spent, OvertakenInv, [Next]_vars
    PROVE  OvertakenInv'
<1> SUFFICES ASSUME NEW CONSTANT d \in Futures, NonceOption[d] = None, nonce'[d] # None,
                    NEW CONSTANT p \in Payloads, applied'[p] = 1, KeyOf(p)' = key'[d],
                    nonce'[p] >= nonce'[d]
             PROVE  nonce'[p] \in taken'[d]
  BY DEF OvertakenInv
<1>1. d \in Payloads /\ nonce \in [Payloads -> 0 .. U64] /\ taken \in [Futures -> SUBSET Nat]
      /\ key \in [Futures -> Keys \cup {NoSigner}]
  BY DEF Payloads, TypeInv, TypeOK
<1>2. ASSUME applied[p] = 1
      PROVE  /\ nonce'[p] = nonce[p] /\ KeyOf(p)' = KeyOf(p)
             /\ nonce[p] <= head[KeyOf(p)] /\ nonce[p] \in Nat
  <2>1. p \in wire /\ nonce[p] <= head[KeyOf(p)]
    BY <1>2 DEF Spent
  <2> QED
    BY <1>1, <2>1, WireKeeps, NumbersAssumption
<1>3. ASSUME applied[p] = 1, nonce'[d] = nonce[d], key'[d] = key[d], taken[d] \subseteq taken'[d]
      PROVE  nonce'[p] \in taken'[d]
  BY <1>2, <1>3 DEF OvertakenInv
<1>4. ASSUME NEW e \in Futures, DelegateStep(e) PROVE nonce'[p] \in taken'[d]
  <2>1. applied[p] = 1
    BY <1>4 DEF DelegateStep, Start, ClaimKey, ViewAccessKey, Viewed, Status, Limited, AdditionPanics, Sign, Fails, chainVars
  <2>2. CASE e = d /\ Start(d)
    <3>1. nonce' = nonce \/ nonce' = [nonce EXCEPT ![d] = None]
      BY <2>2 DEF Start, ClaimKey
    <3>2. nonce'[d] = nonce[d] /\ nonce' = nonce
      BY <1>1, <3>1
    <3>3. UNCHANGED <<key, taken>>
      BY <1>1, <2>2, <3>2 DEF Start, ClaimKey
    <3> QED
      BY <1>3, <2>1, <3>2, <3>3
  <2>3. CASE e = d /\ ViewAccessKey(d)
    <3>1. nonce'[d] = head[key[d]] + 1 /\ key' = key /\ head[key[d]] \in Nat
      BY <2>3, Fetches
    <3>2. nonce[p] <= head[key[d]] /\ nonce'[p] = nonce[p] /\ nonce[p] \in Nat
      BY <1>2, <2>1, <3>1
    <3> QED
      BY <3>1, <3>2
  <2>4. CASE e # d /\ (Start(e) \/ ViewAccessKey(e))
    <3>1. nonce'[d] = nonce[d] /\ key'[d] = key[d] /\ taken'[d] = taken[d]
      BY <1>1, <2>4 DEF Start, ClaimKey, ViewAccessKey, Viewed
    <3> QED
      BY <1>3, <2>1, <3>1
  <2>5. CASE Status(e) \/ AdditionPanics(e) \/ Sign(e) \/ Fails(e)
    BY <1>3, <2>1, <2>5 DEF Status, Limited, AdditionPanics, Sign, Fails
  <2> QED
    BY <1>4, <2>2, <2>3, <2>4, <2>5 DEF DelegateStep
<1>5. ASSUME NEW begun \in Senders, NEW batch \in Batches, Relay(begun, batch)
      PROVE  nonce'[p] \in taken'[d]
  BY <1>3, <1>5 DEF Relay, futureVars, chainVars
<1>6. ASSUME NEW t \in relayed, Apply(t) PROVE nonce'[p] \in taken'[d]
  <2>1. UNCHANGED <<key, nonce>>
    BY <1>6 DEF Apply, futureVars
  <2>2. CASE UNCHANGED <<applied, taken>>
    BY <1>3, <2>1, <2>2
  <2>3. CASE Executable(t) /\ taken' = [f \in Futures |-> taken[f] \cup NoncesOf(t, key[f])]
             /\ applied' = [q \in Payloads |->
                   applied[q] + Cardinality({i \in DOMAIN t.delegates : t.delegates[i] = q})]
    <3>1. CASE applied[p] = 1
      BY <1>3, <2>1, <2>3, <3>1
    <3>2. CASE applied[p] # 1
      <4>1. applied[p] = 0
        BY <3>2 DEF Spent
      <4>2. Cardinality({i \in DOMAIN t.delegates : t.delegates[i] = p}) # 0
        BY <2>3, <4>1
      <4>3. nonce[p] \in NoncesOf(t, KeyOf(p))
        BY <2>3, <4>2, ExecutesNew
      <4>4. KeyOf(p) = key[d]
        BY <2>1 DEF KeyOf
      <4> QED
        BY <2>1, <2>3, <4>3, <4>4
    <3> QED
      BY <3>1, <3>2
  <2> QED
    BY <1>6, <2>2, <2>3 DEF Apply
<1>7. ASSUME NEW k \in Keys, OtherTx(k) PROVE nonce'[p] \in taken'[d]
  <2>1. taken[d] \subseteq taken'[d] /\ UNCHANGED <<key, nonce, applied>>
    BY <1>1, <1>7 DEF OtherTx, futureVars
  <2> QED
    BY <1>3, <2>1
<1>8. CASE NewBlock \/ Finalize \/ UNCHANGED vars
  BY <1>3, <1>8 DEF NewBlock, Finalize, vars, futureVars, chainVars
<1> QED
  BY <1>4, <1>5, <1>6, <1>7, <1>8 DEF Next, Chain

\* A key that is claimed in the first round is the next one of the list.
LEMMA Claims ==
    ASSUME TypeInv, NEW CONSTANT d \in Futures, SenderOf[d] \in Senders, ClaimKey(d)
    PROVE  LET a == SenderOf[d]
           IN  /\ counter' = [counter EXCEPT ![a] = counter[a] + 1] /\ counter[a] \in Nat
               /\ key' = [key EXCEPT ![d] = key'[d]]
               /\ counter[a] < Len(KeysOf[a]) => key'[d] = KeysOf[a][counter[a] + 1]
<1>1. counter[SenderOf[d]] \in Nat /\ key \in [Futures -> Keys \cup {NoSigner}]
  BY DEF TypeInv, TypeOK
<1>2. Len(KeysOf[SenderOf[d]]) \in Nat \ {0}
  BY KeysFacts
<1>3. counter[SenderOf[d]] < Len(KeysOf[SenderOf[d]]) =>
         counter[SenderOf[d]] % Len(KeysOf[SenderOf[d]]) = counter[SenderOf[d]]
  BY <1>1, <1>2, ModSmall
<1> QED
  BY <1>1, <1>3 DEF ClaimKey

\* Every step keeps the keys of a first round apart.
LEMMA RotationStep ==
    ASSUME TypeInv, RotationInv, [Next]_vars
    PROVE  RotationInv'
<1>1. ASSUME UNCHANGED <<key, counter>>, \A d \in Futures : pc'[d] = "start" => pc[d] = "start"
      PROVE  RotationInv'
  BY <1>1 DEF RotationInv, Claimed
<1>2. ASSUME NEW CONSTANT d \in Futures, Start(d) PROVE RotationInv'
  <2>1. pc'[d] # "start" /\ \A e \in Futures \ {d} : pc'[e] = pc[e]
    BY <1>2 DEF Start, Return, NextAwait, ClaimKey, TypeInv, TypeOK
  <2>2. CASE UNCHANGED <<key, counter>>
    BY <1>1, <2>1, <2>2
  <2>3. CASE ClaimKey(d) /\ SenderOf[d] \in Senders
    <3> DEFINE s == SenderOf[d]
               n == counter[s]
    <3>1. /\ counter' = [counter EXCEPT ![s] = n + 1] /\ n \in Nat
          /\ key' = [key EXCEPT ![d] = key'[d]]
          /\ n < Len(KeysOf[s]) => key'[d] = KeysOf[s][n + 1]
      BY <2>3, Claims
    <3>2. key \in [Futures -> Keys \cup {NoSigner}] /\ counter \in [Senders -> Nat] /\ key[d] = NoSigner
      BY <1>2 DEF RotationInv, Start, TypeInv, TypeOK
    <3>3. \A e \in Futures \ {d} : key'[e] = key[e]
      BY <3>1, <3>2
    <3>4. Len(KeysOf[s]) \in Nat
      BY <2>3, KeysFacts
    <3>5. ASSUME NEW CONSTANT a \in Senders, counter'[a] <= Len(KeysOf[a]), IsInjective(KeysOf[a])
          PROVE  /\ \A e \in Claimed(a)' : \E i \in 1 .. counter'[a] : key'[e] = KeysOf[a][i]
                 /\ \A e, f \in Claimed(a)' : e # f => key'[e] # key'[f]
      <4>1. CASE a # s
        <5>1. counter'[a] = counter[a] /\ d \notin Claimed(a)'
          BY <3>1, <3>2, <4>1 DEF Claimed
        <5>2. \A e \in Claimed(a)' : e \in Claimed(a) /\ key'[e] = key[e]
          BY <3>3, <4>1 DEF Claimed
        <5>3. counter[a] <= Len(KeysOf[a])
          BY <3>5, <5>1
        <5>4. /\ \A e \in Claimed(a) : \E i \in 1 .. counter[a] : key[e] = KeysOf[a][i]
              /\ \A e, f \in Claimed(a) : e # f => key[e] # key[f]
          BY <3>5, <5>3 DEF RotationInv
        <5> HIDE DEF n, s
        <5>5. ASSUME NEW e \in Claimed(a)'
              PROVE  /\ \E i \in 1 .. counter'[a] : key'[e] = KeysOf[a][i]
                     /\ \A f \in Claimed(a)' : e # f => key'[e] # key'[f]
          BY <5>1, <5>2, <5>4
        <5> QED
          BY <5>5
      <4>2. CASE a = s
        <5>1. n + 1 <= Len(KeysOf[s]) /\ counter'[s] = n + 1
          BY <3>1, <3>2, <3>5, <4>2
        <5>2. key'[d] = KeysOf[s][n + 1] /\ n <= Len(KeysOf[s])
          BY <3>1, <3>4, <5>1
        <5>3. Claimed(s)' \ {d} \subseteq Claimed(s)
          BY <3>3 DEF Claimed
        <5>4. \A e \in Claimed(s) : \E i \in 1 .. n : key[e] = KeysOf[s][i]
          BY <3>5, <4>2, <5>2 DEF RotationInv
        <5>5. \A e, f \in Claimed(s) : e # f => key[e] # key[f]
          BY <3>5, <4>2, <5>2 DEF RotationInv
        <5>6. ASSUME NEW e \in Claimed(s)', e # d
              PROVE  e \in Claimed(s) /\ key'[e] = key[e]
          BY <3>3, <5>3, <5>6 DEF Claimed
        <5>7. ASSUME NEW e \in Claimed(s)', e # d
              PROVE  /\ key'[e] # key'[d]
                     /\ \E i \in 1 .. n + 1 : key'[e] = KeysOf[s][i]
          <6>1. PICK i \in 1 .. n : key'[e] = KeysOf[s][i]
            BY <5>4, <5>6, <5>7
          <6>2. i \in 1 .. n + 1 /\ i # n + 1 /\ i \in 1 .. Len(KeysOf[s]) /\ n + 1 \in 1 .. Len(KeysOf[s])
            BY <3>1, <3>4, <5>1
          <6>3. DOMAIN KeysOf[s] = 1 .. Len(KeysOf[s])
            BY <2>3, KeysFacts
          <6>4. KeysOf[s][i] # KeysOf[s][n + 1]
            BY <3>5, <4>2, <6>2, <6>3 DEF IsInjective
          <6> QED
            BY <5>2, <6>1, <6>2, <6>4
        <5>8. n + 1 \in 1 .. n + 1
          BY <3>1
        <5> HIDE DEF n, s
        <5>9. \A e \in Claimed(a)' : \E i \in 1 .. counter'[a] : key'[e] = KeysOf[a][i]
          BY <4>2, <5>1, <5>2, <5>7, <5>8
        <5>10. ASSUME NEW e \in Claimed(a)', NEW f \in Claimed(a)', e # f PROVE key'[e] # key'[f]
          BY <4>2, <5>5, <5>6, <5>7, <5>10
        <5> QED
          BY <5>9, <5>10
      <4> QED
        BY <4>1, <4>2
    <3>6. \A e \in Futures : pc'[e] = "start" => key'[e] = NoSigner
      BY <2>1, <3>3 DEF RotationInv
    <3>7. \A e \in Futures : key'[e] # NoSigner => SenderOf[e] \in Senders
      BY <2>3, <3>3 DEF RotationInv
    <3> QED
      BY <3>5, <3>6, <3>7 DEF RotationInv
  <2> QED
    BY <1>2, <2>2, <2>3, NamesAssumption DEF Start, Payloads
<1>3. ASSUME NEW d \in Futures, ViewAccessKey(d) \/ Status(d) \/ AdditionPanics(d) \/ Sign(d) \/ Fails(d)
      PROVE  RotationInv'
  <2>1. UNCHANGED <<key, counter>>
    BY <1>3 DEF ViewAccessKey, Viewed, Status, Limited, AdditionPanics, Sign, Fails
  <2>2. \A e \in Futures : pc'[e] = "start" => pc[e] = "start"
    BY <1>3 DEF ViewAccessKey, Viewed, Status, Limited, AdditionPanics, Sign, Fails, Return, NextAwait, TypeInv, TypeOK
  <2> QED
    BY <1>1, <2>1, <2>2
<1>4. ASSUME NEW begun \in Senders, NEW batch \in Batches, Relay(begun, batch) PROVE RotationInv'
  BY <1>1, <1>4 DEF Relay, futureVars
<1>5. CASE Chain
  BY <1>1, <1>5 DEF Chain, Apply, OtherTx, NewBlock, Finalize, futureVars
<1>6. CASE UNCHANGED vars
  BY <1>1, <1>6 DEF vars, futureVars
<1> QED
  BY <1>2, <1>3, <1>4, <1>5, <1>6 DEF Next, DelegateStep

\* A build that checks additions lets payloads of delegate() get in each
\* other's way only when their calls overlap: a payload that was executed with
\* a fetched nonce, or a later one, was executed after the view, and a signer
\* with distinct keys keeps as many calls apart as it has keys.
THEOREM NoncesSharedInOverlap ==
    ASSUME OverflowChecks
    PROVE  Spec => []SharedOnlyInOverlap
<1>1. Init => Spent /\ OvertakenInv
  BY DEF Init, Spent, OvertakenInv
<1>2. Init => RotationInv
  BY NamesAssumption DEF Init, RotationInv, Claimed, Payloads
<1>3. TypeInv /\ Spent /\ OvertakenInv /\ RotationInv /\ [Next]_vars =>
          Spent' /\ OvertakenInv' /\ RotationInv'
  BY SpentStep, OvertakenStep, RotationStep
<1>4. TypeInv /\ Spent /\ OvertakenInv /\ RotationInv => SharedOnlyInOverlap
  <2> SUFFICES ASSUME TypeInv, Spent, OvertakenInv, RotationInv,
                      NEW d \in Signed, NonceOption[d] = None
               PROVE  /\ \A p \in Payloads :
                            applied[p] > 0 /\ KeyOf(p) = key[d] /\ nonce[p] >= nonce[d] => nonce[p] \in taken[d]
                      /\ \A e \in Signed \ {d} :
                            /\ SenderOf[e] = SenderOf[d] /\ IsInjective(KeysOf[SenderOf[d]])
                            /\ key[e] = key[d] /\ nonce[e] = nonce[d]
                            => counter[SenderOf[d]] > Len(KeysOf[SenderOf[d]])
    BY DEF SharedOnlyInOverlap
  <2>1. \A e \in Signed : e \in Futures /\ nonce[e] # None /\ key[e] \in Keys
    BY DEF Signed, TypeInv, TypeOK
  <2>2. ASSUME NEW p \in Payloads, applied[p] > 0, KeyOf(p) = key[d], nonce[p] >= nonce[d]
        PROVE  nonce[p] \in taken[d]
    <3>1. applied[p] = 1
      BY <2>2 DEF Spent
    <3> QED
      BY <2>1, <2>2, <3>1 DEF OvertakenInv
  <2>3. ASSUME NEW e \in Signed \ {d}, SenderOf[e] = SenderOf[d], IsInjective(KeysOf[SenderOf[d]]),
               key[e] = key[d]
        PROVE  counter[SenderOf[d]] > Len(KeysOf[SenderOf[d]])
    <3>1. SenderOf[d] \in Senders /\ d \in Claimed(SenderOf[d]) /\ e \in Claimed(SenderOf[d])
      BY <2>1, <2>3, NamesAssumption DEF Claimed, RotationInv, Payloads
    <3>2. counter[SenderOf[d]] \in Nat /\ Len(KeysOf[SenderOf[d]]) \in Nat
      BY <3>1, KeysFacts DEF TypeInv, TypeOK
    <3>3. ~(counter[SenderOf[d]] <= Len(KeysOf[SenderOf[d]]))
      BY <2>3, <3>1 DEF RotationInv
    <3> QED
      BY <3>2, <3>3
  <2> QED
    BY <2>2, <2>3
<1> QED
  BY <1>1, <1>2, <1>3, <1>4, TypeCorrect, PTL DEF Spec
-----------------------------------------------------------------------------
(* A payload is what the user asked for. *)

AskedInv == CarriesWhatWasAsked /\ LimitInv

\* Every step keeps payloads as their builders asked.
LEMMA AskedStep ==
    ASSUME TypeInv, AskedInv, [Next]_vars
    PROVE  AskedInv'
<1> USE DEF TypeInv, TypeOK
<1>1. Futures \subseteq Payloads
  BY DEF Payloads
<1>2. CASE UNCHANGED <<actions, result, max_block_height, seen>>
  BY <1>2 DEF AskedInv, CarriesWhatWasAsked, LimitInv, Signed
<1>3. ASSUME NEW d \in Futures, DelegateStep(d) PROVE AskedInv'
  <2>1. CASE Start(d)
    <3>1. actions' = actions /\ seen' = seen /\ \A e \in Futures : result'[e] = "ok" => result[e] = "ok"
      BY <2>1 DEF Start, ClaimKey, Return, Refused
    <3>2. \A e \in Futures : HeightOption[e] = None =>
             max_block_height'[e] \in {max_block_height[e], None}
      BY <1>1, <2>1 DEF Start, ClaimKey
    <3>3. \A e \in Futures : None >= seen[e]
      BY NumbersAssumption DEF None
    <3> QED
      BY <3>1, <3>2, <3>3 DEF AskedInv, CarriesWhatWasAsked, LimitInv, Signed
  <2>2. CASE ViewAccessKey(d)
    BY <1>2, <2>2 DEF ViewAccessKey, Viewed
  <2>3. CASE Status(d)
    <3>1. UNCHANGED <<actions, result>>
      BY <2>3 DEF Status, Limited
    <3>2. height \in Nat /\ Offset[d] \in Nat /\ U64 \in Nat
      BY NumbersAssumption DEF U64s
    <3>3. OverflowChecks => Plus(height, Offset[d]) >= height
      <4>1. OverflowChecks => height + Offset[d] < U64
        BY <2>3, <3>2 DEF Status, Overflows
      <4> QED
        BY <3>2, <4>1, ModSmall DEF Plus
    <3>4. \A e \in Futures :
             \/ (max_block_height'[e] = max_block_height[e] /\ seen'[e] = seen[e])
             \/ (max_block_height'[e] = Plus(height, Offset[d]) /\ seen'[e] = height)
      BY <1>1, <2>3 DEF Status, Limited
    <3> QED
      BY <3>1, <3>3, <3>4 DEF AskedInv, CarriesWhatWasAsked, LimitInv, Signed
  <2>4. CASE AdditionPanics(d) \/ Fails(d)
    <3>1. actions' = actions /\ seen' = seen /\ max_block_height' = max_block_height
          /\ \A e \in Futures : result'[e] = "ok" => result[e] = "ok"
      BY <2>4 DEF AdditionPanics, Fails, Return
    <3> QED
      BY <3>1 DEF AskedInv, CarriesWhatWasAsked, LimitInv, Signed
  <2>5. CASE Sign(d)
    <3>1. actions' = [actions EXCEPT ![d] = Asked[d]]
      BY <2>5, TypeSign
    <3>2. \A e \in Futures \ {d} : result'[e] = result[e]
      BY <2>5 DEF Sign, Return
    <3> QED
      BY <1>1, <2>5, <3>1, <3>2 DEF Sign, AskedInv, CarriesWhatWasAsked, LimitInv, Signed
  <2> QED
    BY <1>3, <2>1, <2>2, <2>3, <2>4, <2>5 DEF DelegateStep
<1>4. ASSUME NEW begun \in Senders, NEW batch \in Batches, Relay(begun, batch) PROVE AskedInv'
  BY <1>2, <1>4 DEF Relay, futureVars
<1>5. CASE Chain
  BY <1>2, <1>5 DEF Chain, Apply, OtherTx, NewBlock, Finalize, futureVars
<1>6. CASE UNCHANGED vars
  BY <1>2, <1>6 DEF vars, futureVars
<1> QED
  BY <1>3, <1>4, <1>5, <1>6 DEF Next

\* A payload carries all the actions of the builder, a relayer cannot pass on
\* a nested delegate action whoever encoded it, a transaction is addressed to
\* the user whose payloads it carries, and with overflow checks no payload has
\* expired when it is made.
THEOREM PayloadsAreAsAsked == Spec => []PayloadsAsAsked
<1>1. Init => AskedInv
  BY NamesAssumption, NumbersAssumption
     DEF Init, AskedInv, CarriesWhatWasAsked, LimitInv, Signed, Payloads, None
<1>2. TypeInv /\ AskedInv /\ [Next]_vars => AskedInv'
  BY AskedStep
<1>3. TypeInv => NeverNested
  <2> SUFFICES ASSUME TypeInv, NEW t \in relayed, NEW i \in DOMAIN t.delegates,
                      NEW j \in DOMAIN actions[t.delegates[i]]
               PROVE  ~is_delegate(actions[t.delegates[i]][j])
    BY DEF NeverNested
  <2>1. t.delegates \in Seq(Payloads) /\ actions \in [Payloads -> Seq([kind : Kinds, arg : Nat])]
    BY DEF TypeInv, TypeOK
  <2>2. actions[t.delegates[i]] \in Seq([kind : Kinds, arg : Nat])
    <3>1. t.delegates[i] \in Payloads
      BY <2>1
    <3> QED
      BY <2>1, <3>1
  <2>3. actions[t.delegates[i]][j].kind \in Kinds
    <3>1. \A S : \A s \in Seq(S) : \A n \in DOMAIN s : s[n] \in S
      OBVIOUS
    <3>2. actions[t.delegates[i]][j] \in [kind : Kinds, arg : Nat]
      BY <2>2, <3>1
    <3> QED
      BY <3>2
  <2>4. NonDelegateReads(actions[t.delegates[i]][j])
    BY DEF TypeInv, Relayed, Decodes
  <2> QED
    BY <2>3, <2>4, ReaderRefuses
<1>4. TypeInv => AddressedToSender
  <2> SUFFICES ASSUME TypeInv, NEW t \in relayed, NEW a \in Senders,
                      \A i \in DOMAIN t.delegates : SenderOf[t.delegates[i]] = a
               PROVE  t.receiver = a
    BY DEF AddressedToSender
  <2>1. t.delegates \in Seq(Payloads) /\ Len(t.delegates) > 0
    BY DEF TypeInv, TypeOK, Relayed
  <2>2. Len(t.delegates) \in DOMAIN t.delegates
    BY <2>1
  <2> QED
    BY <2>2 DEF TypeInv, Relayed
<1>5. AskedInv => NotBornExpired
  BY DEF AskedInv, LimitInv, NotBornExpired, Signed
<1>6. TypeInv /\ AskedInv => PayloadsAsAsked
  BY <1>3, <1>4, <1>5 DEF AskedInv, PayloadsAsAsked
<1> QED
  BY <1>1, <1>2, <1>6, TypeCorrect, PTL DEF Spec
=============================================================================
