---------------------------- MODULE NumberProofs -----------------------------
(***************************************************************************)
(* Numbers of a fixed width: the nonces that the manager hands out, and    *)
(* the amounts of tokens, for every width.                                 *)
(***************************************************************************)
EXTENDS NonceManager, Amounts,
    FiniteSetTheorems, SequenceTheorems, WellFoundedInduction, TLAPS

(* Numbers.  A proof by induction on n takes the least counterexample with *)
(* LeastNat and shows that there is a smaller one.                         *)

\* Every non-empty set of naturals has a least element.
LEMMA LeastNat ==
    ASSUME NEW T, T \subseteq Nat, T # {}
    PROVE  \E x \in T : \A y \in T : x <= y
<1>1. PICK x \in T : \A y \in T : ~(<<y, x>> \in OpToRel(<, Nat))
  BY NatLessThanWellFounded, WFMin, Zenon
<1>2. ASSUME NEW y \in T PROVE x <= y
  <2>1. ~(<<y, x>> \in OpToRel(<, Nat))
    BY <1>1
  <2>2. <<y, x>> \in Nat \X Nat
    OBVIOUS
  <2>3. ~(y < x)
    BY <2>1, <2>2 DEF OpToRel
  <2> QED
    BY <2>3
<1> QED
  BY <1>2

\* Every non-empty set of naturals with a bound has a greatest element.
LEMMA GreatestNat ==
    ASSUME NEW b \in Nat, NEW T, T \subseteq 0 .. b, T # {}
    PROVE  \E x \in T : \A y \in T : y <= x
<1> DEFINE U == {b - x : x \in T}
<1>1. U \subseteq Nat /\ U # {}
  <2>1. \A x \in T : x \in 0 .. b /\ b - x \in Nat
    OBVIOUS
  <2> QED
    BY <2>1
<1>2. PICK u \in U : \A v \in U : u <= v
  BY <1>1, LeastNat
<1>3. PICK x \in T : u = b - x
  BY <1>2
<1>4. ASSUME NEW y \in T PROVE y <= x
  <2>1. b - y \in U
    OBVIOUS
  <2> QED
    BY <1>2, <1>3, <2>1, y \in 0 .. b, x \in 0 .. b
<1> QED
  BY <1>4

\* Ok and Err.
LEMMA Outcomes ==
    ASSUME NEW x
    PROVE  Ok(x).ok /\ Ok(x).value = x /\ ~Fail(x).ok /\ Fail(x).error = x
BY DEF Ok, Fail
-----------------------------------------------------------------------------
(* NonceManager: for any slots, the map stays well typed in every build,   *)
(* and in a build with overflow checks the cached nonce dominates what was *)
(* handed out, whence NonceManager implements NonceAllocator.              *)

\* NonceManager::next returns a u64, whatever it wraps.
LEMMA NextNonceType ==
    ASSUME NEW cached \in Nonces \union {Vacant}, NEW chainNonce \in Nonces
    PROVE  /\ Refreshed(cached, chainNonce) \in Nonces
           /\ NextNonce(cached, chainNonce) \in Nonces
  BY U64Assumption DEF Refreshed, NextNonce, Nonces, Vacant

\* A call that does not panic returns more than the entry it found and more
\* than the chain nonce it was given: max(cached, chain) + 1.
LEMMA NextNonceIncreases ==
    ASSUME NEW cached \in Nonces \union {Vacant}, NEW chainNonce \in Nonces,
           OverflowChecks, ~Panics(Refreshed(cached, chainNonce))
    PROVE  /\ NextNonce(cached, chainNonce) > chainNonce
           /\ NextNonce(cached, chainNonce) > cached
  BY U64Assumption DEF Refreshed, NextNonce, Nonces, Vacant, Panics

\* The map, the mutex and the history keep their types in every build:
\* the refreshed entry and the incremented one are u64 values.
THEOREM TypeCorrect == Spec => []TypeOK
<1>1. Init => TypeOK
  BY DEF Init, TypeOK
<1>2. TypeOK /\ [Next]_vars => TypeOK'
  <2> SUFFICES ASSUME TypeOK, [Next]_vars PROVE TypeOK'
    OBVIOUS
  <2>1. ASSUME NEW s \in Slots, NEW chainNonce \in Nonces, next(s, chainNonce)
        PROVE  TypeOK'
    <3>1. NextNonce(nonces[s], chainNonce) \in Nonces
      BY NextNonceType DEF TypeOK
    <3> QED
      BY <2>1, <3>1 DEF next, TypeOK
  <2>2. ASSUME NEW s \in Slots, NEW chainNonce \in Nonces, nextPanics(s, chainNonce)
        PROVE  TypeOK'
    <3>1. Refreshed(nonces[s], chainNonce) \in Nonces
      BY NextNonceType DEF TypeOK
    <3> QED
      BY <2>2, <3>1 DEF nextPanics, TypeOK
  <2>3. CASE UNCHANGED vars
    BY <2>3 DEF vars, TypeOK
  <2> QED
    BY <2>1, <2>2, <2>3 DEF Next
<1> QED
  BY <1>1, <1>2, PTL DEF Spec

\* No nonce handed out is above the slot's entry: with overflow checks the
\* entry only grows, and a panic leaves it at or above its old value.
THEOREM CacheIsDominant == OverflowChecks => (Spec => []CacheDominates)
<1> SUFFICES ASSUME OverflowChecks PROVE Spec => []CacheDominates
  OBVIOUS
<1>1. Init => CacheDominates
  BY DEF Init, CacheDominates
<1>2. TypeOK /\ CacheDominates /\ [Next]_vars => CacheDominates'
  <2> SUFFICES ASSUME TypeOK, CacheDominates, [Next]_vars PROVE CacheDominates'
    OBVIOUS
  <2>1. ASSUME NEW s \in Slots, NEW chainNonce \in Nonces, next(s, chainNonce)
        PROVE  CacheDominates'
    <3>1. /\ NextNonce(nonces[s], chainNonce) > nonces[s]
          /\ NextNonce(nonces[s], chainNonce) \in Nonces
      BY <2>1, NextNonceIncreases, NextNonceType DEF next, TypeOK
    <3> QED
      BY <2>1, <3>1 DEF next, CacheDominates, TypeOK, Nonces, Vacant
  <2>2. ASSUME NEW s \in Slots, NEW chainNonce \in Nonces, nextPanics(s, chainNonce)
        PROVE  CacheDominates'
    <3>1. /\ Refreshed(nonces[s], chainNonce) >= nonces[s]
          /\ Refreshed(nonces[s], chainNonce) \in Nonces
      BY NextNonceType DEF Refreshed, TypeOK, Nonces, Vacant
    <3> QED
      BY <2>2, <3>1 DEF nextPanics, CacheDominates, TypeOK, Nonces, Vacant
  <2>3. CASE UNCHANGED vars
    BY <2>3 DEF vars, CacheDominates
  <2> QED
    BY <2>1, <2>2, <2>3 DEF Next
<1> QED
  BY <1>1, <1>2, TypeCorrect, PTL DEF Spec

\* NonceManager::next under its mutex allocates strictly increasing nonces,
\* above the chain nonce each caller passed, for any callers in any order.
THEOREM ManagerImplementsAllocator == OverflowChecks => (Spec => ImplementsAllocator)
<1> SUFFICES ASSUME OverflowChecks PROVE Spec => ImplementsAllocator
  OBVIOUS
<1>1. Init => Allocator!Init
  BY DEF Init, Allocator!Init
<1>2. TypeOK /\ CacheDominates /\ [Next]_vars => [Allocator!Next]_granted
  <2> SUFFICES ASSUME TypeOK, CacheDominates, [Next]_vars
               PROVE  [Allocator!Next]_granted
    OBVIOUS
  <2>1. ASSUME NEW s \in Slots, NEW chainNonce \in Nonces, next(s, chainNonce)
        PROVE  Allocator!Next
    <3> DEFINE n == NextNonce(nonces[s], chainNonce)
    <3>1. n \in Nonces /\ n > chainNonce /\ n > nonces[s]
      BY <2>1, NextNonceIncreases, NextNonceType DEF next, TypeOK
    <3>2. \A m \in granted[s] : n > m
      BY <3>1 DEF CacheDominates, TypeOK, Nonces, Vacant
    <3>3. granted' = [granted EXCEPT ![s] = @ \union {n}]
      BY <2>1 DEF next
    <3>4. Allocator!Grant(s, chainNonce, n)
      BY <3>1, <3>2, <3>3 DEF Allocator!Grant
    <3> QED
      BY <3>1, <3>4 DEF Allocator!Next, Allocator!Nonces, Nonces
  <2>2. ASSUME NEW s \in Slots, NEW chainNonce \in Nonces, nextPanics(s, chainNonce)
        PROVE  UNCHANGED granted
    BY <2>2 DEF nextPanics
  <2>3. CASE UNCHANGED vars
    BY <2>3 DEF vars
  <2> QED
    BY <2>1, <2>2, <2>3 DEF Next
<1> QED
  BY <1>1, <1>2, TypeCorrect, CacheIsDominant, PTL
  DEF Spec, ImplementsAllocator, Allocator!Spec
-----------------------------------------------------------------------------
(* Amounts: digits and the numbers they write. *)

\* A number, with Modulus for all that do not fit.
Capped(w) == IF w < Modulus THEN w ELSE Modulus

\* f is the value of each of the first n digits.
Counts(d, n, f) ==
    /\ DOMAIN f = 0 .. n
    /\ f[0] = 0
    /\ \A i \in 1 .. n : f[i] = Capped(10 * f[i - 1] + d[i])

LEMMA CappedNat ==
    ASSUME NEW w \in Nat
    PROVE  Capped(w) \in 0 .. Modulus /\ (Capped(w) < Modulus => Capped(w) = w) /\ (Capped(w) < Modulus <=> w < Modulus)
BY AmountsAssumption DEF Capped

\* The recursion of Value can be carried through any digits.
LEMMA CountsExist ==
    ASSUME NEW d
    PROVE  \A n \in Nat : \E f : Counts(d, n, f)
<1> DEFINE Bad == {n \in Nat : ~ \E f : Counts(d, n, f)}
<1> SUFFICES ASSUME Bad # {} PROVE FALSE
  OBVIOUS
<1>1. PICK n \in Bad : \A m \in Bad : n <= m
  BY LeastNat, Bad \subseteq Nat
<1>2. n # 0
  <2>1. Counts(d, 0, [i \in 0 .. 0 |-> 0])
    BY DEF Counts
  <2> QED
    BY <1>1, <2>1
<1>3. n - 1 \in Nat /\ n - 1 \notin Bad
  BY <1>1, <1>2
<1>4. PICK f : Counts(d, n - 1, f)
  BY <1>3
<1> DEFINE g == [i \in 0 .. n |-> IF i = n THEN Capped(10 * f[n - 1] + d[n]) ELSE f[i]]
<1>5. Counts(d, n, g)
  <2>1. n \in Nat /\ n >= 1 /\ DOMAIN f = 0 .. n - 1 /\ f[0] = 0
        /\ \A i \in 1 .. n - 1 : f[i] = Capped(10 * f[i - 1] + d[i])
    BY <1>1, <1>2, <1>4 DEF Counts
  <2>2. g[0] = 0 /\ DOMAIN g = 0 .. n
    BY <2>1
  <2>3. ASSUME NEW i \in 1 .. n PROVE g[i] = Capped(10 * g[i - 1] + d[i])
    <3>1. g[i - 1] = f[i - 1]
      BY <2>1
    <3> QED
      BY <2>1, <3>1
  <2> HIDE DEF g
  <2> QED
    BY <2>2, <2>3 DEF Counts
<1> QED
  BY <1>1, <1>5

\* It has one solution, and the digits behind the n-th do not matter.
LEMMA CountsUnique ==
    ASSUME NEW d, NEW e, NEW n \in Nat, NEW f, NEW g, Counts(d, n, f), Counts(e, n, g), \A i \in 1 .. n : d[i] = e[i]
    PROVE  f[n] = g[n]
<1> DEFINE Bad == {i \in 0 .. n : f[i] # g[i]}
<1> SUFFICES ASSUME Bad # {} PROVE FALSE
  OBVIOUS
<1>1. PICK i \in Bad : \A j \in Bad : i <= j
  BY LeastNat, Bad \subseteq Nat
<1>2. i # 0
  BY <1>1 DEF Counts
<1>3. i \in 1 .. n /\ i - 1 \in 0 .. n /\ i - 1 \notin Bad
  BY <1>1, <1>2
<1>4. f[i] = Capped(10 * f[i - 1] + d[i]) /\ g[i] = Capped(10 * g[i - 1] + e[i])
  BY <1>3 DEF Counts
<1> QED
  BY <1>1, <1>3, <1>4

\* Value is the last of these numbers.
LEMMA ValueCounts ==
    ASSUME NEW d, Len(d) \in Nat
    PROVE  \E f : Counts(d, Len(d), f) /\ Value(d) = f[Len(d)]
<1> DEFINE Def(f) == [n \in 0 .. Len(d) |->
                         IF n = 0 THEN 0 ELSE LET w == 10 * f[n - 1] + d[n] IN IF w < Modulus THEN w ELSE Modulus]
<1> DEFINE v == CHOOSE f : f = Def(f)
<1>1. Value(d) = v[Len(d)]
  BY DEF Value
<1>2. PICK f : Counts(d, Len(d), f)
  BY CountsExist
<1> DEFINE g == [i \in 0 .. Len(d) |-> f[i]]
<1>3. g = Def(g)
  <2>1. ASSUME NEW n \in 0 .. Len(d) PROVE g[n] = Def(g)[n]
    <3>1. CASE n = 0
      BY <1>2, <3>1 DEF Counts
    <3>2. CASE n # 0
      <4>1. n \in 1 .. Len(d) /\ n - 1 \in 0 .. Len(d)
        BY <3>2
      <4>2. f[n] = Capped(10 * f[n - 1] + d[n])
        BY <1>2, <4>1 DEF Counts
      <4> QED
        BY <3>2, <4>1, <4>2 DEF Capped
    <3> QED
      BY <3>1, <3>2
  <2> QED
    BY <2>1
<1>4. v = Def(v)
  <2> HIDE DEF Def, g
  <2> QED
    BY <1>3, Zenon
<1>5. Counts(d, Len(d), v)
  <2>1. DOMAIN v = 0 .. Len(d)
    BY <1>4
  <2>2. \A n \in 0 .. Len(d) : v[n] = Def(v)[n]
    BY <1>4
  <2>3. v[0] = 0
    BY <2>2
  <2>4. ASSUME NEW i \in 1 .. Len(d) PROVE v[i] = Capped(10 * v[i - 1] + d[i])
    <3>1. i \in 0 .. Len(d) /\ i # 0
      OBVIOUS
    <3>2. v[i] = Def(v)[i]
      BY <2>2, <3>1
    <3> HIDE DEF v
    <3> QED
      BY <3>1, <3>2 DEF Capped
  <2> HIDE DEF v
  <2> QED
    BY <2>1, <2>3, <2>4 DEF Counts
<1> QED
  BY <1>1, <1>5

LEMMA ValueNone == Value(<<>>) = 0
<1>1. Len(<<>>) = 0
  OBVIOUS
<1>2. PICK f : Counts(<<>>, 0, f) /\ Value(<<>>) = f[0]
  BY <1>1, ValueCounts
<1> QED
  BY <1>2 DEF Counts

\* One digit more.
LEMMA ValueAppend ==
    ASSUME NEW d \in Seq(Nat), NEW x \in Nat
    PROVE  Value(Append(d, x)) = Capped(10 * Value(d) + x)
<1> DEFINE e == Append(d, x)
<1> DEFINE n == Len(d)
<1>1. e \in Seq(Nat) /\ n \in Nat /\ Len(e) = n + 1 /\ (\A i \in 1 .. n : e[i] = d[i]) /\ e[n + 1] = x
  OBVIOUS
<1>2. PICK f : Counts(d, n, f) /\ Value(d) = f[n]
  BY ValueCounts
<1> HIDE DEF e
<1>3. PICK g : Counts(e, n + 1, g) /\ Value(e) = g[n + 1]
  <2>1. Len(e) \in Nat
    BY <1>1
  <2> QED
    BY <1>1, <2>1, ValueCounts
<1> HIDE DEF n
<1> DEFINE h == [i \in 0 .. n |-> g[i]]
<1>4. Counts(e, n, h)
  <2>1. \A i \in 1 .. n : i - 1 \in 0 .. n /\ i \in 0 .. n /\ i \in 1 .. n + 1
    BY <1>1
  <2>2. g[0] = 0 /\ \A i \in 1 .. n : g[i] = Capped(10 * g[i - 1] + e[i])
    BY <1>3, <2>1 DEF Counts
  <2>3. h[0] = 0 /\ DOMAIN h = 0 .. n /\ \A i \in 1 .. n : h[i] = g[i] /\ h[i - 1] = g[i - 1]
    BY <1>1, <2>1, <2>2
  <2> HIDE DEF h
  <2> QED
    BY <2>2, <2>3 DEF Counts
<1>5. h[n] = f[n]
  <2> HIDE DEF h
  <2>1. \A i \in 1 .. n : e[i] = d[i]
    BY <1>1
  <2> QED
    BY <1>1, <1>2, <1>4, <2>1, CountsUnique
<1>6. g[n + 1] = Capped(10 * g[n] + e[n + 1])
  <2>1. n + 1 \in 1 .. n + 1 /\ (n + 1) - 1 = n
    BY <1>1
  <2> QED
    BY <1>3, <2>1 DEF Counts
<1>7. h[n] = g[n]
  BY <1>1
<1> QED
  BY <1>1, <1>2, <1>3, <1>5, <1>6, <1>7 DEF e


\* Whatever the digits write is a number, or does not fit.
LEMMA ValueNat == \A n \in Nat : \A d \in Seq(Nat) : Len(d) = n => Value(d) \in 0 .. Modulus
<1> DEFINE Bad == {n \in Nat : \E d \in Seq(Nat) : Len(d) = n /\ Value(d) \notin 0 .. Modulus}
<1> SUFFICES ASSUME Bad # {} PROVE FALSE
  OBVIOUS
<1>1. PICK n \in Bad : \A m \in Bad : n <= m
  BY LeastNat, Bad \subseteq Nat
<1>2. PICK d \in Seq(Nat) : Len(d) = n /\ Value(d) \notin 0 .. Modulus
  BY <1>1
<1>3. d # <<>>
  BY <1>2, ValueNone, AmountsAssumption
<1>4. PICK s \in Seq(Nat), x \in Nat : d = Append(s, x)
  BY <1>3, SequenceEmptyOrAppend
<1>5. Len(s) \in Nat /\ Len(s) < n
  BY <1>2, <1>4
<1>6. Value(s) \in 0 .. Modulus
  BY <1>1, <1>5
<1>7. Value(s) \in Nat /\ 10 * Value(s) + x \in Nat
  BY <1>6, AmountsAssumption
<1> QED
  BY <1>2, <1>4, <1>7, ValueAppend, CappedNat

\* n zeros.
Zeros(n) == [i \in 1 .. n |-> 0]

LEMMA ZerosAre ==
    ASSUME NEW n \in Nat
    PROVE  /\ Zeros(n) \in Seq(Nat) /\ Len(Zeros(n)) = n
           /\ Zeros(0) = <<>> /\ Zeros(n + 1) = Append(Zeros(n), 0)
<1>1. Zeros(n) \in Seq(Nat) /\ Len(Zeros(n)) = n /\ Zeros(n + 1) \in Seq(Nat) /\ Len(Zeros(n + 1)) = n + 1
  BY DEF Zeros
<1>2. Zeros(0) = <<>>
  BY DEF Zeros
<1>3. Append(Zeros(n), 0) \in Seq(Nat) /\ Len(Append(Zeros(n), 0)) = n + 1
      /\ \A i \in 1 .. n + 1 : Append(Zeros(n), 0)[i] = 0
  <2>1. \A i \in 1 .. n : Zeros(n)[i] = 0
    BY DEF Zeros
  <2> QED
    BY <1>1, <2>1, AppendProperties
<1>4. \A i \in 1 .. n + 1 : Zeros(n + 1)[i] = 0
  BY DEF Zeros
<1>5. Zeros(n + 1) = Append(Zeros(n), 0)
  BY <1>1, <1>3, <1>4, SeqEqual
<1> QED
  BY <1>1, <1>2, <1>5

\* Digits behind an appended one.
LEMMA JoinedAppend ==
    ASSUME NEW a \in Seq(Nat), NEW b \in Seq(Nat), NEW x \in Nat
    PROVE  a \o Append(b, x) = Append(a \o b, x)
<1>1. Append(b, x) = b \o <<x>> /\ Append(a \o b, x) = (a \o b) \o <<x>>
  BY AppendIsConcat, ConcatProperties
<1>2. <<x>> \in Seq(Nat)
  OBVIOUS
<1> QED
  BY <1>1, <1>2, ConcatAssociative

LEMMA ZerosValue == \A n \in Nat : Value(Zeros(n)) = 0
<1> DEFINE Bad == {n \in Nat : Value(Zeros(n)) # 0}
<1> SUFFICES ASSUME Bad # {} PROVE FALSE
  OBVIOUS
<1>1. PICK n \in Bad : \A m \in Bad : n <= m
  BY LeastNat, Bad \subseteq Nat
<1>2. n # 0
  BY <1>1, ValueNone, ZerosAre
<1>3. n - 1 \in Nat /\ n - 1 \notin Bad
  BY <1>1, <1>2
<1>4. Zeros(n) = Append(Zeros(n - 1), 0) /\ Zeros(n - 1) \in Seq(Nat)
  BY <1>3, ZerosAre, (n - 1) + 1 = n
<1>5. Value(Zeros(n)) = Capped(10 * 0 + 0)
  BY <1>3, <1>4, ValueAppend
<1> QED
  BY <1>1, <1>5, AmountsAssumption DEF Capped

\* The powers of ten, as the parsers write them.
Ten(n) == Value(<<1>> \o Zeros(n))

LEMMA FitsIs == ASSUME NEW n PROVE PowerFits(n) <=> Ten(n) < Modulus
BY DEF PowerFits, Ten, Zeros

LEMMA Tens ==
    ASSUME NEW n \in Nat
    PROVE  Ten(n) \in 0 .. Modulus /\ Ten(0) = 1 /\ Ten(n + 1) = Capped(10 * Ten(n))
<1>1. <<1>> \in Seq(Nat) /\ <<1>> \o Zeros(n) \in Seq(Nat) /\ Len(<<1>> \o Zeros(n)) \in Nat
  BY ZerosAre, ConcatProperties
<1>2. Ten(n) \in 0 .. Modulus
  BY <1>1, ValueNat DEF Ten
<1>3. Ten(0) = 1
  <2>1. <<1>> \o Zeros(0) = <<1>> /\ <<1>> = Append(<<>>, 1) /\ <<>> \in Seq(Nat) /\ 1 \in Nat
    <3>1. Zeros(0) = <<>>
      BY ZerosAre
    <3>2. <<1>> \in Seq(Nat) /\ <<>> \in Seq(Nat) /\ 1 \in Nat
      OBVIOUS
    <3>3. <<1>> \o <<>> = <<1>> /\ <<>> \o <<1>> = <<1>>
      BY <3>2, ConcatEmptySeq
    <3>4. Append(<<>>, 1) = <<>> \o <<1>>
      BY <3>2, AppendIsConcat
    <3> QED
      BY <3>1, <3>2, <3>3, <3>4
  <2>2. Value(Append(<<>>, 1)) = Capped(10 * Value(<<>>) + 1)
    BY <2>1, ValueAppend, Zenon
  <2>3. Capped(10 * 0 + 1) = 1
    BY AmountsAssumption DEF Capped
  <2> QED
    BY <2>1, <2>2, <2>3, ValueNone, Zenon DEF Ten
<1>4. Ten(n + 1) = Capped(10 * Ten(n))
  <2>1. <<1>> \o Zeros(n + 1) = Append(<<1>> \o Zeros(n), 0)
    <3>1. Zeros(n + 1) = Append(Zeros(n), 0) /\ Zeros(n) \in Seq(Nat) /\ 0 \in Nat
      BY ZerosAre
    <3>2. <<1>> \o Append(Zeros(n), 0) = Append(<<1>> \o Zeros(n), 0)
      BY <1>1, <3>1, JoinedAppend, Zenon
    <3> QED
      BY <3>1, <3>2, Zenon
  <2>2. Ten(n + 1) = Capped(10 * Ten(n) + 0)
    BY <1>1, <2>1, ValueAppend DEF Ten
  <2>3. 10 * Ten(n) + 0 = 10 * Ten(n)
    BY <1>2, AmountsAssumption
  <2> QED
    BY <2>2, <2>3
<1> QED
  BY <1>2, <1>3, <1>4

\* A power of ten that fits is ten times the one before it.
LEMMA TensGrow ==
    ASSUME NEW n \in Nat, PowerFits(n + 1)
    PROVE  PowerFits(n) /\ Ten(n + 1) = 10 * Ten(n) /\ Ten(n) \in Nat
<1>1. Ten(n + 1) < Modulus /\ Ten(n) \in Nat /\ 10 * Ten(n) \in Nat
  BY Tens, FitsIs, AmountsAssumption
<1>2. Ten(n + 1) = 10 * Ten(n)
  BY <1>1, Tens, CappedNat
<1>3. Ten(n) <= 10 * Ten(n)
  BY <1>1
<1>4. Ten(n) < Modulus
  BY <1>1, <1>2, <1>3, AmountsAssumption
<1> QED
  BY <1>1, <1>2, <1>4, FitsIs

\* Smaller powers of ten fit, and all of them are positive.
LEMMA SmallerFits ==
    ASSUME NEW n \in Nat, PowerFits(n)
    PROVE  \A m \in 0 .. n : PowerFits(m) /\ Ten(m) \in Nat /\ Ten(m) >= 1 /\ Ten(m) <= Ten(n)
<1> DEFINE Good(m) == PowerFits(m) /\ Ten(m) \in Nat /\ Ten(m) <= Ten(n)
<1>1. \A m \in 0 .. n : Good(m)
  <2> DEFINE Bad == {k \in 0 .. n : ~Good(n - k)}
  <2>1. ASSUME Bad # {} PROVE FALSE
    <3>1. PICK k \in Bad : \A j \in Bad : k <= j
      BY <2>1, LeastNat, Bad \subseteq Nat
    <3>2. k # 0
      <4>1. Good(n)
        BY Tens, AmountsAssumption
      <4> QED
        BY <3>1, <4>1, n - 0 = n
    <3>3. k - 1 \in 0 .. n /\ k - 1 \notin Bad /\ n - k \in Nat /\ n - (k - 1) = (n - k) + 1
      BY <3>1, <3>2
    <3>4. Good((n - k) + 1)
      BY <3>3
    <3>5. PowerFits(n - k) /\ Ten((n - k) + 1) = 10 * Ten(n - k) /\ Ten(n - k) \in Nat
      BY <3>3, <3>4, TensGrow
    <3>6. Ten(n) \in Nat
      BY Tens, AmountsAssumption
    <3>7. Good(n - k)
      BY <3>4, <3>5, <3>6
    <3> QED
      BY <3>1, <3>7
  <2>2. ASSUME NEW m \in 0 .. n PROVE Good(m)
    <3>1. n - m \in 0 .. n /\ n - (n - m) = m
      OBVIOUS
    <3>2. n - m \notin Bad
      BY <2>1
    <3> QED
      BY <3>1, <3>2
  <2> QED
    BY <2>2
<1>2. \A m \in 0 .. n : Ten(m) >= 1
  <2> DEFINE Bad == {m \in 0 .. n : Ten(m) < 1}
  <2>1. ASSUME Bad # {} PROVE FALSE
    <3>1. PICK m \in Bad : \A j \in Bad : m <= j
      BY <2>1, LeastNat, Bad \subseteq Nat
    <3>2. m # 0
      BY <3>1, Tens
    <3>3. m - 1 \in 0 .. n /\ m - 1 \notin Bad /\ (m - 1) + 1 = m /\ m - 1 \in Nat
      BY <3>1, <3>2
    <3>4. PowerFits((m - 1) + 1)
      BY <1>1, <3>1, <3>3
    <3>5. Ten(m) = 10 * Ten(m - 1) /\ Ten(m - 1) \in Nat
      BY <3>3, <3>4, TensGrow
    <3>6. Ten(m - 1) >= 1
      BY <3>3, <3>5
    <3> QED
      BY <3>1, <3>5, <3>6
  <2> QED
    BY <1>1, <2>1
<1> QED
  BY <1>1, <1>2

\* Digits behind others shift them by a power of ten.
LEMMA ShiftedStep ==
    ASSUME NEW v \in Nat, NEW w \in Nat, NEW p \in Nat, NEW x \in Nat, p >= 1
    PROVE  Capped(10 * Capped(v * p + w) + x) = Capped(v * (10 * p) + Capped(10 * w + x))
<1>1. v * (10 * p) = 10 * (v * p) /\ v * p \in Nat
  OBVIOUS
<1> DEFINE u == v * p
<1>2. u \in Nat /\ v * (10 * p) = 10 * u
  BY <1>1
<1> HIDE DEF u
<1>3. Capped(10 * Capped(u + w) + x) = Capped(10 * u + Capped(10 * w + x))
  BY <1>2, AmountsAssumption DEF Capped
<1> QED
  BY <1>2, <1>3 DEF u

LEMMA ValueJoined ==
    \A n \in Nat : PowerFits(n) => \A a \in Seq(Nat), b \in Seq(Nat) :
        Len(b) = n => Value(a \o b) = Capped(Value(a) * Ten(n) + Value(b))
<1> DEFINE Good(n) == PowerFits(n) => \A a \in Seq(Nat), b \in Seq(Nat) :
                         Len(b) = n => Value(a \o b) = Capped(Value(a) * Ten(n) + Value(b))
<1> DEFINE Bad == {n \in Nat : ~Good(n)}
<1> SUFFICES ASSUME Bad # {} PROVE FALSE
  OBVIOUS
<1>1. PICK n \in Bad : \A m \in Bad : n <= m
  BY LeastNat, Bad \subseteq Nat
<1>2. n \in Nat /\ PowerFits(n)
  BY <1>1
<1>3. PICK a \in Seq(Nat), b \in Seq(Nat) : Len(b) = n /\ Value(a \o b) # Capped(Value(a) * Ten(n) + Value(b))
  BY <1>1
<1>4. Value(a) \in 0 .. Modulus
  BY ValueNat
<1>5. b # <<>>
  <2> SUFFICES ASSUME b = <<>> PROVE FALSE
    OBVIOUS
  <2>1. a \o b = a /\ n = 0
    BY <1>3, ConcatEmptySeq
  <2>2. Capped(Value(a) * 1 + 0) = Value(a)
    BY <1>4, AmountsAssumption DEF Capped
  <2> QED
    BY <1>3, <2>1, <2>2, Tens, ValueNone
<1>6. PICK s \in Seq(Nat), x \in Nat : b = Append(s, x)
  BY <1>5, SequenceEmptyOrAppend
<1>7. Len(s) = n - 1 /\ n - 1 \in Nat /\ n - 1 \notin Bad /\ (n - 1) + 1 = n
  <2>1. Len(s) \in Nat /\ Len(b) = Len(s) + 1
    BY <1>6, AppendProperties, LenProperties
  <2> HIDE DEF Bad
  <2> QED
    BY <1>1, <1>2, <1>3, <2>1
<1>8. PowerFits(n - 1) /\ Ten(n) = 10 * Ten(n - 1) /\ Ten(n - 1) \in Nat /\ Ten(n - 1) >= 1
  <2>1. PowerFits((n - 1) + 1) /\ n - 1 \in 0 .. n - 1
    BY <1>2, <1>7
  <2>2. PowerFits(n - 1) /\ Ten(n) = 10 * Ten(n - 1)
    BY <1>7, <2>1, TensGrow
  <2> QED
    BY <1>7, <2>1, <2>2, SmallerFits
<1>9. Value(a \o s) = Capped(Value(a) * Ten(n - 1) + Value(s))
  BY <1>7, <1>8
<1>10. Value(a \o b) = Capped(10 * Value(a \o s) + x)
  <2>1. a \o b = Append(a \o s, x) /\ a \o s \in Seq(Nat)
    BY <1>6, JoinedAppend, ConcatProperties
  <2> QED
    BY <2>1, ValueAppend
<1>11. Value(b) = Capped(10 * Value(s) + x)
  BY <1>6, ValueAppend
<1>12. Value(a) \in Nat /\ Value(s) \in Nat
  <2>1. Len(s) \in Nat
    BY LenProperties
  <2> QED
    BY <1>4, <2>1, ValueNat, AmountsAssumption
<1>13. Capped(10 * Capped(Value(a) * Ten(n - 1) + Value(s)) + x)
         = Capped(Value(a) * (10 * Ten(n - 1)) + Capped(10 * Value(s) + x))
  BY <1>8, <1>12, ShiftedStep
<1> QED
  BY <1>3, <1>8, <1>9, <1>10, <1>11, <1>13

\* The power a program computes is this one.
LEMMA PowerIs ==
    ASSUME NEW n \in Nat, NEW build
    PROVE  /\ PowerFits(n) => Pow(n, build) = Ok(Ten(n))
           /\ ~PowerFits(n) /\ build # "release" => Pow(n, build) = Fail("panic")
<1> DEFINE Def(f) == [i \in 0 .. n |-> IF i = 0 THEN 1 ELSE (10 * f[i - 1]) % Modulus]
<1> DEFINE w == CHOOSE f : f = Def(f)
<1>1. Pow(n, build) = IF PowerFits(n) \/ build = "release" THEN Ok(w[n]) ELSE Fail("panic")
  BY DEF Pow
<1>2. ASSUME PowerFits(n) PROVE w[n] = Ten(n)
  <2> DEFINE g == [i \in 0 .. n |-> Ten(i)]
  <2>1. ASSUME NEW i \in 0 .. n, i # 0 PROVE i - 1 \in 0 .. n /\ Ten(i) = (10 * Ten(i - 1)) % Modulus
    <3>1. i - 1 \in 0 .. n /\ i - 1 \in Nat /\ (i - 1) + 1 = i
      BY <2>1
    <3>2. PowerFits((i - 1) + 1)
      BY <1>2, <3>1, SmallerFits
    <3>3. Ten(i) = 10 * Ten(i - 1) /\ Ten(i - 1) \in Nat
      BY <3>1, <3>2, TensGrow
    <3>4. Ten(i) < Modulus
      BY <3>1, <3>2, FitsIs
    <3>5. \A k \in Nat : k < Modulus => k % Modulus = k
      BY AmountsAssumption
    <3> QED
      BY <3>1, <3>3, <3>4, <3>5
  <2>2. Ten(0) = 1
    BY Tens
  <2>3. g = Def(g)
    <3>1. ASSUME NEW i \in 0 .. n PROVE g[i] = Def(g)[i]
      <4>1. CASE i = 0
        BY <2>2, <4>1
      <4>2. CASE i # 0
        <5>1. i - 1 \in 0 .. n /\ Ten(i) = (10 * Ten(i - 1)) % Modulus
          BY <2>1, <4>2
        <5>2. g[i - 1] = Ten(i - 1) /\ g[i] = Ten(i)
          BY <5>1
        <5> HIDE DEF g
        <5> QED
          BY <4>2, <5>1, <5>2
      <4> QED
        BY <4>1, <4>2
    <3> QED
      BY <3>1
  <2>4. w = Def(w)
    <3> HIDE DEF Def, g
    <3> QED
      BY <2>3, Zenon
  <2>5. \A i \in 0 .. n : w[i] = Def(w)[i]
    BY <2>4
  <2> HIDE DEF w
  <2> DEFINE Bad == {i \in 0 .. n : w[i] # Ten(i)}
  <2>6. ASSUME Bad # {} PROVE FALSE
    <3>1. PICK i \in Bad : \A j \in Bad : i <= j
      BY <2>6, LeastNat, Bad \subseteq Nat
    <3>2. i # 0
      BY <2>2, <2>5, <3>1
    <3>3. i - 1 \in 0 .. n /\ i - 1 \notin Bad /\ i \in 0 .. n
      BY <3>1, <3>2
    <3>4. w[i] = (10 * w[i - 1]) % Modulus
      BY <2>5, <3>2, <3>3
    <3>5. Ten(i) = (10 * Ten(i - 1)) % Modulus
      BY <2>1, <3>2, <3>3
    <3> QED
      BY <3>1, <3>3, <3>4, <3>5
  <2> QED
    BY <2>6
<1> QED
  BY <1>1, <1>2

\* Digits only.
AllDigits(d) == \A i \in DOMAIN d : d[i] < 10

LEMMA DigitsJoined ==
    ASSUME NEW a \in Seq(Nat), NEW b \in Seq(Nat)
    PROVE  AllDigits(a \o b) <=> AllDigits(a) /\ AllDigits(b)
<1> DEFINE c == a \o b
<1>1. /\ c \in Seq(Nat) /\ Len(c) = Len(a) + Len(b) /\ Len(a) \in Nat /\ Len(b) \in Nat
      /\ DOMAIN a = 1 .. Len(a) /\ DOMAIN b = 1 .. Len(b) /\ DOMAIN c = 1 .. Len(a) + Len(b)
      /\ \A i \in 1 .. Len(a) + Len(b) : c[i] = IF i <= Len(a) THEN a[i] ELSE b[i - Len(a)]
  BY ConcatProperties, LenProperties
<1> HIDE DEF c
<1>2. ASSUME AllDigits(c) PROVE AllDigits(a) /\ AllDigits(b)
  <2>1. ASSUME NEW i \in DOMAIN a PROVE a[i] < 10
    <3>1. i \in DOMAIN c /\ c[i] = a[i]
      BY <1>1
    <3> QED
      BY <1>2, <3>1 DEF AllDigits
  <2>2. ASSUME NEW i \in DOMAIN b PROVE b[i] < 10
    <3>1. i + Len(a) \in DOMAIN c /\ c[i + Len(a)] = b[(i + Len(a)) - Len(a)] /\ (i + Len(a)) - Len(a) = i
      BY <1>1
    <3> QED
      BY <1>2, <3>1 DEF AllDigits
  <2> QED
    BY <2>1, <2>2 DEF AllDigits
<1>3. ASSUME AllDigits(a), AllDigits(b) PROVE AllDigits(c)
  <2>1. ASSUME NEW i \in DOMAIN c PROVE c[i] < 10
    <3>1. CASE i <= Len(a)
      <4>1. i \in DOMAIN a /\ c[i] = a[i]
        BY <1>1, <3>1
      <4> QED
        BY <1>3, <4>1 DEF AllDigits
    <3>2. CASE ~(i <= Len(a))
      <4>1. i - Len(a) \in DOMAIN b /\ c[i] = b[i - Len(a)]
        BY <1>1, <3>2
      <4> QED
        BY <1>3, <4>1 DEF AllDigits
    <3> QED
      BY <3>1, <3>2
  <2> QED
    BY <2>1 DEF AllDigits
<1> QED
  BY <1>2, <1>3 DEF c

LEMMA ZerosDigits == ASSUME NEW n \in Nat PROVE AllDigits(Zeros(n))
BY DEF AllDigits, Zeros

LEMMA NoDigits == AllDigits(<<>>)
<1>1. DOMAIN <<>> = {}
  BY EmptySeq
<1> QED
  BY <1>1 DEF AllDigits

\* What parse makes of digits.
LEMMA SignlessIs ==
    ASSUME NEW d \in Seq(Nat)
    PROVE  /\ Signless(d) \in Seq(Nat) /\ Len(Signless(d)) = Len(d) /\ Len(d) \in Nat
           /\ Signless(d) = <<>> <=> d = <<>>
           /\ AllDigits(d) => Signless(d) = d
           /\ \A i \in 1 .. Len(d) : d[i] # Plus => Signless(d)[i] = d[i]
<1>1. CASE ~(Len(d) > 1 /\ d[1] = Plus)
  <2>1. Signless(d) = d
    BY <1>1 DEF Signless
  <2> QED
    BY <2>1, LenProperties
<1>2. CASE Len(d) > 1 /\ d[1] = Plus
  <2> DEFINE e == [d EXCEPT ![1] = 0]
  <2>1. Signless(d) = e
    BY <1>2 DEF Signless
  <2>2. /\ e \in Seq(Nat) /\ Len(e) = Len(d) /\ Len(d) \in Nat
        /\ \A i \in 1 .. Len(d) : i # 1 => e[i] = d[i]
    BY <1>2, ExceptSeq, LenProperties
  <2>3. e # <<>> /\ d # <<>>
    BY <1>2, <2>2, EmptySeq
  <2>4. ~AllDigits(d)
    BY <1>2 DEF AllDigits, Plus
  <2> HIDE DEF e
  <2> QED
    BY <1>2, <2>1, <2>2, <2>3, <2>4
<1> QED
  BY <1>1, <1>2

LEMMA ParseIs ==
    ASSUME NEW d \in Seq(Nat)
    PROVE  /\ Parse(d).ok <=> Signless(d) # <<>> /\ AllDigits(Signless(d)) /\ Value(Signless(d)) < Modulus
           /\ Parse(d).ok => Parse(d) = Ok(Value(Signless(d)))
<1> DEFINE w == Signless(d)
<1>1. CASE w # <<>> /\ AllDigits(w) /\ Value(w) < Modulus
  <2>1. Parse(d) = Ok(Value(w))
    BY <1>1 DEF Parse, AllDigits
  <2> QED
    BY <1>1, <2>1, Outcomes, Zenon
<1>2. CASE ~(w # <<>> /\ AllDigits(w) /\ Value(w) < Modulus)
  <2>1. Parse(d) = Fail("InvalidNumber")
    BY <1>2 DEF Parse, AllDigits
  <2>2. ~Parse(d).ok
    BY <2>1, Outcomes, Zenon
  <2> QED
    BY <1>2, <2>2, Zenon
<1> QED
  BY <1>1, <1>2, Zenon

\* A number, or an error.
NatResult(r) == r.ok => r.value \in Nat

\* s is the sum of both halves of a number, if there are both and it fits.
SumOf(s, whole, n, frac) ==
    /\ s.ok <=> whole.ok /\ frac.ok /\ PowerFits(n) /\ whole.value * Ten(n) + frac.value < Modulus
    /\ s.ok => s.value = whole.value * Ten(n) + frac.value

LEMMA ScaledIs ==
    ASSUME NEW whole, NEW frac, NEW n \in Nat, NEW build, PowerFits(n) \/ build # "release",
           NatResult(whole), NatResult(frac)
    PROVE  SumOf(Scaled(whole, n, frac, build), whole, n, frac)
<1> DEFINE s == Scaled(whole, n, frac, build)
<1>1. CASE ~whole.ok
  <2>1. s = whole
    BY <1>1 DEF Scaled
  <2> QED
    BY <1>1, <2>1, Zenon DEF SumOf
<1>2. CASE whole.ok /\ ~frac.ok
  <2>1. s = frac
    BY <1>2 DEF Scaled
  <2> QED
    BY <1>2, <2>1, Zenon DEF SumOf
<1>3. CASE whole.ok /\ frac.ok /\ ~PowerFits(n)
  <2>1. Pow(n, build) = Fail("panic")
    BY <1>3, PowerIs
  <2>2. ~Pow(n, build).ok
    BY <2>1, Outcomes, Zenon
  <2>3. s = Pow(n, build)
    BY <1>3, <2>2 DEF Scaled
  <2>4. ~s.ok
    BY <2>2, <2>3, Zenon
  <2> QED
    BY <1>3, <2>4, Zenon DEF SumOf
<1>4. CASE whole.ok /\ frac.ok /\ PowerFits(n)
  <2>1. Pow(n, build) = Ok(Ten(n))
    BY <1>4, PowerIs
  <2>2. Pow(n, build).ok /\ Pow(n, build).value = Ten(n)
    BY <2>1, Outcomes, Zenon
  <2> DEFINE w == whole.value
  <2> DEFINE f == frac.value
  <2>3. Ten(n) \in Nat /\ w \in Nat /\ f \in Nat /\ w * Ten(n) \in Nat
    <3>1. Ten(n) \in Nat
      BY Tens, AmountsAssumption
    <3>2. w \in Nat /\ f \in Nat
      BY <1>4, Zenon DEF NatResult
    <3>3. \A x, y \in Nat : x * y \in Nat
      OBVIOUS
    <3> QED
      BY <3>1, <3>2, <3>3, Zenon
  <2> DEFINE shifted == checked_mul_u(w, Ten(n))
  <2>4. s = IF shifted.ok THEN checked_add_u(shifted.value, f) ELSE shifted
    BY <1>4, <2>2 DEF Scaled
  <2> HIDE DEF s
  <2>5. CASE w * Ten(n) < Modulus
    <3>1. shifted = Ok(w * Ten(n))
      BY <2>5 DEF checked_mul_u
    <3>2. shifted.ok /\ shifted.value = w * Ten(n)
      BY <3>1, Outcomes, Zenon
    <3>3. s = checked_add_u(w * Ten(n), f)
      BY <2>4, <3>2, Zenon
    <3>4. s = IF w * Ten(n) + f < Modulus THEN Ok(w * Ten(n) + f) ELSE Fail("Overflow")
      BY <3>3 DEF checked_add_u
    <3>5. (s.ok <=> w * Ten(n) + f < Modulus) /\ (s.ok => s.value = w * Ten(n) + f)
      <4>1. CASE w * Ten(n) + f < Modulus
        BY <3>4, <4>1, Outcomes, Zenon
      <4>2. CASE ~(w * Ten(n) + f < Modulus)
        BY <3>4, <4>2, Outcomes, Zenon
      <4> QED
        BY <4>1, <4>2, Zenon
    <3> QED
      BY <1>4, <3>5, Zenon DEF s, SumOf
  <2>6. CASE ~(w * Ten(n) < Modulus)
    <3>1. shifted = Fail("Overflow")
      BY <2>6 DEF checked_mul_u
    <3>2. ~shifted.ok
      BY <3>1, Outcomes, Zenon
    <3>3. ~s.ok
      BY <2>4, <3>2, Zenon
    <3>4. ~(w * Ten(n) + f < Modulus)
      <4> HIDE DEF w, f
      <4> DEFINE u == w * Ten(n)
      <4>1. u \in Nat /\ f \in Nat /\ ~(u < Modulus)
        BY <2>3, <2>6
      <4> HIDE DEF u
      <4>2. ~(u + f < Modulus)
        BY <4>1, AmountsAssumption
      <4> QED
        BY <4>2 DEF u
    <3> QED
      BY <3>3, <3>4, Zenon DEF s, SumOf
  <2> QED
    BY <2>5, <2>6, Zenon
<1> QED
  BY <1>1, <1>2, <1>3, <1>4, Zenon

\* Two products of numbers below the cap.
LEMMA CappedSum ==
    \A v, p, w \in Nat : p >= 1 =>
        /\ v * p + w < Modulus => v < Modulus /\ w < Modulus
        /\ Capped(v * p + w) < Modulus <=> v * p + w < Modulus
        /\ v * p + w < Modulus => Capped(v * p + w) = v * p + w
<1> SUFFICES ASSUME NEW v \in Nat, NEW p \in Nat, NEW w \in Nat, p >= 1
             PROVE  /\ v * p + w < Modulus => v < Modulus /\ w < Modulus
                    /\ Capped(v * p + w) < Modulus <=> v * p + w < Modulus
                    /\ v * p + w < Modulus => Capped(v * p + w) = v * p + w
  OBVIOUS
<1>1. v * p \in Nat /\ v * p >= v
  OBVIOUS
<1> DEFINE u == v * p
<1>2. u \in Nat /\ u >= v
  BY <1>1
<1> HIDE DEF u
<1>3. /\ u + w < Modulus => v < Modulus /\ w < Modulus
      /\ Capped(u + w) < Modulus <=> u + w < Modulus
      /\ u + w < Modulus => Capped(u + w) = u + w
  BY <1>2, AmountsAssumption DEF Capped
<1> QED
  BY <1>3 DEF u

\* The halves of a number, each read as its digits say, make the number of all
\* digits, or nothing.
LEMMA HalvesRead ==
    ASSUME NEW a \in Seq(Nat), NEW b \in Seq(Nat), NEW n \in Nat, Len(b) = n,
           NEW whole, NEW frac, NEW build, PowerFits(n) \/ build # "release",
           NEW A \in BOOLEAN, NEW B \in BOOLEAN,
           whole.ok <=> A /\ Value(a) < Modulus, whole.ok => whole.value = Value(a),
           frac.ok <=> B /\ Value(b) < Modulus, frac.ok => frac.value = Value(b)
    PROVE  /\ Scaled(whole, n, frac, build).ok <=> A /\ B /\ PowerFits(n) /\ Value(a \o b) < Modulus
           /\ Scaled(whole, n, frac, build).ok => Scaled(whole, n, frac, build).value = Value(a \o b)
<1> DEFINE s == Scaled(whole, n, frac, build)
<1>1. Value(a) \in Nat /\ Value(b) \in Nat
  <2>1. Len(a) \in Nat
    BY LenProperties
  <2> QED
    BY <2>1, ValueNat, AmountsAssumption
<1>2. SumOf(s, whole, n, frac)
  <2>1. NatResult(whole) /\ NatResult(frac)
    BY <1>1, Zenon DEF NatResult
  <2> QED
    BY <2>1, ScaledIs, Zenon
<1> HIDE DEF s
<1>3. ASSUME PowerFits(n)
      PROVE  /\ Value(a \o b) = Capped(Value(a) * Ten(n) + Value(b))
             /\ Value(a) * Ten(n) + Value(b) < Modulus => Value(a) < Modulus /\ Value(b) < Modulus
             /\ Capped(Value(a) * Ten(n) + Value(b)) < Modulus <=> Value(a) * Ten(n) + Value(b) < Modulus
             /\ Value(a) * Ten(n) + Value(b) < Modulus =>
                   Capped(Value(a) * Ten(n) + Value(b)) = Value(a) * Ten(n) + Value(b)
  <2>1. n \in 0 .. n
    OBVIOUS
  <2>2. Value(a \o b) = Capped(Value(a) * Ten(n) + Value(b)) /\ Ten(n) \in Nat /\ Ten(n) >= 1
    BY <1>3, <2>1, ValueJoined, SmallerFits
  <2> QED
    BY <1>1, <2>2, CappedSum, Zenon
<1>4. ASSUME s.ok PROVE A /\ B /\ PowerFits(n) /\ Value(a \o b) < Modulus /\ s.value = Value(a \o b)
  <2>1. whole.ok /\ frac.ok /\ PowerFits(n) /\ whole.value = Value(a) /\ frac.value = Value(b)
    BY <1>2, <1>4, Zenon DEF SumOf
  <2>2. Value(a) * Ten(n) + Value(b) < Modulus /\ s.value = Value(a) * Ten(n) + Value(b)
    BY <1>2, <1>4, <2>1, Zenon DEF SumOf
  <2>3. Capped(Value(a) * Ten(n) + Value(b)) = Value(a) * Ten(n) + Value(b)
    BY <1>3, <2>1, <2>2, Zenon
  <2> QED
    BY <1>3, <2>1, <2>2, <2>3
<1>5. ASSUME A, B, PowerFits(n), Value(a \o b) < Modulus PROVE s.ok
  <2>1. Value(a) * Ten(n) + Value(b) < Modulus
    <3>1. Capped(Value(a) * Ten(n) + Value(b)) < Modulus
      BY <1>3, <1>5
    <3> QED
      BY <1>3, <1>5, <3>1, Zenon
  <2>2. Value(a) < Modulus /\ Value(b) < Modulus
    BY <1>3, <1>5, <2>1, Zenon
  <2>3. whole.ok /\ frac.ok /\ whole.value = Value(a) /\ frac.value = Value(b)
    BY <1>5, <2>2
  <2> QED
    BY <1>2, <1>5, <2>1, <2>3, Zenon DEF SumOf
<1> QED
  BY <1>4, <1>5 DEF s

\* Digits with zeros behind them.
LEMMA Padded ==
    ASSUME NEW d \in Seq(Nat), NEW n \in Nat, Len(d) <= n
    PROVE  /\ PadRight(d, n) = d \o Zeros(n - Len(d)) /\ PadRight(d, n) \in Seq(Nat) /\ Len(PadRight(d, n)) = n
           /\ AllDigits(PadRight(d, n)) <=> AllDigits(d)
           /\ PadLeft(d, n) = Zeros(n - Len(d)) \o d /\ PadLeft(d, n) \in Seq(Nat) /\ Len(PadLeft(d, n)) = n
           /\ AllDigits(PadLeft(d, n)) <=> AllDigits(d)
<1>1. n - Len(d) \in Nat /\ Len(d) \in Nat
  BY LenProperties
<1>2. Zeros(n - Len(d)) \in Seq(Nat) /\ Len(Zeros(n - Len(d))) = n - Len(d) /\ AllDigits(Zeros(n - Len(d)))
  BY <1>1, ZerosAre, ZerosDigits
<1>3. PadRight(d, n) = d \o Zeros(n - Len(d)) /\ PadLeft(d, n) = Zeros(n - Len(d)) \o d
  BY DEF PadRight, PadLeft, Zeros
<1>4. /\ d \o Zeros(n - Len(d)) \in Seq(Nat) /\ Len(d \o Zeros(n - Len(d))) = Len(d) + (n - Len(d))
      /\ Zeros(n - Len(d)) \o d \in Seq(Nat) /\ Len(Zeros(n - Len(d)) \o d) = (n - Len(d)) + Len(d)
  BY <1>2, ConcatProperties
<1>5. /\ AllDigits(d \o Zeros(n - Len(d))) <=> AllDigits(d)
      /\ AllDigits(Zeros(n - Len(d)) \o d) <=> AllDigits(d)
  BY <1>2, DigitsJoined
<1> QED
  BY <1>1, <1>3, <1>4, <1>5

\* Without a fraction there are zeros behind the point.
LEMMA NoFraction ==
    ASSUME NEW n \in Nat
    PROVE  /\ PadRight(<<>>, n) \in Seq(Nat) /\ Len(PadRight(<<>>, n)) = n
           /\ AllDigits(PadRight(<<>>, n)) /\ Value(PadRight(<<>>, n)) = 0
<1>1. <<>> \in Seq(Nat) /\ Len(<<>>) <= n /\ n - Len(<<>>) = n
  OBVIOUS
<1>2. /\ PadRight(<<>>, n) = <<>> \o Zeros(n - Len(<<>>)) /\ PadRight(<<>>, n) \in Seq(Nat)
      /\ Len(PadRight(<<>>, n)) = n /\ (AllDigits(PadRight(<<>>, n)) <=> AllDigits(<<>>))
  BY <1>1, Padded, Zenon
<1>3. <<>> \o Zeros(n - Len(<<>>)) = Zeros(n)
  BY <1>1, ZerosAre, ConcatEmptySeq
<1>4. Value(Zeros(n)) = 0
  BY ZerosValue
<1> QED
  BY <1>2, <1>3, <1>4, NoDigits, Zenon

\* Texts a decimal is read from.
Decimals == [of : {"decimal"}, text : Seq(Seq(0 .. 11)), decimals : Nat, build : Builds]

LEMMA CharsAreNat == ASSUME NEW d \in Seq(0 .. 11) PROVE d \in Seq(Nat)
<1>1. 0 .. 11 \subseteq Nat
  OBVIOUS
<1> QED
  BY <1>1, SeqMonotonic

LEMMA DecimalsRead ==
    ASSUME input \in Decimals, Len(input.text) \in {1, 2}, PowerFits(input.decimals) \/ input.build = "debug"
    PROVE  LET text == input.text
               frac == IF Len(text) = 1 THEN <<>> ELSE text[2]
               digits == Signless(text[1]) \o Signless(PadRight(frac, input.decimals))
               wellFormed == /\ AllDigits(digits)
                             /\ Len(frac) <= input.decimals
                             /\ text[1] # <<>> \/ Len(text) = 2
                             /\ Len(text) = 2 => input.decimals > 0
               read == parse_decimal_to_raw(text, input.decimals, input.build)
           IN  /\ read.ok <=> wellFormed /\ PowerFits(input.decimals) /\ Value(digits) < Modulus
               /\ read.ok => read.value = Value(digits)
<1> DEFINE text == input.text
<1> DEFINE n == input.decimals
<1> DEFINE part == text[1]
<1> DEFINE a == Signless(part)
<1> DEFINE frac == IF Len(text) = 1 THEN <<>> ELSE text[2]
<1> DEFINE padded == PadRight(frac, n)
<1> DEFINE b == Signless(padded)
<1> DEFINE read == parse_decimal_to_raw(text, n, input.build)
<1> DEFINE whole == IF Len(text) = 2 /\ part = <<>> THEN Ok(0) ELSE Parse(part)
<1>1. /\ n \in Nat /\ input.build \in Builds /\ text \in Seq(Seq(0 .. 11)) /\ Len(text) \in {1, 2}
      /\ PowerFits(n) \/ input.build # "release"
  BY DEF Decimals
<1>2. part \in Seq(Nat) /\ a \in Seq(Nat) /\ (a = <<>> <=> part = <<>>)
  <2>1. part \in Seq(0 .. 11)
    BY <1>1, ElementOfSeq
  <2>2. part \in Seq(Nat)
    BY <2>1, CharsAreNat
  <2> QED
    BY <2>2, SignlessIs
<1>3. frac \in Seq(Nat) /\ Len(frac) \in Nat
  <2>1. CASE Len(text) = 1
    BY <2>1
  <2>2. CASE Len(text) = 2
    <3>1. text[2] \in Seq(0 .. 11)
      BY <1>1, <2>2, ElementOfSeq
    <3> QED
      BY <2>2, <3>1, CharsAreNat, LenProperties
  <2> QED
    BY <1>1, <2>1, <2>2
<1>4. /\ whole.ok <=> (AllDigits(a) /\ (a # <<>> \/ Len(text) = 2)) /\ Value(a) < Modulus
      /\ whole.ok => whole.value = Value(a)
  <2> HIDE DEF a
  <2>1. CASE Len(text) = 2 /\ a = <<>>
    <3>1. whole = Ok(0) /\ AllDigits(a) /\ Value(a) = 0 /\ 0 < Modulus
      BY <1>2, <2>1, NoDigits, ValueNone, AmountsAssumption
    <3> HIDE DEF whole
    <3> QED
      BY <2>1, <3>1, Outcomes, Zenon
  <2>2. CASE ~(Len(text) = 2 /\ a = <<>>)
    <3>1. whole = Parse(part)
      BY <1>2, <2>2
    <3>2. /\ Parse(part).ok <=> a # <<>> /\ AllDigits(a) /\ Value(a) < Modulus
          /\ Parse(part).ok => Parse(part).value = Value(a)
      BY <1>2, ParseIs, Outcomes, Zenon DEF a
    <3>3. a # <<>> => (a # <<>> \/ Len(text) = 2)
      OBVIOUS
    <3>4. (a # <<>> \/ Len(text) = 2) => a # <<>>
      BY <2>2
    <3> HIDE DEF whole
    <3> QED
      BY <3>1, <3>2, <3>3, <3>4, Zenon
  <2> QED
    BY <2>1, <2>2, Zenon
<1>5. CASE Len(text) = 1 /\ a = <<>>
  <2>1. text = <<<<>>>>
    BY <1>1, <1>2, <1>5
  <2>2. read = Fail("InvalidFormat")
    BY <2>1 DEF parse_decimal_to_raw
  <2>3. ~read.ok
    BY <2>2, Outcomes, Zenon
  <2>4. ~(part # <<>> \/ Len(text) = 2)
    BY <1>2, <1>5
  <2> HIDE DEF read
  <2> QED
    BY <2>3, <2>4, Zenon DEF read
<1>6. CASE Len(text) = 1 /\ a # <<>>
  <2>1. text # <<<<>>>> /\ part # <<>>
    BY <1>2, <1>6
  <2>2. read = Scaled(whole, n, Ok(0), input.build)
    BY <1>6, <2>1 DEF parse_decimal_to_raw
  <2>3. b \in Seq(Nat) /\ Len(b) = n /\ (AllDigits(a \o b) <=> AllDigits(a)) /\ Value(b) = 0 /\ Len(frac) <= n
    <3>1. frac = <<>> /\ Len(frac) <= n
      BY <1>1, <1>6
    <3>2. b \in Seq(Nat) /\ Len(b) = n /\ AllDigits(b) /\ Value(b) = 0
      <4>1. padded = PadRight(<<>>, n)
        BY <3>1
      <4>2. /\ padded \in Seq(Nat) /\ Len(padded) = n /\ AllDigits(padded) /\ Value(padded) = 0
        BY <1>1, <4>1, NoFraction, Zenon
      <4> HIDE DEF padded
      <4>3. b = padded
        BY <4>2, SignlessIs
      <4> QED
        BY <4>2, <4>3
    <3> HIDE DEF b
    <3> QED
      BY <1>1, <1>2, <3>1, <3>2, DigitsJoined
  <2>4. (Ok(0).ok <=> TRUE /\ Value(b) < Modulus) /\ Ok(0).value = Value(b)
    <3>1. 0 < Modulus
      BY AmountsAssumption
    <3> HIDE DEF b
    <3> QED
      BY <2>3, <3>1, Outcomes, Zenon
  <2> DEFINE A == AllDigits(a) /\ (a # <<>> \/ Len(text) = 2)
  <2> HIDE DEF A, read, whole, b
  <2>5. /\ read.ok <=> A /\ PowerFits(n) /\ Value(a \o b) < Modulus
        /\ read.ok => read.value = Value(a \o b)
    <3> DEFINE zero == Ok(0)
    <3> DEFINE B == TRUE
    <3>2. (zero.ok <=> B /\ Value(b) < Modulus) /\ (zero.ok => zero.value = Value(b)) /\ B \in BOOLEAN
      BY <2>4
    <3>3. read = Scaled(whole, n, zero, input.build)
      BY <2>2
    <3> HIDE DEF zero, B
    <3>4. /\ read.ok <=> A /\ B /\ PowerFits(n) /\ Value(a \o b) < Modulus
          /\ read.ok => read.value = Value(a \o b)
      <4>1. (whole.ok <=> A /\ Value(a) < Modulus) /\ A \in BOOLEAN
        BY <1>4 DEF A
      <4> QED
        BY <1>1, <1>2, <1>4, <2>3, <3>2, <3>3, <4>1, HalvesRead
    <3> QED
      BY <3>4, Zenon DEF B
  <2>6. Len(text) # 2 /\ part # <<>>
    BY <1>6, <2>1
  <2>7. A <=> AllDigits(a)
    BY <1>6, Zenon DEF A
  <2> QED
    BY <2>3, <2>5, <2>6, <2>7, Zenon DEF b, read
<1>7. CASE Len(text) = 2
  <2>1. frac = text[2] /\ text # <<<<>>>>
    BY <1>7
  <2>2. CASE ~(Len(frac) <= n)
    <3>1. read = (IF ~whole.ok THEN whole ELSE Fail("InvalidFormat"))
      <4>1. Len(text[2]) > n
        BY <1>1, <1>3, <2>1, <2>2
      <4> QED
        BY <1>7, <2>1, <4>1 DEF parse_decimal_to_raw
    <3> HIDE DEF read, whole
    <3>2. ~read.ok
      BY <3>1, Outcomes, Zenon
    <3> QED
      BY <2>2, <3>2, Zenon DEF read
  <2>3. CASE Len(frac) <= n
    <3>0. padded \in Seq(Nat) /\ Len(padded) = n
      BY <1>1, <1>3, <2>3, Padded
    <3> HIDE DEF padded
    <3>1. b \in Seq(Nat) /\ Len(b) = n
      BY <3>0, SignlessIs
    <3>2. read = Scaled(whole, n, Parse(padded), input.build)
      <4>1. ~(Len(text[2]) > n)
        BY <1>1, <1>3, <2>1, <2>3
      <4>2. ~whole.ok => Scaled(whole, n, Parse(padded), input.build) = whole
        BY DEF Scaled
      <4>3. read = IF ~whole.ok THEN whole ELSE Scaled(whole, n, Parse(padded), input.build)
        BY <1>7, <2>1, <4>1 DEF parse_decimal_to_raw, padded
      <4> HIDE DEF read, whole
      <4> QED
        BY <4>2, <4>3, Zenon
    <3> DEFINE A == AllDigits(a) /\ (a # <<>> \/ Len(text) = 2)
    <3> DEFINE B == b # <<>> /\ AllDigits(b)
    <3>3. /\ Parse(padded).ok <=> B /\ Value(b) < Modulus
          /\ Parse(padded).ok => Parse(padded).value = Value(b)
      BY <3>0, ParseIs, Outcomes, Zenon
    <3>4. (b # <<>>) <=> (n > 0)
      <4> HIDE DEF b
      <4> QED
        BY <1>1, <3>1, EmptySeq
    <3> HIDE DEF A, B, read, whole, b
    <3>5. A \in BOOLEAN /\ B \in BOOLEAN /\ (whole.ok <=> A /\ Value(a) < Modulus)
      BY <1>4 DEF A, B
    <3>6. /\ read.ok <=> A /\ B /\ PowerFits(n) /\ Value(a \o b) < Modulus
          /\ read.ok => read.value = Value(a \o b)
      BY <1>1, <1>2, <1>4, <3>1, <3>2, <3>3, <3>5, HalvesRead
    <3>7. AllDigits(a \o b) <=> AllDigits(a) /\ AllDigits(b)
      BY <1>2, <3>1, DigitsJoined
    <3> QED
      BY <1>7, <2>3, <3>4, <3>6, <3>7, Zenon DEF A, B, b, padded, read
  <2> QED
    BY <2>2, <2>3, Zenon
<1> QED
  BY <1>1, <1>5, <1>6, <1>7

\* Whatever was read from both halves is the number of all digits, when a
\* fraction that fits is that of its digits.
LEMMA HalvesSum ==
    ASSUME NEW a \in Seq(Nat), NEW b \in Seq(Nat), NEW n \in Nat, Len(b) = n,
           NEW whole, NEW frac, NEW build, PowerFits(n) \/ build # "release",
           whole.ok => whole.value = Value(a), NatResult(frac),
           frac.ok /\ PowerFits(n) /\ frac.value < Modulus => frac.value = Value(b),
           Scaled(whole, n, frac, build).ok
    PROVE  /\ whole.ok /\ frac.ok
           /\ Scaled(whole, n, frac, build).value = Value(a \o b) /\ Value(a \o b) < Modulus
<1> DEFINE s == Scaled(whole, n, frac, build)
<1>1. Value(a) \in Nat /\ Value(b) \in Nat
  <2>1. Len(a) \in Nat
    BY LenProperties
  <2> QED
    BY <2>1, ValueNat, AmountsAssumption
<1>2. SumOf(s, whole, n, frac)
  <2>1. NatResult(whole) /\ NatResult(frac)
    BY <1>1, Zenon DEF NatResult
  <2> QED
    BY <2>1, ScaledIs, Zenon
<1>3. s.ok
  OBVIOUS
<1> HIDE DEF s
<1>4. whole.ok /\ frac.ok /\ PowerFits(n) /\ whole.value = Value(a) /\ frac.value \in Nat
      /\ Value(a) * Ten(n) + frac.value < Modulus /\ s.value = Value(a) * Ten(n) + frac.value
  BY <1>2, <1>3, Zenon DEF SumOf, NatResult
<1>5. Value(a \o b) = Capped(Value(a) * Ten(n) + Value(b)) /\ Ten(n) \in Nat /\ Ten(n) >= 1
  <2>1. n \in 0 .. n
    OBVIOUS
  <2> QED
    BY <1>4, <2>1, ValueJoined, SmallerFits
<1>6. frac.value < Modulus
  BY <1>1, <1>4, <1>5, CappedSum, Zenon
<1>7. frac.value = Value(b)
  BY <1>4, <1>6, Zenon
<1>8. Value(a) * Ten(n) + Value(b) < Modulus /\ s.value = Value(a) * Ten(n) + Value(b)
  BY <1>4, <1>7, Zenon
<1>9. Capped(Value(a) * Ten(n) + Value(b)) = Value(a) * Ten(n) + Value(b)
  BY <1>1, <1>5, <1>8, CappedSum, ZenonT(60)
<1>10. s.value = Value(a \o b) /\ Value(a \o b) < Modulus
  BY <1>5, <1>8, <1>9
<1> QED
  BY <1>4, <1>10, Zenon DEF s

\* Texts an amount with a unit is read from.
UnitTexts == [of : {"units"}, text : Seq(Seq(0 .. 11)), unit : Units]

\* A whole number of a unit.
LEMMA WholeUnits ==
    ASSUME NEW part \in Seq(Nat), NEW n \in Nat, Scaled(Parse(part), n, Ok(0), "debug").ok
    PROVE  LET read == Scaled(Parse(part), n, Ok(0), "debug")
           IN  read.value = Value(Signless(part) \o PadRight(<<>>, n)) /\ read.value < Modulus
<1> DEFINE b == PadRight(<<>>, n)
<1> DEFINE a == Signless(part)
<1> DEFINE whole == Parse(part)
<1> DEFINE frac == Ok(0)
<1>1. b \in Seq(Nat) /\ Len(b) = n /\ Value(b) = 0
  BY NoFraction
<1>2. whole.ok => whole.value = Value(a)
  BY ParseIs, Outcomes, Zenon
<1>3. frac.ok /\ frac.value = 0
  BY Outcomes, Zenon
<1>4. Scaled(whole, n, frac, "debug").ok
  OBVIOUS
<1>9. a \in Seq(Nat)
  BY SignlessIs
<1> HIDE DEF a, b, whole, frac
<1>5. NatResult(frac)
  BY <1>3 DEF NatResult
<1>6. frac.ok /\ PowerFits(n) /\ frac.value < Modulus => frac.value = Value(b)
  BY <1>1, <1>3
<1>7. PowerFits(n) \/ "debug" # "release"
  OBVIOUS
<1>8. Scaled(whole, n, frac, "debug").value = Value(a \o b) /\ Value(a \o b) < Modulus
  BY <1>1, <1>2, <1>4, <1>5, <1>6, <1>7, <1>9, HalvesSum
<1> QED
  BY <1>8 DEF a, b, whole, frac

\* The digits of NEAR that are read, behind the point.
LEMMA KeptFraction ==
    ASSUME NEW part \in Seq(Nat), Len(part) <= NearDecimals, PowerFits(NearDecimals),
           NEW decimal, decimal = IF part = <<>> THEN Ok(0) ELSE Parse(part)
    PROVE  LET scale == Pow(NearDecimals - Len(part), "debug").value
               d == Signless(part)
           IN  decimal.ok => /\ decimal.value * scale \in Nat
                             /\ decimal.value * scale < Modulus => decimal.value * scale = Value(PadRight(d, NearDecimals))
<1> DEFINE d == Signless(part)
<1> DEFINE k == NearDecimals - Len(part)
<1> DEFINE scale == Pow(k, "debug").value
<1>1. k \in Nat /\ k \in 0 .. NearDecimals
  BY AmountsAssumption, LenProperties
<1>11. d \in Seq(Nat) /\ Len(d) = Len(part) /\ (d = <<>> <=> part = <<>>)
  BY SignlessIs
<1> HIDE DEF d, k
<1>2. PowerFits(k) /\ Ten(k) \in Nat /\ Ten(k) >= 1
  BY <1>1, SmallerFits, AmountsAssumption
<1>3. scale = Ten(k)
  <2>1. Pow(k, "debug") = Ok(Ten(k))
    BY <1>1, <1>2, PowerIs
  <2> QED
    BY <2>1, Outcomes, Zenon
<1>4. decimal.ok => decimal.value = Value(d)
  <2>1. CASE d = <<>>
    <3>1. decimal = Ok(0) /\ Value(d) = 0
      BY <1>11, <2>1, ValueNone
    <3> QED
      BY <3>1, Outcomes, Zenon
  <2>2. CASE d # <<>>
    <3>1. decimal = Parse(part)
      BY <1>11, <2>2
    <3> QED
      BY <3>1, ParseIs, Outcomes, Zenon DEF d
  <2> QED
    BY <2>1, <2>2
<1>5. Value(d) \in Nat
  <2>1. Len(d) \in Nat
    BY <1>11, LenProperties
  <2> QED
    BY <1>11, <2>1, ValueNat, AmountsAssumption
<1>6. Value(PadRight(d, NearDecimals)) = Capped(Value(d) * Ten(k) + 0)
  <2>1. PadRight(d, NearDecimals) = d \o Zeros(k)
    <3>1. k = NearDecimals - Len(d) /\ Len(d) <= NearDecimals
      BY <1>11 DEF k
    <3> QED
      BY <1>11, <3>1, Padded, AmountsAssumption
  <2>2. Zeros(k) \in Seq(Nat) /\ Len(Zeros(k)) = k /\ Value(Zeros(k)) = 0
    BY <1>1, ZerosAre, ZerosValue
  <2>3. Value(d \o Zeros(k)) = Capped(Value(d) * Ten(k) + Value(Zeros(k)))
    BY <1>1, <1>2, <1>11, <2>2, ValueJoined, Zenon
  <2> QED
    BY <2>1, <2>2, <2>3
<1>7. \A v, p \in Nat : v * p \in Nat /\ v * p + 0 = v * p
  OBVIOUS
<1>8. Value(d) * Ten(k) \in Nat /\ Value(d) * Ten(k) + 0 = Value(d) * Ten(k)
  BY <1>2, <1>5, <1>7, Zenon
<1>9. Value(d) * Ten(k) < Modulus => Capped(Value(d) * Ten(k)) = Value(d) * Ten(k)
  BY DEF Capped
<1>10. decimal.ok => /\ decimal.value * scale = Value(d) * Ten(k)
                     /\ decimal.value * scale \in Nat
                     /\ decimal.value * scale < Modulus => decimal.value * scale = Value(PadRight(d, NearDecimals))
  <2> HIDE DEF scale
  <2> QED
    BY <1>3, <1>4, <1>6, <1>8, <1>9, Zenon
<1> QED
  BY <1>10, Zenon DEF d, k

\* At most n digits of a text.
Clipped(d, n) == SubSeq(d, 1, IF Len(d) > n THEN n ELSE Len(d))

LEMMA ClippedIs ==
    ASSUME NEW d \in Seq(Nat), NEW n \in Nat
    PROVE  /\ Clipped(d, n) \in Seq(Nat) /\ Len(Clipped(d, n)) = (IF Len(d) > n THEN n ELSE Len(d))
           /\ Len(Clipped(d, n)) <= n
           /\ \A i \in 1 .. Len(Clipped(d, n)) : Clipped(d, n)[i] = d[i]
<1> DEFINE m == IF Len(d) > n THEN n ELSE Len(d)
<1>1. m \in Nat /\ m <= Len(d) /\ m <= n /\ Len(d) \in Nat
  BY LenProperties
<1> HIDE DEF m
<1>2. /\ SubSeq(d, 1, m) \in Seq(Nat) /\ Len(SubSeq(d, 1, m)) = m
      /\ \A i \in 1 .. m : SubSeq(d, 1, m)[i] = d[i]
  BY <1>1
<1> QED
  BY <1>1, <1>2 DEF Clipped, m

\* A second point behind digits d is among the digits that are read, unless
\* enough digits stand before it.
CutAtPoint(d, w, n) ==
    /\ Len(d) < n => Clipped(w, n) # <<>> /\ ~AllDigits(Signless(Clipped(w, n)))
    /\ Len(d) >= n => Clipped(w, n) = Clipped(d, n)

LEMMA SecondPoint ==
    \A d, e \in Seq(Nat), n \in Nat : CutAtPoint(d, d \o << 10 >> \o e, n)
<1> SUFFICES ASSUME NEW d \in Seq(Nat), NEW e \in Seq(Nat), NEW n \in Nat, NEW w, w = d \o << 10 >> \o e
             PROVE  CutAtPoint(d, w, n)
  OBVIOUS
<1> DEFINE f == Append(d, 10)
<1>1. f = d \o << 10 >>
  BY AppendIsConcat
<1>2. /\ f \in Seq(Nat) /\ Len(f) = Len(d) + 1 /\ Len(d) \in Nat /\ Len(e) \in Nat
      /\ f[Len(d) + 1] = 10 /\ \A i \in 1 .. Len(d) : f[i] = d[i]
  BY AppendProperties, LenProperties
<1> HIDE DEF f
<1>3. w = f \o e
  BY <1>1
<1>4. /\ w \in Seq(Nat) /\ Len(w) = Len(f) + Len(e)
      /\ \A i \in 1 .. Len(f) + Len(e) : w[i] = IF i <= Len(f) THEN f[i] ELSE e[i - Len(f)]
  BY <1>2, <1>3, ConcatProperties
<1>5. Len(w) >= Len(d) + 1 /\ Len(w) \in Nat /\ w[Len(d) + 1] = 10 /\ \A i \in 1 .. Len(d) : w[i] = d[i]
  BY <1>2, <1>4
<1> DEFINE c == Clipped(w, n)
<1> DEFINE k == Clipped(d, n)
<1>6. /\ c \in Seq(Nat) /\ Len(c) = (IF Len(w) > n THEN n ELSE Len(w))
      /\ \A i \in 1 .. Len(c) : c[i] = w[i]
  BY <1>4, ClippedIs
<1>7. /\ k \in Seq(Nat) /\ Len(k) = (IF Len(d) > n THEN n ELSE Len(d))
      /\ \A i \in 1 .. Len(k) : k[i] = d[i]
  BY ClippedIs
<1> HIDE DEF c, k
<1>8. ASSUME Len(d) < n PROVE c # <<>> /\ ~AllDigits(Signless(c))
  <2>1. Len(d) + 1 \in 1 .. Len(c)
    BY <1>2, <1>5, <1>6, <1>8
  <2>2. Len(d) + 1 \in DOMAIN c /\ c[Len(d) + 1] = 10
    BY <1>5, <1>6, <2>1, LenProperties
  <2>3. DOMAIN <<>> = {}
    BY EmptySeq
  <2>4. /\ Signless(c) \in Seq(Nat) /\ Len(Signless(c)) = Len(c)
        /\ c[Len(d) + 1] # Plus => Signless(c)[Len(d) + 1] = c[Len(d) + 1]
    BY <1>6, <2>1, SignlessIs
  <2>5. Len(d) + 1 \in DOMAIN Signless(c) /\ Signless(c)[Len(d) + 1] = 10
    BY <2>1, <2>2, <2>4, LenProperties DEF Plus
  <2> QED
    BY <2>2, <2>3, <2>5 DEF AllDigits
<1>9. ASSUME Len(d) >= n PROVE c = k
  <2>1. Len(c) = n /\ Len(k) = n
    BY <1>2, <1>5, <1>6, <1>7, <1>9
  <2>2. ASSUME NEW i \in 1 .. n PROVE c[i] = k[i]
    <3>1. i \in 1 .. Len(d)
      BY <1>2, <1>9
    <3> QED
      BY <1>5, <1>6, <1>7, <2>1, <3>1
  <2> QED
    BY <1>6, <1>7, <2>1, <2>2, SeqEqual
<1> QED
  BY <1>8, <1>9 DEF c, k, CutAtPoint

\* NEAR with at most one point.
LEMMA NearRead ==
    ASSUME NEW text \in Seq(Seq(0 .. 11)), Len(text) \in 1 .. 3, parse_near_decimal(text).ok
    PROVE  LET frac == IF Len(text) = 1 THEN <<>> ELSE text[2]
               kept == SubSeq(frac, 1, IF Len(frac) > NearDecimals THEN NearDecimals ELSE Len(frac))
               read == parse_near_decimal(text)
           IN  read.value = Value(Signless(text[1]) \o PadRight(Signless(kept), NearDecimals)) /\ read.value < Modulus
<1> DEFINE part == text[1]
<1> DEFINE a == Signless(part)
<1> DEFINE frac == IF Len(text) = 1 THEN <<>> ELSE text[2]
<1> DEFINE kept == Clipped(frac, NearDecimals)
<1> DEFINE after == IF Len(text) = 1 THEN <<>> ELSE AfterPoint(text)
<1> DEFINE digits == Clipped(after, NearDecimals)
<1> DEFINE decimal == IF digits = <<>> THEN Ok(0) ELSE Parse(digits)
<1> DEFINE whole == IF Len(text) > 1 /\ part = <<>> THEN Ok(0) ELSE Parse(part)
<1> DEFINE scale == Pow(NearDecimals - Len(digits), "debug").value
<1> DEFINE shown == IF decimal.ok THEN Ok(decimal.value * scale) ELSE decimal
<1> DEFINE read == Scaled(whole, NearDecimals, shown, "debug")
<1>1. read.ok /\ read = parse_near_decimal(text)
  BY DEF parse_near_decimal, Clipped
<1>2. part \in Seq(Nat) /\ frac \in Seq(Nat) /\ after \in Seq(Nat)
  <2>1. \A i \in 1 .. Len(text) : text[i] \in Seq(Nat)
    BY ElementOfSeq, CharsAreNat
  <2>2. CASE Len(text) = 1
    BY <2>1, <2>2
  <2>3. CASE Len(text) = 2
    BY <2>1, <2>3 DEF AfterPoint
  <2>4. CASE Len(text) = 3
    <3>1. text[2] \in Seq(Nat) /\ text[3] \in Seq(Nat) /\ << 10 >> \in Seq(Nat) /\ part \in Seq(Nat) /\ frac = text[2]
      BY <2>1, <2>4
    <3>2. text[2] \o << 10 >> \in Seq(Nat)
      BY <3>1, ConcatProperties
    <3>3. text[2] \o << 10 >> \o text[3] \in Seq(Nat)
      BY <3>1, <3>2, ConcatProperties
    <3>4. after = text[2] \o << 10 >> \o text[3]
      BY <2>4 DEF AfterPoint
    <3> QED
      BY <3>1, <3>3, <3>4
  <2> QED
    BY <2>2, <2>3, <2>4
<1>16. a \in Seq(Nat) /\ (a = <<>> <=> part = <<>>)
  BY <1>2, SignlessIs
<1>3. NearDecimals \in Nat
  BY AmountsAssumption
<1>4. digits \in Seq(Nat) /\ Len(digits) <= NearDecimals
  BY <1>2, <1>3, ClippedIs
<1> DEFINE b == PadRight(Signless(digits), NearDecimals)
<1>6. b \in Seq(Nat) /\ Len(b) = NearDecimals
  <2> HIDE DEF digits
  <2>1. Signless(digits) \in Seq(Nat) /\ Len(Signless(digits)) <= NearDecimals
    BY <1>4, SignlessIs
  <2> QED
    BY <1>3, <2>1, Padded
<1>7. whole.ok => whole.value = Value(a)
  <2>1. CASE Len(text) > 1 /\ part = <<>>
    <3>1. whole = Ok(0) /\ Value(a) = 0
      <4>1. a = <<>>
        BY <1>16, <2>1
      <4> HIDE DEF a
      <4> QED
        BY <2>1, <4>1, ValueNone
    <3> QED
      BY <3>1, Outcomes, Zenon
  <2>2. CASE ~(Len(text) > 1 /\ part = <<>>)
    <3>1. whole = Parse(part)
      BY <2>2
    <3> HIDE DEF whole, part
    <3> QED
      BY <1>2, <3>1, ParseIs, Outcomes, Zenon
  <2> QED
    BY <2>1, <2>2
<1>8. PowerFits(NearDecimals) =>
         (decimal.ok => /\ decimal.value * scale \in Nat
                        /\ decimal.value * scale < Modulus => decimal.value * scale = Value(b))
  <2> HIDE DEF digits
  <2> QED
    BY <1>4, KeptFraction
<1>9. shown.ok => decimal.ok /\ shown.value = decimal.value * scale
  <2> HIDE DEF decimal, scale
  <2> QED
    BY Outcomes, Zenon
<1> HIDE DEF digits, decimal, whole, scale, shown, part, a, b, read
<1>10. PowerFits(NearDecimals)
  <2>1. ASSUME ~PowerFits(NearDecimals) PROVE ~read.ok
    <3>1. Pow(NearDecimals, "debug") = Fail("panic")
      BY <1>3, <2>1, PowerIs
    <3>2. ~Pow(NearDecimals, "debug").ok
      BY <3>1, Outcomes, Zenon
    <3>3. CASE ~whole.ok
      BY <3>3 DEF Scaled, read
    <3>4. CASE whole.ok /\ ~shown.ok
      BY <3>4 DEF Scaled, read
    <3>5. CASE whole.ok /\ shown.ok
      <4>1. read = Pow(NearDecimals, "debug")
        BY <3>2, <3>5 DEF Scaled, read
      <4> QED
        BY <3>2, <4>1, Zenon
    <3> QED
      BY <3>3, <3>4, <3>5, Zenon
  <2> QED
    BY <1>1, <2>1, Zenon
<1>11. NatResult(shown)
  BY <1>8, <1>9, <1>10, Zenon DEF NatResult
<1>12. shown.ok /\ PowerFits(NearDecimals) /\ shown.value < Modulus => shown.value = Value(b)
  BY <1>8, <1>9, Zenon
<1>13. whole.ok /\ shown.ok /\ read.value = Value(a \o b) /\ Value(a \o b) < Modulus
  <2>1. PowerFits(NearDecimals) \/ "debug" # "release"
    BY <1>10
  <2> QED
    BY <1>1, <1>3, <1>6, <1>7, <1>11, <1>12, <1>16, <2>1, HalvesSum DEF read
<1>14. digits = kept
  <2>1. CASE Len(text) \in {1, 2}
    <3>1. after = frac
      BY <2>1 DEF AfterPoint
    <3> QED
      BY <3>1 DEF digits
  <2>2. CASE Len(text) = 3
    <3>1. text[3] \in Seq(Nat) /\ frac = text[2]
      <4>1. text[3] \in Seq(0 .. 11)
        BY <2>2, ElementOfSeq
      <4> QED
        BY <2>2, <4>1, CharsAreNat
    <3>2. after = frac \o << 10 >> \o text[3]
      BY <2>2 DEF AfterPoint
    <3> HIDE DEF frac, after
    <3>3. /\ Len(frac) < NearDecimals => digits # <<>> /\ ~AllDigits(Signless(digits))
          /\ Len(frac) >= NearDecimals => digits = kept
      <4>1. CutAtPoint(frac, after, NearDecimals)
        BY <1>2, <1>3, <3>1, <3>2, SecondPoint, Zenon
      <4> QED
        BY <4>1, Zenon DEF CutAtPoint, digits
    <3>4. CASE Len(frac) < NearDecimals
      <4>1. decimal = Parse(digits)
        BY <3>3, <3>4 DEF decimal
      <4>2. ~decimal.ok
        BY <1>4, <3>3, <3>4, <4>1, ParseIs, Zenon
      <4> QED
        BY <1>9, <1>13, <4>2, Zenon
    <3>5. CASE ~(Len(frac) < NearDecimals)
      <4>1. Len(frac) >= NearDecimals
        BY <1>2, <1>3, <3>5, LenProperties
      <4> QED
        BY <3>3, <4>1
    <3> QED
      BY <3>4, <3>5
  <2> QED
    BY <2>1, <2>2
<1>15. read.value = Value(a \o PadRight(Signless(kept), NearDecimals)) /\ read.value < Modulus
  BY <1>13, <1>14 DEF b
<1> QED
  BY <1>1, <1>15 DEF a, part, Clipped

LEMMA UnitsRead == ASSUME input \in UnitTexts, Len(input.text) \in 1 .. 3 PROVE UnitsAgree
<1> DEFINE text == input.text
<1> DEFINE unit == input.unit
<1> DEFINE read == parse_amount(text, unit)
<1> DEFINE decimals == IF unit = "NEAR" THEN NearDecimals ELSE UnitDecimals[unit]
<1> DEFINE frac == IF Len(text) = 1 THEN <<>> ELSE text[2]
<1> DEFINE kept == SubSeq(frac, 1, IF Len(frac) > decimals THEN decimals ELSE Len(frac))
<1> DEFINE good == read.ok => /\ unit # "no unit" /\ (Len(text) > 1 => unit = "NEAR")
                              /\ read.value = Value(Signless(text[1]) \o PadRight(Signless(kept), decimals)) /\ read.value < Modulus
<1>1. text \in Seq(Seq(0 .. 11)) /\ unit \in Units
  BY DEF UnitTexts
<1>2. CASE unit = "no unit"
  <2>1. read = Fail("AmbiguousAmount")
    BY <1>2 DEF parse_amount
  <2>2. ~read.ok
    BY <2>1, Outcomes, Zenon
  <2> HIDE DEF read
  <2> QED
    BY <2>2 DEF UnitsAgree, read
<1>3. CASE unit = "NEAR"
  <2>1. read = parse_near_decimal(text) /\ decimals = NearDecimals
    BY <1>3 DEF parse_amount
  <2> HIDE DEF read
  <2>2. read.ok => read.value = Value(Signless(text[1]) \o PadRight(Signless(kept), NearDecimals)) /\ read.value < Modulus
    BY <1>1, <2>1, NearRead
  <2> QED
    BY <1>3, <2>1, <2>2 DEF UnitsAgree, read
<1>4. CASE unit \notin {"NEAR", "no unit"}
  <2>1. decimals = UnitDecimals[unit] /\ decimals \in Nat
    <3>1. unit \in {"mNEAR", "yocto", "Tgas", "Ggas", "gas"}
      BY <1>1, <1>4 DEF Units, UnitDecimals
    <3>2. UnitDecimals[unit] \in {NearDecimals, MilliDecimals, 0}
      BY <3>1 DEF UnitDecimals
    <3>3. NearDecimals \in Nat /\ MilliDecimals \in Nat /\ 0 \in Nat
      BY AmountsAssumption
    <3>4. UnitDecimals[unit] \in Nat
      BY <3>2, <3>3, Zenon
    <3>5. decimals = UnitDecimals[unit]
      BY <1>4
    <3> QED
      BY <3>4, <3>5, Zenon
  <2>2. CASE Len(text) = 1
    <3>1. read = Scaled(Parse(text[1]), UnitDecimals[unit], Ok(0), "debug")
      BY <1>4, <2>2 DEF parse_amount
    <3>2. text[1] \in Seq(Nat)
      BY <1>1, <2>2, ElementOfSeq, CharsAreNat
    <3>3. Signless(kept) = <<>>
      <4>1. kept = <<>>
        BY <2>1, <2>2
      <4>2. Signless(<<>>) = <<>>
        BY EmptySeq DEF Signless
      <4> QED
        BY <4>1, <4>2
    <3> HIDE DEF read
    <3>4. read.ok => read.value = Value(Signless(text[1]) \o PadRight(<<>>, UnitDecimals[unit])) /\ read.value < Modulus
      BY <2>1, <3>1, <3>2, WholeUnits
    <3> HIDE DEF kept, decimals
    <3>5. read.ok => read.value = Value(Signless(text[1]) \o PadRight(Signless(kept), decimals)) /\ read.value < Modulus
      BY <2>1, <3>3, <3>4, Zenon
    <3>6. unit # "no unit" /\ ~(Len(text) > 1)
      <4>1. unit # "no unit"
        BY <1>4
      <4>2. ~(Len(text) > 1)
        BY <2>2
      <4> QED
        BY <4>1, <4>2
    <3>7. good
      BY <3>5, <3>6, Zenon
    <3> QED
      BY <3>7, Zenon DEF UnitsAgree, read, kept, decimals
  <2>3. CASE Len(text) # 1
    <3>1. read = Fail("InvalidNumber")
      BY <1>4, <2>3 DEF parse_amount
    <3>2. ~read.ok
      BY <3>1, Outcomes, Zenon
    <3> HIDE DEF read
    <3> QED
      BY <3>2 DEF UnitsAgree, read
  <2> QED
    BY <2>2, <2>3
<1> QED
  BY <1>2, <1>3, <1>4

\* Amounts that are added and multiplied.
SomeAmounts == [raw : 0 .. Modulus - 1, decimals : Nat, symbol : {"S", "T"}]
Sums == [of : {"sum"}, a : SomeAmounts, b : SomeAmounts]

LEMMA AmountsAdded == ASSUME input \in Sums PROVE ArithmeticStaysInToken
<1> DEFINE a == input.a
<1> DEFINE b == input.b
<1>1. a \in SomeAmounts /\ b \in SomeAmounts
  BY DEF Sums
<1>2. /\ a.raw \in Nat /\ b.raw \in Nat /\ a.raw < Modulus /\ b.raw < Modulus
      /\ [a EXCEPT !.raw = a.raw] = a
      /\ SameToken(a, b) => [a EXCEPT !.raw = 0] = [b EXCEPT !.raw = 0]
  BY <1>1, AmountsAssumption DEF SomeAmounts, SameToken
<1>3. \A n : /\ [a EXCEPT !.raw = n].raw = n
             /\ [[a EXCEPT !.raw = n] EXCEPT !.raw = a.raw] = a
             /\ SameToken([a EXCEPT !.raw = n], b) <=> SameToken(a, b)
  BY <1>1 DEF SomeAmounts, SameToken
<1> HIDE DEF a, b
<1> DEFINE sum == checked_add(a, b)
<1> DEFINE difference == checked_sub(a, b)
<1> DEFINE product == checked_mul(a, b.raw)
<1>4. ~None.ok
  BY Outcomes, Zenon DEF None
<1>5. ASSUME saturating_add(a, b).ok \/ saturating_sub(a, b).ok \/ sum.ok
      PROVE  [a EXCEPT !.raw = 0] = [b EXCEPT !.raw = 0]
  <2>1. ~SameToken(a, b) => saturating_add(a, b) = None /\ saturating_sub(a, b) = None /\ sum = None
    BY DEF saturating_add, saturating_sub, checked_add
  <2>2. SameToken(a, b)
    BY <1>4, <1>5, <2>1, Zenon
  <2> QED
    BY <1>2, <2>2
<1>6. ASSUME sum.ok PROVE checked_sub(sum.value, b) = Ok(a) /\ saturating_add(a, b) = sum
  <2>1. SameToken(a, b) /\ a.raw + b.raw < Modulus
    <3>1. ~(SameToken(a, b) /\ a.raw + b.raw < Modulus) => sum = None
      BY DEF checked_add
    <3> QED
      BY <1>4, <1>6, <3>1, Zenon
  <2> DEFINE n == a.raw + b.raw
  <2> DEFINE c == [a EXCEPT !.raw = n]
  <2>2. sum = Ok(c) /\ saturating_add(a, b) = Ok(c)
    BY <2>1 DEF checked_add, saturating_add, With
  <2>3. sum.value = c
    BY <2>2, Outcomes, Zenon
  <2>4. n \in Nat /\ n >= b.raw /\ n - b.raw = a.raw
    BY <1>2
  <2>5. c.raw = n /\ SameToken(c, b) /\ [c EXCEPT !.raw = a.raw] = a
    BY <1>3, <2>1
  <2> HIDE DEF n, c
  <2>6. checked_sub(c, b) = Ok(a)
    BY <2>4, <2>5 DEF checked_sub, With
  <2> QED
    BY <2>2, <2>3, <2>6
<1>7. ASSUME difference.ok PROVE checked_add(difference.value, b) = Ok(a)
  <2>1. SameToken(a, b) /\ a.raw >= b.raw
    <3>1. ~(SameToken(a, b) /\ a.raw >= b.raw) => difference = None
      BY DEF checked_sub
    <3> QED
      BY <1>4, <1>7, <3>1, Zenon
  <2> DEFINE n == a.raw - b.raw
  <2> DEFINE c == [a EXCEPT !.raw = n]
  <2>2. difference = Ok(c)
    BY <2>1 DEF checked_sub, With
  <2>3. difference.value = c
    BY <2>2, Outcomes, Zenon
  <2>4. n \in Nat /\ n + b.raw = a.raw /\ n + b.raw < Modulus
    BY <1>2, <2>1
  <2>5. c.raw = n /\ SameToken(c, b) /\ [c EXCEPT !.raw = a.raw] = a
    BY <1>3, <2>1
  <2> HIDE DEF n, c
  <2>6. checked_add(c, b) = Ok(a)
    BY <2>4, <2>5 DEF checked_add, With
  <2> QED
    BY <2>3, <2>6
<1>8. ASSUME product.ok, b.raw # 0 PROVE checked_div(product.value, b.raw) = Ok(a)
  <2>1. a.raw * b.raw < Modulus
    <3>1. ~(a.raw * b.raw < Modulus) => product = None
      BY DEF checked_mul
    <3> QED
      BY <1>4, <1>8, <3>1, Zenon
  <2> DEFINE n == a.raw * b.raw
  <2> DEFINE c == [a EXCEPT !.raw = n]
  <2>2. product = Ok(c)
    BY <2>1 DEF checked_mul, With
  <2>3. product.value = c
    BY <2>2, Outcomes, Zenon
  <2>4. n \div b.raw = a.raw
    <3>1. ASSUME NEW x \in Nat, NEW y \in Nat, y > 0 PROVE (x * y) \div y = x
      BY <3>1
    <3>2. b.raw > 0
      BY <1>2, <1>8
    <3> QED
      BY <1>2, <3>1, <3>2
  <2>5. c.raw = n /\ [c EXCEPT !.raw = a.raw] = a
    BY <1>3
  <2> HIDE DEF n, c
  <2>6. checked_div(c, b.raw) = Ok(a)
    BY <1>8, <2>4, <2>5 DEF checked_div, With
  <2> QED
    BY <2>3, <2>6
<1> QED
  BY <1>5, <1>6, <1>7, <1>8 DEF ArithmeticStaysInToken, a, b

\* f is the digits of each number up to the x-th.
Spells(x, f) ==
    /\ DOMAIN f = 0 .. x
    /\ \A n \in 0 .. x : f[n] = IF n < 10 THEN <<n>> ELSE f[n \div 10] \o <<n % 10>>

LEMMA Tenth ==
    ASSUME NEW n \in Nat, n >= 10
    PROVE  /\ n \div 10 \in Nat /\ n \div 10 < n /\ n \div 10 >= 1 /\ n % 10 \in 0 .. 9
           /\ n = 10 * (n \div 10) + (n % 10)
OBVIOUS

\* The recursion of DigitsOf can be carried through any number.
LEMMA SpellsExist == \A x \in Nat : \E f : Spells(x, f)
<1> DEFINE Bad == {x \in Nat : ~ \E f : Spells(x, f)}
<1> SUFFICES ASSUME Bad # {} PROVE FALSE
  OBVIOUS
<1>1. PICK x \in Bad : \A m \in Bad : x <= m
  BY LeastNat, Bad \subseteq Nat
<1>2. x # 0
  <2>1. Spells(0, [i \in 0 .. 0 |-> <<0>>])
    <3> DEFINE f == [i \in 0 .. 0 |-> <<0>>]
    <3>1. DOMAIN f = 0 .. 0 /\ \A n \in 0 .. 0 : f[n] = <<n>> /\ n < 10
      OBVIOUS
    <3> HIDE DEF f
    <3>2. Spells(0, f)
      BY <3>1 DEF Spells
    <3> QED
      BY <3>2 DEF f
  <2> QED
    BY <1>1, <2>1
<1>3. x - 1 \in Nat /\ x - 1 \notin Bad
  BY <1>1, <1>2
<1>4. PICK f : Spells(x - 1, f)
  BY <1>3
<1> DEFINE g == [i \in 0 .. x |-> IF i < x THEN f[i] ELSE IF x < 10 THEN <<x>> ELSE f[x \div 10] \o <<x % 10>>]
<1>5. DOMAIN g = 0 .. x
  OBVIOUS
<1>6. ASSUME NEW n \in 0 .. x PROVE g[n] = IF n < 10 THEN <<n>> ELSE g[n \div 10] \o <<n % 10>>
  <2>1. n >= 10 => n \div 10 \in 0 .. x /\ n \div 10 < n
    BY Tenth
  <2>2. n >= 10 => g[n \div 10] = f[n \div 10]
    BY <2>1
  <2>3. CASE n < x
    <3>1. n \in 0 .. x - 1 /\ g[n] = f[n]
      BY <2>3
    <3>2. f[n] = IF n < 10 THEN <<n>> ELSE f[n \div 10] \o <<n % 10>>
      BY <1>4, <3>1 DEF Spells
    <3> HIDE DEF g
    <3>3. CASE n < 10
      BY <3>1, <3>2, <3>3
    <3>4. CASE ~(n < 10)
      <4>1. n >= 10
        BY <3>4
      <4> QED
        BY <2>2, <3>1, <3>2, <3>4, <4>1
    <3> QED
      BY <3>3, <3>4
  <2>4. CASE ~(n < x)
    <3>1. n = x
      BY <1>1, <2>4
    <3>2. g[n] = IF n < 10 THEN <<n>> ELSE f[n \div 10] \o <<n % 10>>
      BY <2>4, <3>1
    <3> HIDE DEF g
    <3>3. CASE n < 10
      BY <3>2, <3>3
    <3>4. CASE ~(n < 10)
      <4>1. n >= 10
        BY <3>4
      <4> QED
        BY <2>2, <3>2, <3>4, <4>1
    <3> QED
      BY <3>3, <3>4
  <2> QED
    BY <2>3, <2>4
<1> HIDE DEF g
<1>7. Spells(x, g)
  BY <1>5, <1>6 DEF Spells
<1> QED
  BY <1>1, <1>7

LEMMA DigitsSpelled ==
    ASSUME NEW x \in Nat
    PROVE  \E f : Spells(x, f) /\ DigitsOf(x) = f[x]
<1> DEFINE Def(f) == [n \in 0 .. x |-> IF n < 10 THEN <<n>> ELSE f[n \div 10] \o <<n % 10>>]
<1> DEFINE d == CHOOSE f : f = Def(f)
<1>1. DigitsOf(x) = d[x]
  BY DEF DigitsOf
<1>2. PICK f : Spells(x, f)
  BY SpellsExist
<1> DEFINE g == [i \in 0 .. x |-> f[i]]
<1>3. g = Def(g)
  <2>1. ASSUME NEW n \in 0 .. x PROVE g[n] = Def(g)[n]
    <3>1. f[n] = IF n < 10 THEN <<n>> ELSE f[n \div 10] \o <<n % 10>>
      BY <1>2 DEF Spells
    <3>2. n >= 10 => n \div 10 \in 0 .. x
      BY Tenth
    <3>3. n >= 10 => g[n \div 10] = f[n \div 10]
      BY <3>2
    <3>4. g[n] = f[n] /\ Def(g)[n] = IF n < 10 THEN <<n>> ELSE g[n \div 10] \o <<n % 10>>
      OBVIOUS
    <3>5. n < 10 \/ n >= 10
      OBVIOUS
    <3> HIDE DEF g, Def
    <3> QED
      BY <3>1, <3>3, <3>4, <3>5
  <2> QED
    BY <2>1
<1>4. d = Def(d)
  <2> HIDE DEF Def, g
  <2> QED
    BY <1>3, Zenon
<1>5. Spells(x, d)
  <2>1. DOMAIN d = 0 .. x
    BY <1>4
  <2>2. \A n \in 0 .. x : d[n] = Def(d)[n]
    BY <1>4
  <2> HIDE DEF d
  <2>3. \A n \in 0 .. x : d[n] = IF n < 10 THEN <<n>> ELSE d[n \div 10] \o <<n % 10>>
    BY <2>2
  <2> QED
    BY <2>1, <2>3 DEF Spells
<1> QED
  BY <1>1, <1>5

\* The digits s write n, in no more places than a power of ten above n has.
Writes(s, n) ==
    /\ s \in Seq(0 .. 9) /\ s # <<>>
    /\ n < Modulus => Value(s) = n
    /\ \A k \in Nat : k >= 1 /\ PowerFits(k) /\ n < Ten(k) => Len(s) <= k

LEMMA NineIsChar == ASSUME NEW s \in Seq(0 .. 9) PROVE s \in Seq(Nat) /\ s \in Seq(0 .. 11) /\ AllDigits(s)
<1>1. 0 .. 9 \subseteq Nat /\ 0 .. 9 \subseteq 0 .. 11
  OBVIOUS
<1>2. s \in Seq(Nat) /\ s \in Seq(0 .. 11)
  BY <1>1, SeqMonotonic
<1>3. \A i \in DOMAIN s : s[i] \in 0 .. 9
  OBVIOUS
<1>4. AllDigits(s)
  BY <1>3 DEF AllDigits
<1> QED
  BY <1>2, <1>4

LEMMA OneDigitWrites == ASSUME NEW n \in 0 .. 9 PROVE Writes(<<n>>, n)
<1>1. <<n>> \in Seq(0 .. 9) /\ <<n>> # <<>> /\ Len(<<n>>) = 1 /\ <<n>> = Append(<<>>, n) /\ <<>> \in Seq(Nat) /\ n \in Nat
  OBVIOUS
<1>2. Value(Append(<<>>, n)) = Capped(10 * 0 + n)
  BY <1>1, ValueAppend, ValueNone
<1>3. 10 * 0 + n = n
  OBVIOUS
<1>4. n < Modulus => Capped(n) = n
  BY DEF Capped
<1> QED
  BY <1>1, <1>2, <1>3, <1>4 DEF Writes

LEMMA NextDigitWrites ==
    ASSUME NEW n \in Nat, n >= 10, NEW s, Writes(s, n \div 10)
    PROVE  Writes(s \o <<n % 10>>, n)
<1> DEFINE q == n \div 10
<1> DEFINE r == n % 10
<1>1. q \in Nat /\ q < n /\ q >= 1 /\ r \in 0 .. 9 /\ n = 10 * q + r
  BY Tenth
<1>2. /\ s \in Seq(0 .. 9) /\ s \in Seq(Nat) /\ s # <<>> /\ (q < Modulus => Value(s) = q)
      /\ \A k \in Nat : k >= 1 /\ PowerFits(k) /\ q < Ten(k) => Len(s) <= k
  BY NineIsChar DEF Writes
<1> HIDE DEF q, r
<1> DEFINE t == s \o <<r>>
<1>3. t = Append(s, r)
  BY <1>1, <1>2, AppendIsConcat
<1>4. t \in Seq(0 .. 9) /\ t # <<>> /\ Len(t) = Len(s) + 1 /\ Len(s) \in Nat
  BY <1>1, <1>2, <1>3, AppendProperties, LenProperties
<1>5. ASSUME n < Modulus PROVE Value(t) = n
  <2>1. q < Modulus
    BY <1>1, <1>5, AmountsAssumption
  <2>2. Value(t) = Capped(10 * q + r)
    <3>1. r \in Nat
      BY <1>1
    <3>2. Value(Append(s, r)) = Capped(10 * Value(s) + r)
      BY <1>2, <3>1, ValueAppend, Zenon
    <3>3. Value(s) = q
      BY <1>2, <2>1, Zenon
    <3> QED
      BY <1>3, <3>2, <3>3
  <2> QED
    BY <1>1, <1>5, <2>2 DEF Capped
<1>6. ASSUME NEW k \in Nat, k >= 1, PowerFits(k), n < Ten(k) PROVE Len(t) <= k
  <2>1. k # 1
    <3>1. Ten(1) = Capped(10 * 1)
      <4>1. Ten(0 + 1) = Capped(10 * Ten(0)) /\ Ten(0) = 1
        BY Tens
      <4> QED
        BY <4>1
    <3>2. Capped(10 * 1) = 10
      BY AmountsAssumption DEF Capped
    <3> QED
      BY <1>6, <3>1, <3>2
  <2>2. k - 1 \in Nat /\ k - 1 >= 1 /\ (k - 1) + 1 = k
    BY <1>6, <2>1
  <2>3. PowerFits(k - 1) /\ Ten(k) = 10 * Ten(k - 1) /\ Ten(k - 1) \in Nat
    BY <1>6, <2>2, TensGrow
  <2>4. q < Ten(k - 1)
    <3> DEFINE p == Ten(k - 1)
    <3>1. p \in Nat /\ 10 * q + r < 10 * p
      BY <1>1, <1>6, <2>3
    <3> HIDE DEF p
    <3>2. q < p
      BY <1>1, <3>1
    <3> QED
      BY <3>2 DEF p
  <2>5. Len(s) <= k - 1
    BY <1>2, <2>2, <2>3, <2>4
  <2> QED
    BY <1>4, <2>2, <2>5
<1> HIDE DEF t
<1>7. Writes(t, n)
  BY <1>4, <1>5, <1>6 DEF Writes
<1> QED
  BY <1>7 DEF t, r

LEMMA DigitsWritten == \A x \in Nat : Writes(DigitsOf(x), x)
<1> SUFFICES ASSUME NEW x \in Nat PROVE Writes(DigitsOf(x), x)
  OBVIOUS
<1>1. PICK f : Spells(x, f) /\ DigitsOf(x) = f[x]
  BY DigitsSpelled
<1> DEFINE Bad == {n \in 0 .. x : ~Writes(f[n], n)}
<1>2. ASSUME Bad # {} PROVE FALSE
  <2>1. PICK n \in Bad : \A m \in Bad : n <= m
    BY <1>2, LeastNat, Bad \subseteq Nat
  <2>2. f[n] = IF n < 10 THEN <<n>> ELSE f[n \div 10] \o <<n % 10>>
    BY <1>1, <2>1 DEF Spells
  <2>3. CASE n < 10
    <3>1. n \in 0 .. 9 /\ f[n] = <<n>>
      BY <2>1, <2>2, <2>3
    <3> QED
      BY <2>1, <3>1, OneDigitWrites
  <2>4. CASE ~(n < 10)
    <3>1. n \in Nat /\ n >= 10 /\ n \div 10 \in 0 .. x /\ n \div 10 < n /\ f[n] = f[n \div 10] \o <<n % 10>>
      BY <2>1, <2>2, <2>4, Tenth
    <3>2. n \div 10 \notin Bad
      <4> DEFINE m == n \div 10
      <4>1. m \in 0 .. x /\ m < n /\ n \in Nat
        BY <3>1
      <4> HIDE DEF m
      <4>2. m \notin Bad
        BY <2>1, <4>1
      <4> QED
        BY <4>2 DEF m
    <3>3. Writes(f[n \div 10], n \div 10)
      BY <3>1, <3>2
    <3>4. Writes(f[n], n)
      BY <3>1, <3>3, NextDigitWrites
    <3> QED
      BY <2>1, <3>4
  <2> QED
    BY <2>3, <2>4
<1>3. x \in 0 .. x /\ x \notin Bad
  BY <1>2
<1> QED
  BY <1>1, <1>3

\* Without its trailing zeros a fraction is the same once it is padded again.
LEMMA Trimmed ==
    ASSUME NEW p \in Seq(0 .. 11)
    PROVE  LET t == TrimZeros(p)
           IN  t \in Seq(0 .. 11) /\ Len(t) <= Len(p) /\ PadRight(t, Len(p)) = p
<1> DEFINE n == Len(p)
<1> DEFINE LastKept(m) == (m = 0 \/ p[m] # 0) /\ \A k \in m + 1 .. n : p[k] = 0
<1> DEFINE last == CHOOSE m \in 0 .. n : LastKept(m)
<1> DEFINE t == SubSeq(p, 1, last)
<1>1. n \in Nat /\ \A i \in 1 .. n : p[i] \in 0 .. 11
  BY LenProperties, ElementOfSeq
<1>2. \E m \in 0 .. n : LastKept(m)
  <2> DEFINE T == {m \in 1 .. n : p[m] # 0}
  <2>1. CASE T = {}
    <3>1. \A k \in 0 + 1 .. n : p[k] = 0
      BY <2>1
    <3>2. 0 \in 0 .. n
      BY <1>1
    <3>3. LastKept(0)
      BY <3>1
    <3> QED
      BY <3>2, <3>3
  <2>2. CASE T # {}
    <3>1. PICK m \in T : \A k \in T : k <= m
      <4>1. T \subseteq 0 .. n
        BY <1>1
      <4> HIDE DEF T
      <4> QED
        BY <1>1, <2>2, <4>1, GreatestNat
    <3>2. m \in 1 .. n /\ p[m] # 0
      BY <3>1
    <3>3. ASSUME NEW k \in m + 1 .. n PROVE p[k] = 0
      <4>1. k \in 1 .. n /\ ~(k <= m)
        BY <1>1, <3>2
      <4> QED
        BY <3>1, <4>1
    <3>4. LastKept(m) /\ m \in 0 .. n
      BY <1>1, <3>2, <3>3
    <3> QED
      BY <3>4
  <2> QED
    BY <2>1, <2>2
<1>3. last \in 0 .. n /\ LastKept(last)
  <2> HIDE DEF LastKept
  <2> QED
    BY <1>2
<1>4. TrimZeros(p) = t
  BY DEF TrimZeros
<1> HIDE DEF last
<1>5. t \in Seq(0 .. 11) /\ Len(t) = last /\ \A i \in 1 .. last : t[i] = p[i]
  BY <1>1, <1>3
<1> HIDE DEF t
<1>6. Len(t) <= n /\ t \in Seq(Nat)
  BY <1>1, <1>3, <1>5, CharsAreNat
<1>7. PadRight(t, n) = p
  <2> DEFINE z == Zeros(n - last)
  <2> DEFINE c == t \o z
  <2>1. n - last \in Nat
    BY <1>1, <1>3
  <2>2. z \in Seq(Nat) /\ Len(z) = n - last
    BY <2>1, ZerosAre
  <2>3. \A i \in 1 .. n - last : z[i] = 0
    BY <2>1 DEF Zeros
  <2>4. PadRight(t, n) = c
    BY <1>1, <1>5, <1>6, Padded
  <2> HIDE DEF z
  <2>5. /\ c \in Seq(Nat) /\ Len(c) = last + (n - last)
        /\ \A i \in 1 .. last + (n - last) : c[i] = IF i <= last THEN t[i] ELSE z[i - last]
    <3>1. /\ c \in Seq(Nat) /\ Len(c) = Len(t) + Len(z)
          /\ \A i \in 1 .. Len(t) + Len(z) : c[i] = IF i <= Len(t) THEN t[i] ELSE z[i - Len(t)]
      BY <1>6, <2>2, ConcatProperties
    <3> HIDE DEF c
    <3> QED
      BY <1>5, <2>2, <3>1
  <2> HIDE DEF c
  <2>6. Len(c) = n
    BY <1>1, <1>3, <2>5
  <2>7. ASSUME NEW i \in 1 .. n PROVE c[i] = p[i]
    <3>1. i \in 1 .. last + (n - last) /\ i \in Nat
      BY <1>1, <1>3
    <3>2. CASE i <= last
      <4>1. i \in 1 .. last
        BY <1>3, <3>2
      <4> QED
        BY <1>5, <2>5, <3>1, <3>2, <4>1
    <3>3. CASE ~(i <= last)
      <4>1. i - last \in 1 .. n - last /\ i \in last + 1 .. n
        BY <1>1, <1>3, <3>3
      <4>2. c[i] = z[i - last] /\ p[i] = 0
        BY <1>3, <2>5, <3>1, <3>3, <4>1
      <4> QED
        BY <2>3, <4>1, <4>2
    <3> QED
      BY <3>2, <3>3
  <2>8. p \in Seq(Nat)
    BY CharsAreNat
  <2> QED
    BY <2>4, <2>5, <2>6, <2>7, <2>8, SeqEqual
<1> QED
  BY <1>4, <1>5, <1>6, <1>7

\* A number of whole units and a fraction that together fit are put together.
LEMMA ScaledExactly ==
    ASSUME NEW v \in Nat, NEW u \in Nat, NEW n \in Nat, NEW build, PowerFits(n), v * Ten(n) + u < Modulus
    PROVE  Scaled(Ok(v), n, Ok(u), build) = Ok(v * Ten(n) + u)
<1> DEFINE p == Ten(n)
<1> DEFINE power == Pow(n, build)
<1> DEFINE shifted == checked_mul_u(v, p)
<1>1. power = Ok(p) /\ p \in Nat
  BY Tens, PowerIs, AmountsAssumption
<1>2. v * p + u < Modulus
  OBVIOUS
<1> HIDE DEF p, power
<1>3. v * p \in Nat /\ v * p < Modulus
  <2>1. v * p \in Nat
    BY <1>1
  <2> DEFINE w == v * p
  <2>2. w \in Nat /\ w + u < Modulus
    BY <1>2, <2>1
  <2> HIDE DEF w
  <2>3. w < Modulus
    BY <2>2, AmountsAssumption
  <2> QED
    BY <2>1, <2>3 DEF w
<1>4. shifted = Ok(v * p)
  BY <1>3 DEF checked_mul_u
<1>5. checked_add_u(v * p, u) = Ok(v * p + u)
  BY <1>2 DEF checked_add_u
<1>6. /\ Ok(v).ok /\ Ok(u).ok /\ power.ok /\ Ok(v).value = v /\ Ok(u).value = u /\ power.value = p
      /\ shifted.ok /\ shifted.value = v * p
  <2> HIDE DEF shifted
  <2> QED
    BY <1>1, <1>4, Outcomes, Zenon
<1> DEFINE whole == Ok(v)
<1> DEFINE frac == Ok(u)
<1> DEFINE s == Scaled(whole, n, frac, build)
<1>7. whole.ok /\ frac.ok /\ power.ok /\ whole.value = v /\ frac.value = u
  BY <1>6
<1> HIDE DEF whole, frac
<1>8. s = checked_add_u(checked_mul_u(whole.value, power.value).value, frac.value)
  <2>1. checked_mul_u(whole.value, power.value).ok
    BY <1>6, <1>7
  <2> QED
    BY <1>7, <2>1 DEF Scaled, power
<1>9. s = Ok(v * p + u)
  <2>1. checked_mul_u(whole.value, power.value) = shifted
    BY <1>6, <1>7, Zenon
  <2> HIDE DEF s, shifted
  <2> QED
    BY <1>5, <1>6, <1>7, <1>8, <2>1, Zenon
<1> QED
  BY <1>9, Zenon DEF s, whole, frac, p

\* Digits of whole units, alone or with those of a fraction, read back.
LEMMA WrittenReadsBack ==
    ASSUME NEW w \in Seq(0 .. 9), w # <<>>, NEW t \in Seq(0 .. 11), AllDigits(t), NEW n \in Nat, NEW build, Len(t) <= n,
           PowerFits(n), Value(w) * Ten(n) + Value(PadRight(t, n)) < Modulus
    PROVE  LET number == Value(w) * Ten(n) + Value(PadRight(t, n))
           IN  /\ n > 0 => parse_decimal_to_raw(<<w, t>>, n, build) = Ok(number)
               /\ t = <<>> => parse_decimal_to_raw(<<w>>, n, build) = Ok(number)
<1> DEFINE b == PadRight(t, n)
<1> DEFINE v == Value(w)
<1> DEFINE u == Value(b)
<1>1. w \in Seq(Nat) /\ AllDigits(w) /\ t \in Seq(Nat)
  BY NineIsChar, CharsAreNat
<1>2. b \in Seq(Nat) /\ Len(b) = n /\ AllDigits(b)
  BY <1>1, Padded
<1>3. v \in Nat /\ u \in Nat
  <2> HIDE DEF b
  <2>1. Len(w) \in Nat /\ Len(b) \in Nat
    BY <1>1, <1>2, LenProperties
  <2> QED
    BY <1>1, <1>2, <2>1, ValueNat, AmountsAssumption
<1>4. Ten(n) \in Nat /\ Ten(n) >= 1
  <2>1. n \in 0 .. n
    OBVIOUS
  <2> QED
    BY <2>1, SmallerFits
<1>5. v < Modulus /\ u < Modulus
  <2>1. v * Ten(n) + u < Modulus
    OBVIOUS
  <2> HIDE DEF u, v
  <2> QED
    BY <1>3, <1>4, <2>1, CappedSum, Zenon
<1>6. Parse(w) = Ok(v)
  BY <1>1, <1>5, ParseIs, SignlessIs
<1>7. n > 0 => Parse(b) = Ok(u)
  <2> HIDE DEF b
  <2>1. n > 0 => b # <<>>
    BY <1>2, EmptySeq
  <2> QED
    BY <1>2, <1>5, <2>1, ParseIs, SignlessIs
<1>8. Scaled(Ok(v), n, Ok(u), build) = Ok(v * Ten(n) + u)
  <2>1. v * Ten(n) + u < Modulus
    OBVIOUS
  <2> HIDE DEF u, v
  <2> QED
    BY <1>3, <2>1, ScaledExactly
<1>9. Ok(v).ok
  BY Outcomes, Zenon
<1> HIDE DEF v, u, b
<1>10. ASSUME n > 0 PROVE parse_decimal_to_raw(<<w, t>>, n, build) = Ok(v * Ten(n) + u)
  <2> DEFINE text == <<w, t>>
  <2>1. Len(text) = 2 /\ text[1] = w /\ text[2] = t /\ text # <<<<>>>> /\ ~(Len(t) > n)
    BY <1>1, LenProperties
  <2> DEFINE whole == IF Len(text) = 2 /\ text[1] = <<>> THEN Ok(0) ELSE Parse(text[1])
  <2>2. whole = Ok(v)
    BY <1>6, <2>1
  <2>3. parse_decimal_to_raw(text, n, build)
          = IF ~whole.ok THEN whole ELSE Scaled(whole, n, Parse(PadRight(text[2], n)), build)
    <3>1. Len(text) = 2 /\ ~(Len(text[2]) > n) /\ text # <<<<>>>> /\ ~(Len(text) = 1)
      BY <2>1
    <3> HIDE DEF text
    <3> QED
      BY <3>1 DEF parse_decimal_to_raw
  <2>4. Parse(PadRight(text[2], n)) = Ok(u)
    BY <1>7, <1>10, <2>1 DEF b
  <2> HIDE DEF text, whole
  <2>5. parse_decimal_to_raw(text, n, build) = Scaled(Ok(v), n, Ok(u), build)
    BY <1>9, <2>2, <2>3, <2>4, Zenon
  <2> QED
    BY <1>8, <2>5 DEF text
<1>11. ASSUME t = <<>> PROVE parse_decimal_to_raw(<<w>>, n, build) = Ok(v * Ten(n) + u)
  <2> DEFINE text == <<w>>
  <2>1. Len(text) = 1 /\ text[1] = w /\ text # <<<<>>>>
    OBVIOUS
  <2>2. parse_decimal_to_raw(text, n, build) = Scaled(Parse(w), n, Ok(0), build)
    <3> HIDE DEF text
    <3> QED
      BY <2>1 DEF parse_decimal_to_raw
  <2>3. u = 0
    <3>1. b = PadRight(<<>>, n)
      BY <1>11 DEF b
    <3> QED
      BY <3>1, NoFraction DEF u
  <2> QED
    BY <1>6, <1>8, <2>2, <2>3
<1> QED
  BY <1>10, <1>11 DEF u, v, b

\* Amounts of a token.
Shown == [of : {"amount"}, raw : 0 .. Modulus - 1, decimals : Nat, build : Builds]

LEMMA Division ==
    ASSUME NEW x \in Nat, NEW p \in Nat, p >= 1
    PROVE  x \div p \in Nat /\ x % p \in Nat /\ x % p < p /\ x = (x \div p) * p + (x % p)
OBVIOUS

\* An amount that is written reads back.
LEMMA ShownReadsBack ==
    ASSUME NEW raw \in 0 .. Modulus - 1, NEW n \in Nat, NEW build, PowerFits(n)
    PROVE  \E text : /\ format_raw_with_decimals(raw, n, build) = Ok(text)
                     /\ parse_decimal_to_raw(text, n, build) = Ok(raw)
<1> DEFINE p == Ten(n)
<1> DEFINE q == raw \div p
<1> DEFINE r == raw % p
<1>1. raw \in Nat /\ raw < Modulus
  BY AmountsAssumption
<1>2. p \in Nat /\ p >= 1 /\ Ten(0) = 1
  <2>1. n \in 0 .. n
    OBVIOUS
  <2> QED
    BY <2>1, SmallerFits, Tens
<1> HIDE DEF p
<1>3. q \in Nat /\ r \in Nat /\ r < p /\ raw = q * p + r
  BY <1>1, <1>2, Division
<1> HIDE DEF q, r
<1>4. q < Modulus /\ r < Modulus
  <2>1. q * p + r < Modulus
    BY <1>1, <1>3
  <2> QED
    BY <1>2, <1>3, <2>1, CappedSum, Zenon
<1> DEFINE w == DigitsOf(q)
<1> DEFINE d == DigitsOf(r)
<1>5. w \in Seq(0 .. 9) /\ w # <<>> /\ Value(w) = q
  BY <1>3, <1>4, DigitsWritten DEF Writes
<1>6. d \in Seq(0 .. 9) /\ d # <<>> /\ Value(d) = r /\ (n >= 1 => Len(d) <= n)
  BY <1>3, <1>4, DigitsWritten DEF Writes, p
<1> HIDE DEF w, d
<1>7. ASSUME NEW t \in Seq(0 .. 11), AllDigits(t), Len(t) <= n, Value(PadRight(t, n)) = r
      PROVE  /\ n > 0 => parse_decimal_to_raw(<<w, t>>, n, build) = Ok(raw)
             /\ t = <<>> => parse_decimal_to_raw(<<w>>, n, build) = Ok(raw)
  <2>1. Value(w) * Ten(n) + Value(PadRight(t, n)) = raw
    BY <1>3, <1>5, <1>7 DEF p
  <2> QED
    BY <1>1, <1>5, <1>7, <2>1, WrittenReadsBack
<1>8. ASSUME r = 0 PROVE parse_decimal_to_raw(<<w>>, n, build) = Ok(raw)
  <2>1. <<>> \in Seq(0 .. 11) /\ Len(<<>>) <= n
    OBVIOUS
  <2> QED
    BY <1>7, <1>8, <2>1, NoDigits, NoFraction
<1>9. CASE n = 0
  <2>1. p = 1
    BY <1>2, <1>9 DEF p
  <2>2. r = 0 /\ q = raw
    BY <1>3, <2>1
  <2>3. format_raw_with_decimals(raw, n, build) = Ok(<<w>>)
    BY <1>9, <2>2 DEF format_raw_with_decimals, w
  <2> QED
    BY <1>8, <2>2, <2>3
<1>10. CASE n # 0
  <2> DEFINE divisor == Pow(n, build)
  <2>1. divisor.ok /\ divisor.value = p
    <3>1. divisor = Ok(p)
      BY PowerIs DEF p
    <3> HIDE DEF divisor
    <3> QED
      BY <3>1, Outcomes, Zenon
  <2> HIDE DEF divisor
  <2> DEFINE t == TrimZeros(PadLeft(d, n))
  <2> DEFINE text == IF r = 0 THEN <<w>> ELSE <<w, t>>
  <2>2. format_raw_with_decimals(raw, n, build) = Ok(text)
    <3>1. divisor.value # 0
      BY <1>2, <2>1
    <3>2. raw \div divisor.value = q /\ raw % divisor.value = r
      BY <2>1 DEF q, r
    <3>3. format_raw_with_decimals(raw, n, build)
            = Ok(IF raw % divisor.value = 0 THEN <<DigitsOf(raw \div divisor.value)>>
                 ELSE <<DigitsOf(raw \div divisor.value), TrimZeros(PadLeft(DigitsOf(raw % divisor.value), n))>>)
      BY <1>10, <2>1, <3>1 DEF format_raw_with_decimals, divisor
    <3> QED
      BY <3>2, <3>3, Zenon DEF w, d
  <2>3. CASE r = 0
    BY <1>8, <2>2, <2>3
  <2>4. CASE r # 0
    <3> DEFINE b == PadLeft(d, n)
    <3>1. d \in Seq(Nat) /\ d \in Seq(0 .. 11) /\ AllDigits(d) /\ Len(d) <= n /\ n - Len(d) \in Nat
      BY <1>6, <1>10, NineIsChar, LenProperties
    <3>2. b = Zeros(n - Len(d)) \o d /\ b \in Seq(Nat) /\ Len(b) = n /\ AllDigits(b)
      BY <3>1, Padded
    <3> HIDE DEF b
    <3>3. b \in Seq(0 .. 11)
      <4>1. DOMAIN b = 1 .. n /\ b = [i \in 1 .. n |-> b[i]]
        BY <3>2, LenProperties
      <4>2. ASSUME NEW i \in 1 .. n PROVE b[i] \in 0 .. 11
        <5>1. b[i] \in Nat
          BY <3>2, <4>1, ElementOfSeq
        <5>2. b[i] < 10
          BY <3>2, <4>1 DEF AllDigits
        <5> QED
          BY <5>1, <5>2
      <4>3. \A f \in [1 .. n -> 0 .. 11] : f \in Seq(0 .. 11)
        OBVIOUS
      <4>4. b \in [1 .. n -> 0 .. 11]
        BY <4>1, <4>2
      <4> QED
        BY <4>3, <4>4
    <3>4. Value(b) = r
      <4> DEFINE z == Zeros(n - Len(d))
      <4>1. z \in Seq(Nat) /\ Value(z) = 0
        BY <3>1, ZerosAre, ZerosValue
      <4> HIDE DEF z
      <4>2. Len(d) \in 0 .. n
        BY <3>1, LenProperties
      <4>3. PowerFits(Len(d)) /\ Ten(Len(d)) \in Nat
        BY <4>2, SmallerFits
      <4>4. Value(z \o d) = Capped(Value(z) * Ten(Len(d)) + Value(d))
        BY <3>1, <4>1, <4>2, <4>3, ValueJoined
      <4>5. Value(z) * Ten(Len(d)) + Value(d) = r
        BY <1>3, <1>6, <4>1, <4>3
      <4> QED
        BY <1>3, <1>4, <3>2, <4>4, <4>5 DEF Capped, z
    <3>5. t \in Seq(0 .. 11) /\ Len(t) <= n /\ PadRight(t, n) = b
      <4>1. t = TrimZeros(b)
        BY DEF b
      <4> HIDE DEF t
      <4> QED
        BY <3>2, <3>3, <4>1, Trimmed
    <3> HIDE DEF t
    <3>6. AllDigits(t)
      <4>1. t \in Seq(Nat)
        BY <3>5, CharsAreNat
      <4>2. AllDigits(PadRight(t, n)) <=> AllDigits(t)
        BY <3>5, <4>1, Padded, Zenon
      <4> QED
        BY <3>2, <3>5, <4>2, Zenon
    <3>7. parse_decimal_to_raw(<<w, t>>, n, build) = Ok(raw)
      BY <1>7, <1>10, <3>4, <3>5, <3>6
    <3> QED
      BY <2>2, <2>4, <3>7
  <2> QED
    BY <2>3, <2>4
<1> QED
  BY <1>9, <1>10

LEMMA AmountsShown == ASSUME input \in Shown PROVE AmountsReadBack
<1> DEFINE n == input.decimals
<1> DEFINE text == format_raw_with_decimals(input.raw, n, input.build)
<1>1. input.raw \in 0 .. Modulus - 1 /\ n \in Nat /\ input.build \in Builds
  BY DEF Shown
<1>2. CASE PowerFits(n)
  <2>1. PICK shown : /\ text = Ok(shown)
                     /\ parse_decimal_to_raw(shown, n, input.build) = Ok(input.raw)
    BY <1>1, <1>2, ShownReadsBack
  <2> HIDE DEF text
  <2>2. text.ok /\ text.value = shown
    BY <2>1, Outcomes, Zenon
  <2>3. text.ok /\ parse_decimal_to_raw(text.value, n, input.build) = Ok(input.raw)
    BY <2>1, <2>2
  <2> QED
    BY <2>3, Zenon DEF AmountsReadBack, text
<1>3. CASE ~PowerFits(n)
  <2>1. ASSUME input.build = "debug" PROVE ~text.ok
    <3>1. Pow(n, input.build) = Fail("panic")
      BY <1>1, <1>3, <2>1, PowerIs
    <3>2. ~Pow(n, input.build).ok
      BY <3>1, Outcomes, Zenon
    <3>3. n # 0
      <4>1. PowerFits(0)
        BY FitsIs, Tens, AmountsAssumption
      <4> QED
        BY <1>3, <4>1
    <3>4. text = Fail("panic")
      BY <3>2, <3>3 DEF format_raw_with_decimals
    <3> HIDE DEF text
    <3> QED
      BY <3>4, Outcomes, Zenon
  <2> HIDE DEF text
  <2> QED
    BY <1>3, <2>1, Zenon DEF AmountsReadBack, text
<1> QED
  BY <1>2, <1>3

LEMMA DecimalsExact == ASSUME input \in Decimals, Len(input.text) \in {1, 2} PROVE ReadsExactly
<1> DEFINE text == input.text
<1> DEFINE frac == IF Len(text) = 1 THEN <<>> ELSE text[2]
<1> DEFINE digits == Signless(text[1]) \o Signless(PadRight(frac, input.decimals))
<1> DEFINE wellFormed == /\ AllDigits(digits)
                         /\ Len(frac) <= input.decimals
                         /\ text[1] # <<>> \/ Len(text) = 2
                         /\ Len(text) = 2 => input.decimals > 0
<1> DEFINE read == parse_decimal_to_raw(text, input.decimals, input.build)
<1>1. SUFFICES ASSUME PowerFits(input.decimals) \/ input.build = "debug"
               PROVE  /\ read.ok => wellFormed /\ read.value = Value(digits)
                      /\ wellFormed /\ PowerFits(input.decimals) /\ Value(digits) < Modulus => read.ok
  BY Zenon DEF ReadsExactly, AllDigits
<1>2. /\ read.ok <=> wellFormed /\ PowerFits(input.decimals) /\ Value(digits) < Modulus
      /\ read.ok => read.value = Value(digits)
  BY <1>1, DecimalsRead
<1> QED
  BY <1>2, Zenon

\* The decimal texts with at most one point, and the texts of an amount with a
\* unit.
DecimalReads == {i \in Decimals : Len(i.text) \in {1, 2}}
UnitReads == {i \in UnitTexts : Len(i.text) \in 1 .. 3}

LEMMA AmountsExact ==
    ASSUME ~Given("amount") \/ input \in Shown, ~Given("decimal") \/ input \in DecimalReads,
           ~Given("units") \/ input \in UnitReads, ~Given("sum") \/ input \in Sums
    PROVE  AmountsAreExact
<1>1. AmountsReadBack
  <2>1. CASE ~Given("amount")
    BY <2>1, Zenon DEF AmountsReadBack
  <2> QED
    BY <2>1, AmountsShown
<1>2. ReadsExactly
  <2>1. CASE ~Given("decimal")
    BY <2>1, Zenon DEF ReadsExactly
  <2>2. CASE input \in DecimalReads
    <3>1. input \in Decimals /\ Len(input.text) \in {1, 2}
      BY <2>2 DEF DecimalReads
    <3> QED
      BY <3>1, DecimalsExact
  <2> QED
    BY <2>1, <2>2
<1>3. UnitsAgree
  <2>1. CASE ~Given("units")
    BY <2>1, Zenon DEF UnitsAgree
  <2>2. CASE input \in UnitReads
    <3>1. input \in UnitTexts /\ Len(input.text) \in 1 .. 3
      BY <2>2 DEF UnitReads
    <3> QED
      BY <3>1, UnitsRead
  <2> QED
    BY <2>1, <2>2
<1>4. ArithmeticStaysInToken
  <2>1. CASE ~Given("sum")
    BY <2>1, Zenon DEF ArithmeticStaysInToken
  <2> QED
    BY <2>1, AmountsAdded
<1> QED
  BY <1>1, <1>2, <1>3, <1>4, Zenon DEF AmountsAreExact
=============================================================================
