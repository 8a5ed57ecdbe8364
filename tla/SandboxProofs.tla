---------------------------- MODULE SandboxProofs ----------------------------
(***************************************************************************)
(* Sandbox for any number of accounts, calls, copies of a request, lost    *)
(* patches and polls.                                                      *)
(*                                                                         *)
(* All of it rests on what is in the node's queue: every patch comes from  *)
(* a call that has read its account (Queued).  What a call read, what it   *)
(* queued and what is at the head agree on everything but the balance      *)
(* (RestInv); a call's two sends leave more patches behind than the node   *)
(* may lose (SendsInv); and a final record with the balance asked for is   *)
(* never older than the patches still queued (PollInv).                    *)
(***************************************************************************)
EXTENDS Sandbox, WellFoundedInduction, TLAPS

\* Every queued patch sets the balance that a call past its read asked for.
Queued ==
    \A i \in DOMAIN queue : \E c \in Calls :
        pc[c] # "fetch" /\ target[c] = queue[i].account /\ balance[c] = queue[i].record.amount

\* A call polls at most MaxPolls times, and has a result when it is done.
Polled ==
    \A c \in Calls :
        /\ pc[c] # "done" => polls[c] < MaxPolls /\ result[c] = "none"
        /\ pc[c] = "done" => result[c] # "none"

TypeInv == TypeOK /\ Queued /\ Polled

\* On an account no call has overwritten, everything that is or may become its
\* record has seen all transactions.
RestInv ==
    \A a \in Accounts : Untouched(a) =>
        /\ head[a].rest = changes[a]
        /\ \A i \in DOMAIN queue : queue[i].account = a => queue[i].record.rest = changes[a]
        /\ \A c \in Calls : target[c] = a /\ pc[c] \in {"patch", "patch_again"} =>
                account_response[c].rest = changes[a]

\* Account a has, or will have for sure, a balance that was asked for.
HasAsked(a) == \E c \in Calls : target[c] = a /\ head[a].amount = balance[c]
Pending(a) == {i \in DOMAIN queue : queue[i].account = a}
Two(S) == \E i, j \in S : i # j

\* A call that sent once left one patch, a call that sent twice left two, and
\* the node has lost at most one of them.
SendsInv ==
    \A c \in Calls :
        LET a == target[c]
        IN  Untouched(a) /\ ~HasAsked(a) =>
              /\ lost = 0 /\ pc[c] = "patch_again" => Pending(a) # {}
              /\ lost = 0 /\ (pc[c] = "poll" \/ result[c] = "ok") => Two(Pending(a))
              /\ lost = 1 /\ (pc[c] = "poll" \/ result[c] = "ok") => Pending(a) # {}

\* Call c is alone on its account and read it settled.
Alone(c) == c \notin touched \cup unsettled /\ \A d \in Calls \ {c} : target[d] # target[c]

\* Unless it failed, the final record of a lone call has the balance only after
\* the head has.
PollInv ==
    \A c \in Calls : Alone(c) =>
        /\ pc[c] # "fetch" /\ result[c] # "err" /\ final[target[c]].amount = balance[c] =>
                head[target[c]].amount = balance[c]
        /\ result[c] = "ok" /\ polls[c] < MaxPolls => final[target[c]].amount = balance[c]
-----------------------------------------------------------------------------
(* Numbers. *)

\* Every non-empty set of naturals has a least element.
LEMMA LeastNat ==
    ASSUME NEW T, T \subseteq Nat, T # {}
    PROVE  \E x \in T : \A y \in T : x <= y
<1>1. PICK x \in T : \A y \in T : ~(<<y, x>> \in OpToRel(<, Nat))
  BY NatLessThanWellFounded, WFMin, Zenon
<1>2. ASSUME NEW y \in T PROVE x <= y
  <2>1. ~(<<y, x>> \in OpToRel(<, Nat))
    BY <1>1
  <2>2. <<y, x>> \in Nat \X Nat
    OBVIOUS
  <2>3. ~(y < x)
    BY <2>1, <2>2 DEF OpToRel
  <2> QED
    BY <2>3
<1> QED
  BY <1>2

\* Every non-empty set of naturals with a bound has a greatest element.
LEMMA GreatestNat ==
    ASSUME NEW b \in Nat, NEW T, T \subseteq 0 .. b, T # {}
    PROVE  \E x \in T : \A y \in T : y <= x
<1> DEFINE U == {b - x : x \in T}
<1>1. U \subseteq Nat /\ U # {}
  <2>1. \A x \in T : x \in 0 .. b /\ b - x \in Nat
    OBVIOUS
  <2> QED
    BY <2>1
<1>2. PICK u \in U : \A v \in U : u <= v
  BY <1>1, LeastNat
<1>3. PICK x \in T : u = b - x
  BY <1>2
<1>4. ASSUME NEW y \in T PROVE y <= x
  <2>1. b - y \in U
    OBVIOUS
  <2> QED
    BY <1>2, <1>3, <2>1, y \in 0 .. b, x \in 0 .. b
<1> QED
  BY <1>4

\* Max of such a set is its greatest element.
LEMMA MaxFacts ==
    ASSUME NEW b \in Nat, NEW T, T \subseteq 0 .. b, T # {}
    PROVE  Max(T) \in T /\ \A y \in T : y <= Max(T)
<1>1. \E x \in T : \A y \in T : x >= y
  BY GreatestNat
<1> QED
  BY <1>1 DEF Max
-----------------------------------------------------------------------------
(* The queue. *)

\* Copies of a patch go to the end.
LEMMA QueueCopies ==
    ASSUME NEW S, NEW q \in Seq(S), NEW r \in S, NEW n \in Nat
    PROVE  LET new == q \o [i \in 1 .. n |-> r]
           IN  /\ new \in Seq(S)
               /\ DOMAIN q \subseteq DOMAIN new
               /\ \A i \in DOMAIN q : new[i] = q[i]
               /\ \A i \in DOMAIN new : i \in DOMAIN q \/ new[i] = r
               /\ n > 0 => Len(q) + 1 \in DOMAIN new /\ new[Len(q) + 1] = r
               /\ Len(q) + 1 \notin DOMAIN q
<1> DEFINE copies == [i \in 1 .. n |-> r]
<1> DEFINE new == q \o copies
<1>1. copies \in Seq(S) /\ Len(copies) = n
  OBVIOUS
<1>2. DOMAIN q = 1 .. Len(q) /\ Len(q) \in Nat
  OBVIOUS
<1>3. new \in Seq(S) /\ Len(new) = Len(q) + n /\ DOMAIN new = 1 .. Len(q) + n
  BY <1>1
<1>4. \A i \in 1 .. Len(q) + n : new[i] = IF i <= Len(q) THEN q[i] ELSE copies[i - Len(q)]
  BY <1>1
<1>5. \A i \in 1 .. Len(q) + n : i > Len(q) => new[i] = r
  BY <1>2, <1>4
<1> HIDE DEF new
<1>6. DOMAIN q \subseteq DOMAIN new /\ \A i \in DOMAIN q : new[i] = q[i]
  BY <1>2, <1>3, <1>4
<1>7. \A i \in DOMAIN new : i \in DOMAIN q \/ new[i] = r
  BY <1>2, <1>3, <1>5
<1>8. n > 0 => Len(q) + 1 \in DOMAIN new /\ new[Len(q) + 1] = r
  BY <1>2, <1>3, <1>5
<1>9. Len(q) + 1 \notin DOMAIN q
  BY <1>2
<1> QED
  BY <1>3, <1>6, <1>7, <1>8, <1>9 DEF new

\* A lost patch leaves all the others.
LEMMA QueueLoses ==
    ASSUME NEW S, NEW q \in Seq(S), NEW k \in DOMAIN q
    PROVE  /\ RemoveAt(q, k) \in Seq(S)
           /\ \A i \in DOMAIN q \ {k} : \E j \in DOMAIN RemoveAt(q, k) : RemoveAt(q, k)[j] = q[i]
           /\ \A j \in DOMAIN RemoveAt(q, k) : \E i \in DOMAIN q : RemoveAt(q, k)[j] = q[i]
<1> DEFINE front == SubSeq(q, 1, k - 1)
<1> DEFINE back == SubSeq(q, k + 1, Len(q))
<1> DEFINE new == front \o back
<1>1. k \in 1 .. Len(q) /\ Len(q) \in Nat /\ DOMAIN q = 1 .. Len(q)
  OBVIOUS
<1>2. front \in Seq(S) /\ Len(front) = k - 1 /\ \A i \in 1 .. k - 1 : front[i] = q[i]
  BY <1>1
<1>3. back \in Seq(S) /\ Len(back) = Len(q) - k /\ \A i \in 1 .. Len(q) - k : back[i] = q[k + i]
  BY <1>1
<1> HIDE DEF front, back
<1>4. new \in Seq(S) /\ DOMAIN new = 1 .. Len(q) - 1
      /\ \A i \in 1 .. Len(q) - 1 : new[i] = IF i <= k - 1 THEN front[i] ELSE back[i - (k - 1)]
  <2>1. new \in Seq(S) /\ Len(new) = Len(front) + Len(back)
        /\ \A i \in 1 .. Len(front) + Len(back) :
              new[i] = IF i <= Len(front) THEN front[i] ELSE back[i - Len(front)]
    BY <1>2, <1>3
  <2>2. Len(front) + Len(back) = Len(q) - 1
    BY <1>1, <1>2, <1>3
  <2>3. DOMAIN new = 1 .. Len(new)
    BY <2>1
  <2> HIDE DEF new
  <2> QED
    BY <1>2, <2>1, <2>2, <2>3
<1>5. \A i \in 1 .. Len(q) - 1 : new[i] = IF i < k THEN q[i] ELSE q[i + 1]
  <2> HIDE DEF new
  <2> TAKE i \in 1 .. Len(q) - 1
  <2>1. CASE i < k
    BY <1>1, <1>2, <1>4, <2>1
  <2>2. CASE ~(i < k)
    <3>1. i - (k - 1) \in 1 .. Len(q) - k /\ k + (i - (k - 1)) = i + 1 /\ ~(i <= k - 1)
      BY <1>1, <2>2
    <3>2. new[i] = back[i - (k - 1)]
      BY <1>4, <3>1
    <3> QED
      BY <1>3, <2>2, <3>1, <3>2
  <2> QED
    BY <2>1, <2>2
<1> HIDE DEF new
<1>6. ASSUME NEW i \in DOMAIN q \ {k} PROVE \E j \in DOMAIN new : new[j] = q[i]
  <2>1. CASE i < k
    BY <1>1, <1>4, <1>5, <2>1
  <2>2. CASE i > k
    <3>1. i - 1 \in DOMAIN new /\ new[i - 1] = q[i]
      BY <1>1, <1>4, <1>5, <2>2
    <3> QED
      BY <3>1
  <2> QED
    BY <1>1, <2>1, <2>2
<1>7. ASSUME NEW j \in DOMAIN new PROVE \E i \in DOMAIN q : new[j] = q[i]
  <2>1. j \in DOMAIN q /\ j + 1 \in DOMAIN q
    BY <1>1, <1>4
  <2> QED
    BY <1>4, <1>5, <2>1
<1> QED
  BY <1>4, <1>6, <1>7 DEF RemoveAt, new, front, back

\* Applied patches: an account has the record of a patch for it, or the old one.
LEMMA ApplyFacts ==
    ASSUME NEW q \in Seq(Patches), NEW old \in [Accounts -> Records]
    PROVE  /\ Apply(q, old) \in [Accounts -> Records]
           /\ \A a \in Accounts :
                 \/ /\ \A i \in DOMAIN q : q[i].account # a
                    /\ Apply(q, old)[a] = old[a]
                 \/ \E i \in DOMAIN q : q[i].account = a /\ Apply(q, old)[a] = q[i].record
<1>1. ASSUME NEW a \in Accounts
      PROVE  /\ Apply(q, old)[a] \in Records
             /\ \/ /\ \A i \in DOMAIN q : q[i].account # a
                   /\ Apply(q, old)[a] = old[a]
                \/ \E i \in DOMAIN q : q[i].account = a /\ Apply(q, old)[a] = q[i].record
  <2> DEFINE mine == {i \in DOMAIN q : q[i].account = a}
  <2>1. Apply(q, old)[a] = IF mine = {} THEN old[a] ELSE q[Max(mine)].record
    BY DEF Apply
  <2>2. CASE mine = {}
    BY <2>1, <2>2
  <2>3. CASE mine # {}
    <3>1. Len(q) \in Nat /\ mine \subseteq 0 .. Len(q)
      OBVIOUS
    <3>2. Max(mine) \in mine
      BY <2>3, <3>1, MaxFacts
    <3>3. \A i \in DOMAIN q : q[i] \in Patches
      OBVIOUS
    <3>4. q[Max(mine)].record \in Records
      BY <3>2, <3>3 DEF Patches
    <3> HIDE DEF mine
    <3>5. Max(mine) \in DOMAIN q /\ q[Max(mine)].account = a
      BY <3>2 DEF mine
    <3> QED
      BY <2>1, <2>3, <3>4, <3>5
  <2> QED
    BY <2>2, <2>3
<1>2. Apply(q, old) = [a \in Accounts |-> Apply(q, old)[a]]
  BY DEF Apply
<1> QED
  BY <1>1, <1>2
-----------------------------------------------------------------------------
(* The types. *)

\* The patch of a call keeps all but the amount of the record it read.
LEMMA RecordsFacts ==
    ASSUME TypeOK, NEW c \in Calls
    PROVE  /\ records(c) \in Patches
           /\ records(c).account = target[c]
           /\ records(c).record.amount = balance[c]
           /\ records(c).record.rest = account_response[c].rest
  BY DEF TypeOK, records, Patches, Records

\* A request that is sent adds patches of its call, and one for sure unless
\* the call gives up.
LEMMA DeliverFacts ==
    ASSUME TypeOK, NEW c \in Calls, NEW next \in {"patch_again", "poll"}, Deliver(c, next)
    PROVE  /\ queue' \in Seq(Patches)
           /\ DOMAIN queue \subseteq DOMAIN queue'
           /\ \A i \in DOMAIN queue : queue'[i] = queue[i]
           /\ \A i \in DOMAIN queue' : i \in DOMAIN queue \/ queue'[i] = records(c)
           /\ \/ /\ pc' = [pc EXCEPT ![c] = next] /\ result' = result
                 /\ \E i \in DOMAIN queue' \ DOMAIN queue : queue'[i] = records(c)
              \/ Return(c, "err")
           /\ UNCHANGED <<head, final, target, balance, account_response, polls, changes, touched, unsettled, lost>>
<1>1. PICK n \in 0 .. MaxCopies :
        /\ queue' = queue \o [i \in 1 .. n |-> records(c)]
        /\ \/ n > 0 /\ pc' = [pc EXCEPT ![c] = next] /\ UNCHANGED result
           \/ Return(c, "err")
        /\ UNCHANGED <<head, final, target, balance, account_response, polls, changes, touched, unsettled, lost>>
  BY DEF Deliver
<1>2. n \in Nat /\ queue \in Seq(Patches) /\ records(c) \in Patches
  <2>1. MaxCopies \in Nat
    BY SandboxAssumption
  <2>2. n \in 0 .. MaxCopies
    BY <1>1
  <2>4. n \in Nat
    BY <2>1, <2>2
  <2>3. queue \in Seq(Patches)
    BY DEF TypeOK
  <2> QED
    BY <2>3, <2>4, RecordsFacts
<1>3. LET new == queue \o [i \in 1 .. n |-> records(c)]
      IN  /\ new \in Seq(Patches)
          /\ DOMAIN queue \subseteq DOMAIN new
          /\ \A i \in DOMAIN queue : new[i] = queue[i]
          /\ \A i \in DOMAIN new : i \in DOMAIN queue \/ new[i] = records(c)
          /\ n > 0 => Len(queue) + 1 \in DOMAIN new /\ new[Len(queue) + 1] = records(c)
          /\ Len(queue) + 1 \notin DOMAIN queue
  BY <1>2, QueueCopies
<1> QED
  BY <1>1, <1>3

\* The records after a block, with Queued: patched ones have a balance asked for.
LEMMA BlockFacts ==
    ASSUME TypeInv, Block \/ fast_forward
    PROVE  /\ head' \in [Accounts -> Records]
           /\ \A a \in Accounts :
                 \/ Pending(a) = {} /\ head'[a] = head[a]
                 \/ \E i \in Pending(a) : head'[a] = queue[i].record
           /\ final' \in {head, head'} /\ queue' = <<>>
           /\ UNCHANGED <<target, balance, pc, account_response, polls, result, changes, touched, unsettled, lost>>
<1>1. queue \in Seq(Patches) /\ head \in [Accounts -> Records] /\ head' = Apply(queue, head)
  BY DEF TypeInv, TypeOK, Block, fast_forward
<1>2. /\ head' \in [Accounts -> Records]
      /\ \A a \in Accounts :
            \/ /\ \A i \in DOMAIN queue : queue[i].account # a
               /\ head'[a] = head[a]
            \/ \E i \in DOMAIN queue : queue[i].account = a /\ head'[a] = queue[i].record
  BY <1>1, ApplyFacts
<1>3. \A a \in Accounts :
         \/ Pending(a) = {} /\ head'[a] = head[a]
         \/ \E i \in Pending(a) : head'[a] = queue[i].record
  BY <1>2 DEF Pending
<1> QED
  BY <1>2, <1>3 DEF Block, fast_forward

\* Reading the record.
LEMMA TypeFetch ==
    ASSUME TypeInv, NEW c \in Calls, Fetch(c)
    PROVE  TypeInv'
<1> USE SandboxAssumption DEF TypeInv, TypeOK
<1>1. UNCHANGED <<node, target, balance, polls, touched>> /\ pc[c] = "fetch"
  BY DEF Fetch
<1>2. TypeOK'
  <2>1. pc' \in [Calls -> {"fetch", "patch", "patch_again", "poll", "done"}]
        /\ result' \in [Calls -> {"none", "ok", "err"}]
    BY DEF Fetch, Return
  <2>2. account_response' \in [Calls -> Records]
    <3>1. head[target[c]] \in Records
      OBVIOUS
    <3> QED
      BY <3>1 DEF Fetch
  <2>3. unsettled' \subseteq Calls
    <3>1. unsettled' \in {unsettled, unsettled \cup {c}}
      BY DEF Fetch
    <3> QED
      BY <3>1
  <2> QED
    BY <1>1, <2>1, <2>2, <2>3 DEF node
<1>3. Queued'
  <2>1. \A d \in Calls : pc[d] # "fetch" => pc'[d] # "fetch"
    BY DEF Fetch, Return
  <2> QED
    BY <1>1, <2>1 DEF Queued, node
<1>4. Polled'
  BY <1>1 DEF Fetch, Return, Polled
<1> QED
  BY <1>2, <1>3, <1>4

\* Sending a patch, the first or the second time.
LEMMA TypePatch ==
    ASSUME TypeInv, NEW c \in Calls, sandbox_patch_state(c)
    PROVE  TypeInv'
<1>1. PICK next \in {"patch_again", "poll"} : pc[c] \in {"patch", "patch_again"} /\ Deliver(c, next)
  BY DEF sandbox_patch_state
<1>2. /\ queue' \in Seq(Patches)
      /\ \A i \in DOMAIN queue : queue'[i] = queue[i]
      /\ \A i \in DOMAIN queue' : i \in DOMAIN queue \/ queue'[i] = records(c)
      /\ \/ pc' = [pc EXCEPT ![c] = next] /\ result' = result
         \/ Return(c, "err")
      /\ UNCHANGED <<head, final, target, balance, account_response, polls, changes, touched, unsettled, lost>>
  BY <1>1, DeliverFacts DEF TypeInv
<1> USE DEF TypeInv, TypeOK
<1>3. pc' \in [Calls -> {"fetch", "patch", "patch_again", "poll", "done"}]
      /\ result' \in [Calls -> {"none", "ok", "err"}]
  BY <1>2 DEF Return
<1>4. \A d \in Calls : pc[d] # "fetch" => pc'[d] # "fetch"
  BY <1>2 DEF Return
<1>5. Queued'
  <2> SUFFICES ASSUME NEW i \in DOMAIN queue'
               PROVE  \E d \in Calls : pc'[d] # "fetch" /\ target[d] = queue'[i].account
                                       /\ balance[d] = queue'[i].record.amount
    BY <1>2 DEF Queued
  <2>1. CASE i \in DOMAIN queue
    BY <1>2, <1>4, <2>1 DEF Queued
  <2>2. CASE queue'[i] = records(c)
    BY <1>1, <1>4, <2>2, RecordsFacts
  <2> QED
    BY <1>2, <2>1, <2>2
<1>6. Polled'
  BY <1>1, <1>2 DEF Return, Polled
<1> QED
  BY <1>2, <1>3, <1>5, <1>6

\* Reading the final record.
LEMMA TypePoll ==
    ASSUME TypeInv, NEW c \in Calls, Poll(c)
    PROVE  TypeInv'
<1> USE DEF TypeInv, TypeOK
<1>1. UNCHANGED <<node, target, balance, account_response, touched, unsettled>> /\ pc[c] = "poll"
  BY DEF Poll
<1>2. MaxPolls \in Nat /\ MaxLost \in Nat
  BY SandboxAssumption
<1>3. polls[c] \in 0 .. MaxPolls /\ polls[c] < MaxPolls /\ result[c] = "none"
  BY <1>1 DEF Polled
<1>4. polls' \in [Calls -> 0 .. MaxPolls]
  <2>1. polls[c] + 1 \in 0 .. MaxPolls
    BY <1>3, <1>2
  <2> QED
    BY <2>1 DEF Poll, PollAgain
<1>5. pc' \in [Calls -> {"fetch", "patch", "patch_again", "poll", "done"}]
      /\ result' \in [Calls -> {"none", "ok", "err"}]
      /\ \A d \in Calls : pc[d] # "fetch" => pc'[d] # "fetch"
  BY DEF Poll, PollAgain, Return
<1>6. Queued'
  BY <1>1, <1>5 DEF Queued, node
<1>7. Polled'
  <2> SUFFICES ASSUME NEW d \in Calls
               PROVE  /\ pc'[d] # "done" => polls'[d] < MaxPolls /\ result'[d] = "none"
                      /\ pc'[d] = "done" => result'[d] # "none"
    BY DEF Polled
  <2>1. CASE d # c
    BY <2>1 DEF Poll, PollAgain, Return, Polled
  <2>2. CASE d = c
    <3>1. CASE Return(c, "ok")
      BY <2>2, <3>1 DEF Return
    <3>2. CASE UNCHANGED <<pc, result>> /\ polls' = [polls EXCEPT ![c] = @ + 1] /\ polls[c] + 1 # MaxPolls
      <4>1. pc'[c] = "poll" /\ result'[c] = "none" /\ polls'[c] = polls[c] + 1
        BY <1>1, <1>3, <3>2
      <4>2. polls[c] + 1 < MaxPolls
        BY <1>3, <1>2, <3>2
      <4> QED
        BY <2>2, <4>1, <4>2
    <3> QED
      BY <3>1, <3>2 DEF Poll, PollAgain
  <2> QED
    BY <2>1, <2>2
<1> QED
  BY <1>1, <1>4, <1>5, <1>6, <1>7 DEF node

\* A lost patch: the types and where patches come from.
LEMMA TypeLose ==
    ASSUME TypeInv, Lose
    PROVE  TypeInv' /\ \A j \in DOMAIN queue' : \E i \in DOMAIN queue : queue'[j] = queue[i]
<1>1. PICK k \in DOMAIN queue : queue' = RemoveAt(queue, k)
  BY DEF Lose
<1>2. queue \in Seq(Patches)
  BY DEF TypeInv, TypeOK
<1>3. queue' \in Seq(Patches) /\ \A j \in DOMAIN queue' : \E i \in DOMAIN queue : queue'[j] = queue[i]
  BY <1>1, <1>2, QueueLoses
<1>4. lost' \in 0 .. MaxLost
  BY SandboxAssumption DEF TypeInv, TypeOK, Lose
<1>5. UNCHANGED <<head, final, target, balance, pc, account_response, polls, result, changes, touched, unsettled>>
  BY DEF Lose
<1>6. TypeOK'
  BY <1>3, <1>4, <1>5 DEF TypeInv, TypeOK
<1>7. Queued'
  BY <1>3, <1>5 DEF TypeInv, Queued
<1>8. Polled'
  BY <1>5 DEF TypeInv, Polled
<1> QED
  BY <1>3, <1>6, <1>7, <1>8 DEF TypeInv

\* A transaction changes a record and counts it.
LEMMA TypeTransaction ==
    ASSUME TypeInv, NEW a \in Accounts, Transaction(a)
    PROVE  TypeInv'
<1> USE DEF TypeInv, TypeOK
<1>1. PICK amount \in Amounts : head' = [head EXCEPT ![a] = [amount |-> amount, rest |-> changes[a] + 1]]
  BY DEF Transaction
<1>2. head' \in [Accounts -> Records]
  <2>1. [amount |-> amount, rest |-> changes[a] + 1] \in Records
    BY <1>1 DEF Records
  <2> QED
    BY <1>1, <2>1
<1>3. changes' \in [Accounts -> Nat] /\ touched' \subseteq Calls
  <2>1. changes' = [changes EXCEPT ![a] = @ + 1]
    BY DEF Transaction
  <2>2. touched' = touched \cup {c \in Calls : target[c] = a /\ pc[c] # "fetch"}
    BY DEF Transaction
  <2> QED
    BY <2>1, <2>2
<1>4. UNCHANGED <<final, queue, target, balance, pc, account_response, polls, result, unsettled, lost>>
  BY DEF Transaction
<1> QED
  BY <1>2, <1>3, <1>4 DEF Queued, Polled

\* Every step.
LEMMA TypeStep ==
    ASSUME TypeInv, [Next]_vars
    PROVE  TypeInv'
<1>1. ASSUME NEW c \in Calls, set_balance(c) PROVE TypeInv'
  BY <1>1, TypeFetch, TypePatch, TypePoll DEF set_balance
<1>2. CASE Block \/ fast_forward
  <2>1. /\ head' \in [Accounts -> Records] /\ final' \in {head, head'} /\ queue' = <<>>
        /\ UNCHANGED <<target, balance, pc, account_response, polls, result, changes, touched, unsettled, lost>>
    BY <1>2, BlockFacts
  <2> QED
    BY <2>1 DEF TypeInv, TypeOK, Queued, Polled
<1>3. CASE Lose
  BY <1>3, TypeLose
<1>4. ASSUME NEW a \in Accounts, Transaction(a) PROVE TypeInv'
  BY <1>4, TypeTransaction
<1>5. CASE Finished \/ UNCHANGED vars
  BY <1>5 DEF Finished, vars, TypeInv, TypeOK, Queued, Polled
<1> QED
  BY <1>1, <1>2, <1>3, <1>4, <1>5 DEF Next

\* The type invariant, with where queued patches come from and how often a
\* call polls.
THEOREM TypeCorrect == Spec => [](TypeOK /\ TypeInv)
<1>1. Init => TypeInv
  <2> SUFFICES ASSUME Init PROVE TypeInv
    OBVIOUS
  <2>1. PICK asked \in Asked : /\ target = [c \in Calls |-> asked[c].target]
                               /\ balance = [c \in Calls |-> asked[c].balance]
    BY DEF Init
  <2>2. asked \in [Calls -> [target : Accounts, balance : Amounts]]
    BY <2>1, SandboxAssumption
  <2>3. target \in [Calls -> Accounts] /\ balance \in [Calls -> Amounts]
    BY <2>1, <2>2
  <2>4. head \in [Accounts -> Records] /\ final \in [Accounts -> Records]
    BY SandboxAssumption DEF Init, Records
  <2>5. account_response \in [Calls -> Records]
    BY <2>3, <2>4 DEF Init
  <2>6. polls \in [Calls -> 0 .. MaxPolls] /\ lost \in 0 .. MaxLost
    BY SandboxAssumption DEF Init
  <2>7. TypeOK
    BY <2>3, <2>4, <2>5, <2>6 DEF Init, TypeOK
  <2>8. Queued /\ Polled
    BY SandboxAssumption DEF Init, Queued, Polled
  <2> QED
    BY <2>7, <2>8 DEF TypeInv
<1>2. TypeInv /\ [Next]_vars => TypeInv'
  BY TypeStep
<1>3. TypeInv => TypeOK
  BY DEF TypeInv
<1> QED
  BY <1>1, <1>2, <1>3, PTL DEF Spec
-----------------------------------------------------------------------------
(* Only the balance changes. *)

\* What RestInv says of account a.
RestOf(a) ==
    /\ head[a].rest = changes[a]
    /\ \A i \in DOMAIN queue : queue[i].account = a => queue[i].record.rest = changes[a]
    /\ \A c \in Calls : target[c] = a /\ pc[c] \in {"patch", "patch_again"} =>
            account_response[c].rest = changes[a]

\* Every step keeps the rest of an untouched account in its patches.
LEMMA RestStep ==
    ASSUME TypeInv, RestInv, [Next]_vars
    PROVE  RestInv'
<1> SUFFICES ASSUME NEW CONSTANT a \in Accounts, Untouched(a)' PROVE RestOf(a)'
  BY DEF RestInv, RestOf
<1> USE DEF TypeInv, TypeOK
<1>1. touched \subseteq touched' /\ target' = target
  BY DEF Next, set_balance, Fetch, sandbox_patch_state, Deliver, Poll, Block, fast_forward, Lose, Transaction,
         Finished, vars
<1>2. Untouched(a) /\ RestOf(a)
  BY <1>1 DEF Untouched, RestInv, RestOf
<1>3. ASSUME NEW c \in Calls, Fetch(c) PROVE RestOf(a)'
  <2>1. UNCHANGED <<head, queue, changes>> /\ pc[c] = "fetch"
    BY <1>3 DEF Fetch, node
  <2>2. ASSUME NEW d \in Calls, target[d] = a, pc'[d] \in {"patch", "patch_again"}
        PROVE  account_response'[d].rest = changes[a]
    <3>1. CASE d = c
      <4>1. account_response' = [account_response EXCEPT ![c] = head[target[c]]]
        BY <1>3, <2>2, <3>1 DEF Fetch, Return
      <4>2. account_response'[c] = head[a]
        BY <2>2, <3>1, <4>1
      <4> QED
        BY <1>2, <3>1, <4>2 DEF RestOf
    <3>2. CASE d # c
      BY <1>2, <1>3, <2>2, <3>2 DEF Fetch, Return, RestOf
    <3> QED
      BY <3>1, <3>2
  <2> QED
    BY <1>1, <1>2, <2>1, <2>2 DEF RestOf
<1>4. ASSUME NEW c \in Calls, sandbox_patch_state(c) PROVE RestOf(a)'
  <2>1. PICK next \in {"patch_again", "poll"} : pc[c] \in {"patch", "patch_again"} /\ Deliver(c, next)
    BY <1>4 DEF sandbox_patch_state
  <2>2. /\ \A i \in DOMAIN queue : queue'[i] = queue[i]
        /\ \A i \in DOMAIN queue' : i \in DOMAIN queue \/ queue'[i] = records(c)
        /\ pc' = [pc EXCEPT ![c] = next] \/ pc' = [pc EXCEPT ![c] = "done"]
        /\ UNCHANGED <<head, target, account_response, changes>>
    BY <2>1, DeliverFacts DEF Return
  <2>3. \A d \in Calls : pc'[d] \in {"patch", "patch_again"} => pc[d] \in {"patch", "patch_again"}
    BY <2>1, <2>2
  <2>4. ASSUME NEW i \in DOMAIN queue', queue'[i].account = a
        PROVE  queue'[i].record.rest = changes[a]
    <3>1. CASE i \in DOMAIN queue
      BY <1>2, <2>2, <2>4, <3>1 DEF RestOf
    <3>2. CASE queue'[i] = records(c)
      BY <1>2, <2>1, <2>4, <3>2, RecordsFacts DEF RestOf
    <3> QED
      BY <2>2, <3>1, <3>2
  <2> QED
    BY <1>2, <2>2, <2>3, <2>4 DEF RestOf
<1>5. ASSUME NEW c \in Calls, Poll(c) PROVE RestOf(a)'
  <2>1. UNCHANGED <<head, queue, changes, target, account_response>> /\ pc[c] = "poll"
    BY <1>5 DEF Poll, node
  <2>2. \A d \in Calls : pc'[d] \in {"patch", "patch_again"} => pc[d] \in {"patch", "patch_again"}
    BY <1>5 DEF Poll, PollAgain, Return
  <2> QED
    BY <1>2, <2>1, <2>2 DEF RestOf
<1>6. CASE Block \/ fast_forward
  <2>1. \/ head'[a] = head[a]
        \/ \E i \in Pending(a) : head'[a] = queue[i].record
    BY <1>6, BlockFacts
  <2>2. queue' = <<>> /\ UNCHANGED <<target, pc, account_response, changes>>
    BY <1>6, BlockFacts
  <2>3. head'[a].rest = changes[a]
    BY <1>2, <2>1 DEF RestOf, Pending
  <2> QED
    BY <1>2, <2>2, <2>3 DEF RestOf
<1>7. CASE Lose
  <2>1. UNCHANGED <<head, target, pc, account_response, changes>>
    BY <1>7 DEF Lose
  <2>2. \A j \in DOMAIN queue' : \E i \in DOMAIN queue : queue'[j] = queue[i]
    BY <1>7, TypeLose
  <2> QED
    BY <1>2, <2>1, <2>2 DEF RestOf
<1>8. ASSUME NEW b \in Accounts, Transaction(b) PROVE RestOf(a)'
  <2>1. UNCHANGED <<queue, target, pc, account_response>>
    BY <1>8 DEF Transaction
  <2>2. PICK amount \in Amounts : head' = [head EXCEPT ![b] = [amount |-> amount, rest |-> changes[b] + 1]]
    BY <1>8 DEF Transaction
  <2>3. changes' = [changes EXCEPT ![b] = @ + 1]
    BY <1>8 DEF Transaction
  <2>4. CASE a # b
    BY <1>2, <2>1, <2>2, <2>3, <2>4 DEF RestOf
  <2>5. CASE a = b
    <3>1. \A c \in Calls : target[c] = a => pc[c] = "fetch"
      BY <1>1, <1>8, <2>5 DEF Transaction, Untouched
    <3>2. \A i \in DOMAIN queue : queue[i].account # a
      BY <3>1 DEF Queued
    <3>3. head'[a].rest = changes'[a]
      BY <2>2, <2>3, <2>5
    <3> QED
      BY <2>1, <3>1, <3>2, <3>3 DEF RestOf
  <2> QED
    BY <2>4, <2>5
<1>9. CASE Finished \/ UNCHANGED vars
  BY <1>2, <1>9 DEF Finished, vars, RestOf
<1> QED
  BY <1>3, <1>4, <1>5, <1>6, <1>7, <1>8, <1>9 DEF Next, set_balance

\* set_balance changes only the balance, for every interleaving of calls,
\* copies of a patch, lost patches and blocks: what transactions did to the
\* rest of a record survives unless one ran between a call's read and its patch.
THEOREM RestSurvives == Spec => []OnlyTheBalance
<1>1. Init => RestInv
  BY DEF Init, RestInv
<1>2. TypeInv /\ RestInv /\ [Next]_vars => RestInv'
  BY RestStep
<1>3. RestInv => OnlyTheBalance
  BY DEF RestInv, OnlyTheBalance
<1> QED
  BY <1>1, <1>2, <1>3, TypeCorrect, PTL DEF Spec
-----------------------------------------------------------------------------
(* The second send suffices. *)

\* What SendsInv says of call c, whose account is a.
SendsOf(c, a) ==
    /\ lost = 0 /\ pc[c] = "patch_again" => Pending(a) # {}
    /\ lost = 0 /\ (pc[c] = "poll" \/ result[c] = "ok") => Two(Pending(a))
    /\ lost = 1 /\ (pc[c] = "poll" \/ result[c] = "ok") => Pending(a) # {}

\* Every step keeps a patch on its way, or applied, after the second send.
LEMMA SendsStep ==
    ASSUME TypeInv, SendsInv, [Next]_vars
    PROVE  SendsInv'
<1> USE DEF TypeInv, TypeOK
<1>1. touched \subseteq touched' /\ target' = target /\ balance' = balance
  BY DEF Next, set_balance, Fetch, sandbox_patch_state, Deliver, Poll, Block, fast_forward, Lose, Transaction,
         Finished, vars
<1> SUFFICES ASSUME NEW CONSTANT c \in Calls, NEW CONSTANT a \in Accounts, a = target[c],
                    Untouched(a)', ~HasAsked(a)'
             PROVE  SendsOf(c, a)'
  <2>1. SendsInv' <=> \A c \in Calls : Untouched(target[c])' /\ ~HasAsked(target[c])' => SendsOf(c, target[c])'
    BY <1>1 DEF SendsInv, SendsOf
  <2> QED
    BY <1>1, <2>1
<1>2. Untouched(a)
  BY <1>1 DEF Untouched
<1>3. ASSUME head'[a] = head[a] PROVE ~HasAsked(a) /\ SendsOf(c, a)
  <2>1. ~HasAsked(a)
    BY <1>1, <1>3 DEF HasAsked
  <2> QED
    BY <1>2, <2>1 DEF SendsInv, SendsOf
<1>4. ASSUME UNCHANGED <<head, queue, lost>>,
             pc'[c] = "patch_again" => pc[c] = "patch_again",
             pc'[c] = "poll" \/ result'[c] = "ok" => pc[c] = "poll" \/ result[c] = "ok"
      PROVE  SendsOf(c, a)'
  <2>1. SendsOf(c, a) /\ Pending(a)' = Pending(a)
    BY <1>3, <1>4 DEF Pending
  <2> QED
    BY <1>4, <2>1 DEF SendsOf, Two
<1>5. ASSUME NEW d \in Calls, Fetch(d) PROVE SendsOf(c, a)'
  BY <1>4, <1>5 DEF Fetch, Return, node
<1>6. ASSUME NEW d \in Calls, Poll(d) PROVE SendsOf(c, a)'
  <2>1. UNCHANGED <<head, queue, lost>> /\ pc[d] = "poll"
    BY <1>6 DEF Poll, node
  <2>2. c # d => pc'[c] = pc[c] /\ result'[c] = result[c]
    BY <1>6 DEF Poll, PollAgain, Return
  <2>3. pc'[d] \in {"poll", "done"}
    BY <1>6, <2>1 DEF Poll, PollAgain, Return
  <2> QED
    BY <1>4, <2>1, <2>2, <2>3
<1>7. ASSUME NEW d \in Calls, sandbox_patch_state(d) PROVE SendsOf(c, a)'
  <2>1. PICK next \in {"patch_again", "poll"} :
          /\ \/ (pc[d] = "patch" /\ next = "patch_again")
             \/ (pc[d] = "patch_again" /\ next = "poll")
          /\ Deliver(d, next)
    BY <1>7 DEF sandbox_patch_state
  <2>2. /\ DOMAIN queue \subseteq DOMAIN queue'
        /\ \A i \in DOMAIN queue : queue'[i] = queue[i]
        /\ \/ /\ pc' = [pc EXCEPT ![d] = next] /\ result' = result
              /\ \E i \in DOMAIN queue' \ DOMAIN queue : queue'[i] = records(d)
           \/ Return(d, "err")
        /\ head' = head /\ lost' = lost
    BY <2>1, DeliverFacts
  <2>3. SendsOf(c, a) /\ Pending(a) \subseteq Pending(a)'
    BY <1>3, <2>2 DEF Pending
  <2>4. CASE c # d
    <3>1. pc'[c] = pc[c] /\ result'[c] = result[c]
      BY <2>2, <2>4 DEF Return
    <3> QED
      BY <2>2, <2>3, <3>1 DEF SendsOf, Two
  <2>5. CASE c = d /\ Return(d, "err")
    BY <2>5 DEF Return, SendsOf
  <2>6. ASSUME c = d, pc' = [pc EXCEPT ![d] = next], result' = result,
               NEW i \in DOMAIN queue' \ DOMAIN queue, queue'[i] = records(d)
        PROVE  SendsOf(c, a)'
    <3>1. i \in Pending(a)' /\ i \notin Pending(a)
      BY <2>6, RecordsFacts DEF Pending
    <3>2. pc'[c] = next /\ result'[c] = "none"
      BY <2>1, <2>6 DEF Polled
    <3> QED
      BY <2>1, <2>2, <2>3, <2>6, <3>1, <3>2 DEF SendsOf, Two
  <2> QED
    BY <2>2, <2>4, <2>5, <2>6
<1>8. CASE Block \/ fast_forward
  <2>1. \/ Pending(a) = {} /\ head'[a] = head[a]
        \/ \E i \in Pending(a) : head'[a] = queue[i].record
    BY <1>8, BlockFacts
  <2>2. ~ \E i \in Pending(a) : head'[a] = queue[i].record
    BY <1>1 DEF Queued, Pending, HasAsked
  <2>3. Pending(a) = {} /\ SendsOf(c, a)
    BY <1>3, <2>1, <2>2
  <2>4. UNCHANGED <<pc, result, lost>>
    BY <1>8, BlockFacts
  <2> QED
    BY <2>3, <2>4 DEF SendsOf, Two
<1>9. CASE Lose
  <2>1. PICK k \in DOMAIN queue : queue' = RemoveAt(queue, k)
    BY <1>9 DEF Lose
  <2>2. \A i \in DOMAIN queue \ {k} : \E j \in DOMAIN queue' : queue'[j] = queue[i]
    BY <2>1, QueueLoses
  <2>3. UNCHANGED <<head, pc, result>> /\ lost' = lost + 1 /\ lost \in Nat
    BY <1>9, SandboxAssumption DEF Lose
  <2>4. SendsOf(c, a)
    BY <1>3, <2>3
  <2>5. Two(Pending(a)) => Pending(a)' # {}
    <3> SUFFICES ASSUME NEW i \in Pending(a), NEW j \in Pending(a), i # j PROVE Pending(a)' # {}
      BY DEF Two
    <3>1. PICK l \in Pending(a) : l # k
      OBVIOUS
    <3>2. l \in DOMAIN queue \ {k} /\ queue[l].account = a
      BY <3>1 DEF Pending
    <3>3. PICK m \in DOMAIN queue' : queue'[m] = queue[l]
      BY <2>2, <3>2
    <3> QED
      BY <3>2, <3>3 DEF Pending
  <2> QED
    BY <2>3, <2>4, <2>5 DEF SendsOf
<1>10. ASSUME NEW b \in Accounts, Transaction(b) PROVE SendsOf(c, a)'
  <2>1. UNCHANGED <<queue, pc, result, lost>>
    BY <1>10 DEF Transaction
  <2>2. CASE a # b
    <3>1. head'[a] = head[a]
      BY <1>10, <2>2 DEF Transaction
    <3>2. SendsOf(c, a) /\ Pending(a)' = Pending(a)
      BY <1>3, <2>1, <3>1 DEF Pending
    <3> QED
      BY <2>1, <3>2 DEF SendsOf, Two
  <2>3. CASE a = b
    <3>1. pc[c] = "fetch"
      BY <1>1, <1>10, <2>3 DEF Transaction, Untouched
    <3>2. result[c] = "none"
      BY <3>1 DEF Polled
    <3> QED
      BY <2>1, <3>1, <3>2 DEF SendsOf
  <2> QED
    BY <2>2, <2>3
<1>11. CASE Finished \/ UNCHANGED vars
  BY <1>4, <1>11 DEF Finished, vars
<1> QED
  BY <1>5, <1>6, <1>7, <1>8, <1>9, <1>10, <1>11 DEF Next, set_balance

\* If the node loses at most one patch, an account whose calls have all
\* returned Ok ends with a balance one of them asked for: sending the patch
\* twice is enough, however the calls and blocks interleave.
THEOREM TwoSendsSuffice == Spec => []SecondSendSuffices
<1>1. Init => SendsInv
  BY DEF Init, SendsInv
<1>2. TypeInv /\ SendsInv /\ [Next]_vars => SendsInv'
  BY SendsStep
<1>3. TypeInv /\ SendsInv => SecondSendSuffices
  <2> SUFFICES ASSUME TypeInv, SendsInv, NEW a \in Accounts, NEW c \in Calls, target[c] = a,
                      Untouched(a), lost <= 1, result[c] = "ok",
                      \A i \in DOMAIN queue : queue[i].account # a
               PROVE  HasAsked(a)
    BY DEF SecondSendSuffices, HasAsked
  <2>1. lost \in {0, 1}
    BY SandboxAssumption DEF TypeInv, TypeOK
  <2>2. Pending(a) = {}
    BY DEF Pending
  <2> QED
    BY <2>1, <2>2 DEF SendsInv, Two
<1> QED
  BY <1>1, <1>2, <1>3, TypeCorrect, PTL DEF Spec
-----------------------------------------------------------------------------
(* A call that returns early can be relied on. *)

\* What PollInv says of call c, whose account is a.
PollOf(c, a) ==
    /\ pc[c] # "fetch" /\ result[c] # "err" /\ final[a].amount = balance[c] => head[a].amount = balance[c]
    /\ result[c] = "ok" /\ polls[c] < MaxPolls => final[a].amount = balance[c]

\* Every step keeps what a successful poll has seen.
LEMMA PollStep ==
    ASSUME TypeInv, PollInv, [Next]_vars
    PROVE  PollInv'
<1> USE DEF TypeInv, TypeOK
<1>1. touched \subseteq touched' /\ unsettled \subseteq unsettled' /\ target' = target /\ balance' = balance
  BY DEF Next, set_balance, Fetch, sandbox_patch_state, Deliver, Poll, Block, fast_forward, Lose, Transaction,
         Finished, vars
<1> SUFFICES ASSUME NEW CONSTANT c \in Calls, NEW CONSTANT a \in Accounts, a = target[c], Alone(c)'
             PROVE  PollOf(c, a)'
  <2>1. PollInv' <=> \A c \in Calls : Alone(c)' => PollOf(c, target[c])'
    BY <1>1 DEF PollInv, PollOf
  <2> QED
    BY <1>1, <2>1
<1>2. Alone(c) /\ PollOf(c, a)
  BY <1>1 DEF Alone, PollInv, PollOf
<1>3. \A i \in Pending(a) : queue[i].record.amount = balance[c] /\ pc[c] # "fetch"
  BY <1>2 DEF Queued, Pending, Alone
<1>4. ASSUME UNCHANGED <<head, final>>,
             pc'[c] # "fetch" /\ result'[c] # "err" => pc[c] # "fetch" /\ result[c] # "err",
             result'[c] = "ok" => result[c] = "ok" /\ polls'[c] = polls[c]
      PROVE  PollOf(c, a)'
  BY <1>1, <1>2, <1>4 DEF PollOf
<1>5. ASSUME NEW d \in Calls, Fetch(d) PROVE PollOf(c, a)'
  <2>1. UNCHANGED <<head, final, polls>> /\ pc[d] = "fetch" /\ result[d] = "none"
    BY <1>5 DEF Fetch, node, Polled
  <2>2. CASE c # d
    BY <1>4, <1>5, <2>1, <2>2 DEF Fetch, Return
  <2>3. CASE c = d
    <3>1. result'[c] # "ok"
      BY <1>5, <2>1, <2>3 DEF Fetch, Return
    <3>2. CASE unsettled' = IF final[target[c]] = head[target[c]] THEN unsettled ELSE unsettled \cup {c}
      <4>1. final[a] = head[a]
        BY <3>2 DEF Alone
      <4> QED
        BY <1>1, <2>1, <3>1, <4>1 DEF PollOf
    <3>3. CASE Return(c, "err")
      BY <3>3 DEF PollOf, Return
    <3> QED
      BY <1>5, <2>3, <3>2, <3>3 DEF Fetch
  <2> QED
    BY <2>2, <2>3
<1>6. ASSUME NEW d \in Calls, sandbox_patch_state(d) PROVE PollOf(c, a)'
  <2>1. PICK next \in {"patch_again", "poll"} : pc[d] \in {"patch", "patch_again"} /\ Deliver(d, next)
    BY <1>6 DEF sandbox_patch_state
  <2>2. /\ UNCHANGED <<head, final, polls>>
        /\ \/ pc' = [pc EXCEPT ![d] = next] /\ result' = result
           \/ Return(d, "err")
    BY <2>1, DeliverFacts
  <2> QED
    BY <1>4, <2>1, <2>2 DEF Return
<1>7. ASSUME NEW d \in Calls, Poll(d) PROVE PollOf(c, a)'
  <2>1. UNCHANGED <<head, final>> /\ pc[d] = "poll"
    BY <1>7 DEF Poll, node
  <2>2. CASE c # d
    BY <1>4, <1>7, <2>1, <2>2 DEF Poll, PollAgain, Return
  <2>3. CASE c = d
    <3>1. polls[c] \in Nat /\ MaxPolls \in Nat /\ result[c] = "none"
      BY <2>1, <2>3, SandboxAssumption DEF Polled
    <3>2. CASE final[a].amount = balance[c]
      <4>1. head[a].amount = balance[c]
        BY <1>2, <2>1, <2>3, <3>1, <3>2 DEF PollOf
      <4> QED
        BY <1>1, <2>1, <3>2, <4>1 DEF PollOf
    <3>3. CASE PollAgain(c)
      <4>1. result'[c] = "ok" => polls'[c] = MaxPolls
        BY <3>1, <3>3 DEF PollAgain, Return
      <4>2. ~(MaxPolls < MaxPolls)
        BY <3>1
      <4>3. pc[c] # "fetch" /\ (final[a].amount = balance[c] => head[a].amount = balance[c])
        BY <1>2, <2>1, <2>3, <3>1 DEF PollOf
      <4> QED
        BY <1>1, <2>1, <4>1, <4>2, <4>3 DEF PollOf
    <3> QED
      BY <1>7, <2>3, <3>2, <3>3 DEF Poll, account
  <2> QED
    BY <2>2, <2>3
<1>8. CASE Block \/ fast_forward
  <2>1. \/ Pending(a) = {} /\ head'[a] = head[a]
        \/ \E i \in Pending(a) : head'[a] = queue[i].record
    BY <1>8, BlockFacts
  <2>2. final' \in {head, head'} /\ UNCHANGED <<pc, result, polls>>
    BY <1>8, BlockFacts
  <2>3. \/ head'[a] = head[a]
        \/ head'[a].amount = balance[c] /\ pc[c] # "fetch"
    BY <1>3, <2>1
  <2>4. result[c] = "ok" => pc[c] # "fetch"
    BY DEF Polled
  <2> QED
    BY <1>1, <1>2, <2>2, <2>3, <2>4 DEF PollOf
<1>9. CASE Lose
  BY <1>4, <1>9 DEF Lose
<1>10. ASSUME NEW b \in Accounts, Transaction(b) PROVE PollOf(c, a)'
  <2>1. UNCHANGED <<final, pc, result, polls>>
    BY <1>10 DEF Transaction
  <2>2. CASE a # b
    <3>1. head'[a] = head[a]
      BY <1>10, <2>2 DEF Transaction
    <3> QED
      BY <1>1, <1>2, <2>1, <3>1 DEF PollOf
  <2>3. CASE a = b
    <3>1. pc[c] = "fetch"
      BY <1>1, <1>10, <2>3 DEF Transaction, Alone
    <3>2. result[c] = "none"
      BY <3>1 DEF Polled
    <3> QED
      BY <2>1, <3>1, <3>2 DEF PollOf
  <2> QED
    BY <2>2, <2>3
<1>11. CASE Finished \/ UNCHANGED vars
  BY <1>4, <1>11 DEF Finished, vars
<1> QED
  BY <1>5, <1>6, <1>7, <1>8, <1>9, <1>10, <1>11 DEF Next, set_balance

\* A call that saw its balance in a final block, alone on an account it read
\* settled, can be relied on: until somebody changes the account, the final
\* record and what the queue will make of the latest one have that balance.
THEOREM EarlyReturnIsReliable == Spec => []ReadsItsBalance
<1>1. Init => PollInv
  BY DEF Init, PollInv
<1>2. TypeInv /\ PollInv /\ [Next]_vars => PollInv'
  BY PollStep
<1>3. TypeInv /\ PollInv => ReadsItsBalance
  <2> SUFFICES ASSUME TypeInv, PollInv, NEW c \in Calls, Alone(c), result[c] = "ok", polls[c] < MaxPolls
               PROVE  final[target[c]].amount = balance[c] /\ Apply(queue, head)[target[c]].amount = balance[c]
    BY DEF ReadsItsBalance, Alone
  <2> USE DEF TypeInv, TypeOK
  <2>1. target[c] \in Accounts /\ pc[c] # "fetch"
    BY DEF Polled
  <2>2. final[target[c]].amount = balance[c] /\ head[target[c]].amount = balance[c]
    BY <2>1 DEF PollInv
  <2>3. \A i \in DOMAIN queue : queue[i].account = target[c] => queue[i].record.amount = balance[c]
    BY DEF Queued, Alone
  <2>4. \/ Apply(queue, head)[target[c]] = head[target[c]]
        \/ \E i \in DOMAIN queue : queue[i].account = target[c] /\ Apply(queue, head)[target[c]] = queue[i].record
    BY <2>1, ApplyFacts
  <2> QED
    BY <2>2, <2>3, <2>4
<1> QED
  BY <1>1, <1>2, <1>3, TypeCorrect, PTL DEF Spec
=============================================================================
