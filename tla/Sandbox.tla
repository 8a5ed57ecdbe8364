------------------------------- MODULE Sandbox -------------------------------
(***************************************************************************)
(* sandbox.rs, set_balance and fast_forward, over the sandbox methods of   *)
(* client/rpc.rs.  set_balance reads the record of an account, overwrites  *)
(* its amount, patches the whole record back twice and polls.  The node    *)
(* applies patches later, in blocks, and may lose one; other transactions  *)
(* run meanwhile.  A record is its amount and, for all other fields, how   *)
(* many transactions have changed them.                                    *)
(***************************************************************************)
EXTENDS Naturals, Sequences, SequencesExt, Functions

CONSTANTS
    Accounts,
    Calls,          \* the calls of set_balance
    Asked,          \* the arguments calls can have together, each a function on Calls
    Amounts,        \* the amounts accounts can have
    InitialAmount,  \* what every account starts with
    MaxPolls,       \* 50 in the code
    MaxCopies,      \* bound on the deliveries of one request by the retry loop
    MaxTransactions,\* bound on other transactions
    MaxLost         \* bound on patches lost by the node

ASSUME SandboxAssumption ==
    /\ Amounts \subseteq Nat /\ InitialAmount \in Amounts
    /\ Asked \subseteq [Calls -> [target : Accounts, balance : Amounts]]
    /\ MaxPolls \in Nat \ {0}
    /\ {MaxCopies, MaxTransactions, MaxLost} \subseteq Nat

VARIABLES
    head,           \* the records at the latest block
    final,          \* the records at the last final block
    queue,          \* patches the node has accepted and not applied
    target, balance,\* the arguments of a call: its account, the amount to have
    pc, account_response, polls, result,
    changes,        \* history: per account, the transactions that changed it
    touched,        \* history: calls whose account others changed since they read it
    unsettled,      \* history: calls that read a record which was not final yet
    lost            \* history: patches the node lost

node == <<head, final, queue, changes, lost>>
vars == <<head, final, queue, target, balance, pc, account_response, polls, result, changes, touched, unsettled, lost>>

Records == [amount : Amounts, rest : Nat]
Patches == [account : Accounts, record : Records]

TypeOK ==
    /\ head \in [Accounts -> Records] /\ final \in [Accounts -> Records]
    /\ queue \in Seq(Patches)
    /\ target \in [Calls -> Accounts] /\ balance \in [Calls -> Amounts]
    /\ pc \in [Calls -> {"fetch", "patch", "patch_again", "poll", "done"}]
    /\ account_response \in [Calls -> Records]
    /\ polls \in [Calls -> 0 .. MaxPolls]
    /\ result \in [Calls -> {"none", "ok", "err"}]
    /\ changes \in [Accounts -> Nat]
    /\ touched \subseteq Calls /\ unsettled \subseteq Calls
    /\ lost \in 0 .. MaxLost

Init ==
    /\ head = [a \in Accounts |-> [amount |-> InitialAmount, rest |-> 0]]
    /\ final = head
    /\ queue = <<>>
    /\ \E asked \in Asked :
          /\ target = [c \in Calls |-> asked[c].target]
          /\ balance = [c \in Calls |-> asked[c].balance]
    /\ pc = [c \in Calls |-> "fetch"]
    /\ account_response = [c \in Calls |-> head[target[c]]]
    /\ polls = [c \in Calls |-> 0]
    /\ result = [c \in Calls |-> "none"]
    /\ changes = [a \in Accounts |-> 0]
    /\ touched = {} /\ unsettled = {}
    /\ lost = 0

Return(c, r) ==
    /\ pc' = [pc EXCEPT ![c] = "done"]
    /\ result' = [result EXCEPT ![c] = r]
-----------------------------------------------------------------------------
(* set_balance. *)

\* The raw view_account query at optimistic finality.
Fetch(c) ==
    /\ pc[c] = "fetch"
    /\ \/ /\ account_response' = [account_response EXCEPT ![c] = head[target[c]]]
          /\ pc' = [pc EXCEPT ![c] = "patch"]
          /\ unsettled' = IF final[target[c]] = head[target[c]] THEN unsettled ELSE unsettled \cup {c}
          /\ UNCHANGED result
       \/ /\ Return(c, "err")
          /\ UNCHANGED <<account_response, unsettled>>
    /\ UNCHANGED <<node, target, balance, polls, touched>>

\* Variant: the record is written out from the fields the method knows.
records_fresh(c) == [account |-> target[c], record |-> [amount |-> balance[c], rest |-> 0]]

\* The record that was read, with the amount overwritten.
records(c) == [account |-> target[c], record |-> [account_response[c] EXCEPT !.amount = balance[c]]]

\* One sandbox_patch_state request: RpcClient::call may deliver it again, and
\* may give up after it was delivered.
Deliver(c, next) ==
    \E n \in 0 .. MaxCopies :
        /\ queue' = queue \o [i \in 1 .. n |-> records(c)]
        /\ \/ /\ n > 0
              /\ pc' = [pc EXCEPT ![c] = next]
              /\ UNCHANGED result
           \/ Return(c, "err")
        /\ UNCHANGED <<head, final, target, balance, account_response, polls, changes, touched, unsettled, lost>>

\* Variant: the patch is sent once.
sandbox_patch_state_once(c) == pc[c] = "patch" /\ Deliver(c, "poll")

\* RpcClient::sandbox_patch_state: the patch is sent twice.
sandbox_patch_state(c) ==
    \/ pc[c] = "patch" /\ Deliver(c, "patch_again")
    \/ pc[c] = "patch_again" /\ Deliver(c, "poll")

\* Variant: the latest block is read.
account_optimistic(a) == head[a]

\* Near::account reads at final finality.
account(a) == final[a]

\* Variant: the polls are not counted.
PollAgain_forever(c) == UNCHANGED <<pc, polls, result>>

\* Variant: the loop runs once more than its range.
PollAgain_one_more(c) ==
    /\ polls' = [polls EXCEPT ![c] = @ + 1]
    /\ IF polls[c] = MaxPolls THEN Return(c, "ok") ELSE UNCHANGED <<pc, result>>

\* Another poll, or the end of the loop, which is success as well.
PollAgain(c) ==
    /\ polls' = [polls EXCEPT ![c] = @ + 1]
    /\ IF polls[c] + 1 = MaxPolls THEN Return(c, "ok") ELSE UNCHANGED <<pc, result>>

\* A poll that fails counts as one that does not see the balance.
Poll(c) ==
    /\ pc[c] = "poll"
    /\ \/ /\ account(target[c]).amount = balance[c]
          /\ Return(c, "ok")
          /\ UNCHANGED polls
       \/ PollAgain(c)
    /\ UNCHANGED <<node, target, balance, account_response, touched, unsettled>>

set_balance(c) == Fetch(c) \/ sandbox_patch_state(c) \/ Poll(c)
-----------------------------------------------------------------------------
(* The sandbox node and its other users. *)

\* The records after the patches of a queue.
Apply(patches, records0) ==
    [a \in Accounts |->
        LET mine == {i \in DOMAIN patches : patches[i].account = a}
        IN  IF mine = {} THEN records0[a] ELSE patches[Max(mine)].record]

\* A block: pending patches are applied, the block before becomes final.
Block ==
    /\ queue # <<>> \/ final # head
    /\ head' = Apply(queue, head)
    /\ final' = head
    /\ queue' = <<>>
    /\ UNCHANGED <<target, balance, pc, account_response, polls, result, changes, touched, unsettled, lost>>

\* fast_forward by two or more blocks, answered when they are produced.
fast_forward ==
    /\ queue # <<>> \/ final # head
    /\ head' = Apply(queue, head)
    /\ final' = head'
    /\ queue' = <<>>
    /\ UNCHANGED <<target, balance, pc, account_response, polls, result, changes, touched, unsettled, lost>>

\* The node loses a patch it accepted: the reason it is sent twice.
Lose ==
    /\ lost < MaxLost
    /\ \E i \in DOMAIN queue : queue' = RemoveAt(queue, i)
    /\ lost' = lost + 1
    /\ UNCHANGED <<head, final, target, balance, pc, account_response, polls, result, changes, touched, unsettled>>

\* A transaction changes the balance and another field of an account.
Transaction(a) ==
    /\ FoldFunction(LAMBDA x, y : x + y, 0, changes) < MaxTransactions
    /\ \E amount \in Amounts : head' = [head EXCEPT ![a] = [amount |-> amount, rest |-> changes[a] + 1]]
    /\ changes' = [changes EXCEPT ![a] = @ + 1]
    /\ touched' = touched \cup {c \in Calls : target[c] = a /\ pc[c] # "fetch"}
    /\ UNCHANGED <<final, queue, target, balance, pc, account_response, polls, result, unsettled, lost>>

\* Everything has returned and the node is idle.
Finished == (\A c \in Calls : pc[c] = "done") /\ queue = <<>> /\ final = head /\ UNCHANGED vars

Next ==
    \/ \E c \in Calls : set_balance(c)
    \/ Block \/ fast_forward \/ Lose
    \/ \E a \in Accounts : Transaction(a)
    \/ Finished

\* A call is polled by its executor; a request is answered or fails.
Spec == Init /\ [][Next]_vars /\ \A c \in Calls : WF_vars(set_balance(c))
-----------------------------------------------------------------------------
(* Properties. *)

\* No call on the account, read before a change, can still write it back.
Untouched(a) == \A c \in touched : target[c] # a

\* set_balance changes only the balance: what transactions did to the rest of
\* a record survives, unless one ran between a call's read and its patches.
OnlyTheBalance == \A a \in Accounts : Untouched(a) => head[a].rest = changes[a]

\* The second send makes up for a patch the node loses: once every call on an
\* account has returned Ok and its patches are applied, it has a balance one of
\* them asked for.
SecondSendSuffices ==
    \A a \in Accounts :
        LET mine == {c \in Calls : target[c] = a}
        IN  /\ mine # {} /\ Untouched(a) /\ lost <= 1
            /\ \A c \in mine : result[c] = "ok"
            /\ \A i \in DOMAIN queue : queue[i].account # a
            => head[a].amount \in {balance[c] : c \in mine}

\* A call that returns before its polls run out can be relied on: while nothing
\* else changes its account, every later read, final or not, has the balance.
\* It must have read a settled account: a final record that was already
\* overtaken can have the balance by chance and end the polls early.
ReadsItsBalance ==
    \A c \in Calls :
        /\ result[c] = "ok" /\ polls[c] < MaxPolls /\ c \notin touched \cup unsettled
        /\ \A d \in Calls \ {c} : target[d] # target[c]
        => final[target[c]].amount = balance[c] /\ Apply(queue, head)[target[c]].amount = balance[c]

\* Every call returns, whatever the node loses.
CallsReturn == \A c \in Calls : <>(pc[c] = "done")
=============================================================================
