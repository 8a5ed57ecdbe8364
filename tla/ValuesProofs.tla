---------------------------- MODULE ValuesProofs -----------------------------
(***************************************************************************)
(* The sequential parts of the library for chains, lists and texts of any  *)
(* length.                                                                 *)
(***************************************************************************)
EXTENDS Values, NumberProofs

(* TransactionBuilder: what a chain of calls does to a builder. *)

\* f is what builder b is after each of the first n calls.
Steps(b, calls, n, f) ==
    /\ DOMAIN f = 0 .. n
    /\ f[0] = b
    /\ \A i \in 1 .. n : f[i] = Apply(f[i - 1], calls[i])

\* The recursion of Chained can be carried through any chain.
LEMMA StepsExist ==
    ASSUME NEW b, NEW calls
    PROVE  \A n \in Nat : \E f : Steps(b, calls, n, f)
<1> DEFINE Bad == {n \in Nat : ~ \E f : Steps(b, calls, n, f)}
<1> SUFFICES ASSUME Bad # {} PROVE FALSE
  OBVIOUS
<1>1. PICK n \in Bad : \A m \in Bad : n <= m
  BY LeastNat, Bad \subseteq Nat
<1>2. n # 0
  <2>1. Steps(b, calls, 0, [i \in 0 .. 0 |-> b])
    BY DEF Steps
  <2> QED
    BY <1>1, <2>1
<1>3. n - 1 \in Nat /\ n - 1 \notin Bad
  BY <1>1, <1>2
<1>4. PICK f : Steps(b, calls, n - 1, f)
  BY <1>3
<1> DEFINE g == [i \in 0 .. n |-> IF i = n THEN Apply(f[n - 1], calls[n]) ELSE f[i]]
<1>5. Steps(b, calls, n, g)
  <2>1. n \in Nat /\ n >= 1 /\ DOMAIN f = 0 .. n - 1 /\ f[0] = b
        /\ \A i \in 1 .. n - 1 : f[i] = Apply(f[i - 1], calls[i])
    BY <1>1, <1>2, <1>4 DEF Steps
  <2>2. g[0] = b /\ DOMAIN g = 0 .. n
    BY <2>1
  <2>3. ASSUME NEW i \in 1 .. n PROVE g[i] = Apply(g[i - 1], calls[i])
    <3>1. g[i - 1] = f[i - 1]
      BY <2>1
    <3> QED
      BY <2>1, <3>1
  <2> HIDE DEF g
  <2> QED
    BY <2>2, <2>3 DEF Steps
<1> QED
  BY <1>1, <1>5

\* It has one solution.
LEMMA StepsUnique ==
    ASSUME NEW b, NEW calls, NEW n \in Nat, NEW f, NEW g, Steps(b, calls, n, f), Steps(b, calls, n, g)
    PROVE  \A i \in 0 .. n : f[i] = g[i]
<1> DEFINE Bad == {i \in 0 .. n : f[i] # g[i]}
<1> SUFFICES ASSUME Bad # {} PROVE FALSE
  OBVIOUS
<1>1. PICK i \in Bad : \A j \in Bad : i <= j
  BY LeastNat, Bad \subseteq Nat
<1>2. i # 0
  BY <1>1 DEF Steps
<1>3. i \in 1 .. n /\ i - 1 \in 0 .. n /\ i - 1 \notin Bad
  BY <1>1, <1>2
<1>4. f[i] = Apply(f[i - 1], calls[i]) /\ g[i] = Apply(g[i - 1], calls[i])
  BY <1>3 DEF Steps
<1> QED
  BY <1>1, <1>3, <1>4

\* Chained is the last of these builders.
LEMMA ChainedSteps ==
    ASSUME NEW b, NEW calls, Len(calls) \in Nat
    PROVE  \E f : Steps(b, calls, Len(calls), f) /\ Chained(b, calls) = f[Len(calls)]
<1> DEFINE Def(f) == [n \in 0 .. Len(calls) |-> IF n = 0 THEN b ELSE Apply(f[n - 1], calls[n])]
<1> DEFINE after == CHOOSE f : f = Def(f)
<1>1. Chained(b, calls) = after[Len(calls)]
  BY DEF Chained
<1>2. PICK f : Steps(b, calls, Len(calls), f)
  BY StepsExist
<1> DEFINE g == [i \in 0 .. Len(calls) |-> f[i]]
<1>3. g = Def(g)
  <2>1. ASSUME NEW n \in 0 .. Len(calls) PROVE g[n] = Def(g)[n]
    <3>1. CASE n = 0
      BY <1>2, <3>1 DEF Steps
    <3>2. CASE n # 0
      <4>1. n \in 1 .. Len(calls) /\ n - 1 \in 0 .. Len(calls)
        BY <3>2
      <4>2. f[n] = Apply(f[n - 1], calls[n])
        BY <1>2, <4>1 DEF Steps
      <4> QED
        BY <3>2, <4>1, <4>2
    <3> QED
      BY <3>1, <3>2
  <2> QED
    BY <2>1
<1>4. after = Def(after)
  <2> HIDE DEF Def, g
  <2> QED
    BY <1>3
<1> HIDE DEF after
<1>5. Steps(b, calls, Len(calls), after)
  <2>1. DOMAIN after = 0 .. Len(calls)
    BY <1>4
  <2>2. \A n \in 0 .. Len(calls) : after[n] = IF n = 0 THEN b ELSE Apply(after[n - 1], calls[n])
    <3> SUFFICES ASSUME NEW n \in 0 .. Len(calls) PROVE after[n] = Def(after)[n]
      OBVIOUS
    <3> HIDE DEF Def
    <3> QED
      BY <1>4
  <2> QED
    BY <2>1, <2>2 DEF Steps
<1> QED
  BY <1>1, <1>5

\* Every list of steps ends in Chained.
LEMMA ChainedIs ==
    ASSUME NEW b, NEW calls, Len(calls) \in Nat, NEW f, Steps(b, calls, Len(calls), f)
    PROVE  Chained(b, calls) = f[Len(calls)]
<1>1. PICK g : Steps(b, calls, Len(calls), g) /\ Chained(b, calls) = g[Len(calls)]
  BY ChainedSteps
<1>2. f[Len(calls)] = g[Len(calls)]
  BY <1>1, StepsUnique
<1> QED
  BY <1>1, <1>2

\* Without calls a builder is left as it is.
LEMMA ChainedNone == ASSUME NEW b PROVE Chained(b, <<>>) = b
<1>1. Steps(b, <<>>, Len(<<>>), [i \in 0 .. 0 |-> b])
  BY DEF Steps
<1> QED
  BY <1>1, ChainedIs

\* The first call can be made apart.
LEMMA ChainedFirst ==
    ASSUME NEW S, NEW b, NEW calls \in Seq(S), NEW o \in S
    PROVE  Chained(b, <<o>> \o calls) = Chained(Apply(b, o), calls)
<1> DEFINE all == <<o>> \o calls
<1> DEFINE n == Len(calls)
<1>1. n \in Nat /\ Len(all) = n + 1 /\ all[1] = o /\ \A i \in 1 .. n : all[i + 1] = calls[i]
  OBVIOUS
<1>2. PICK f : Steps(b, all, n + 1, f) /\ Chained(b, all) = f[n + 1]
  <2>1. Len(all) \in Nat
    BY <1>1
  <2> QED
    BY <1>1, <2>1, ChainedSteps, ZenonT(30)
<1> DEFINE g == [i \in 0 .. n |-> f[i + 1]]
<1> HIDE DEF all, n
<1>3. Steps(Apply(b, o), calls, n, g)
  <2>1. g[0] = Apply(b, o) /\ DOMAIN g = 0 .. n
    <3>1. 1 \in 1 .. n + 1 /\ 0 \in 0 .. n
      BY <1>1
    <3> QED
      BY <1>1, <1>2, <3>1 DEF Steps
  <2>2. ASSUME NEW i \in 1 .. n PROVE g[i] = Apply(g[i - 1], calls[i])
    <3>1. i + 1 \in 1 .. n + 1 /\ i \in 0 .. n /\ i - 1 \in 0 .. n
      BY <1>1
    <3>2. f[i + 1] = Apply(f[i], all[i + 1])
      BY <1>2, <3>1 DEF Steps
    <3> QED
      BY <1>1, <3>1, <3>2
  <2> HIDE DEF g
  <2> QED
    BY <2>1, <2>2 DEF Steps
<1>4. Chained(Apply(b, o), calls) = f[n + 1]
  <2>1. Chained(Apply(b, o), calls) = g[n]
    BY <1>1, <1>3, ChainedIs DEF n
  <2> QED
    BY <1>1, <2>1
<1> QED
  BY <1>2, <1>4 DEF all

\* The calls a chain is made of, as Apply tells them apart.
Words == {"-", "empty", "json", "unserializable", "g", "d", "0", "1y", "30T", "100T"}

ValidOps ==
    {o \in [op : Settings, arg : Words \cup {"bad"}] :
        (o.arg = "bad" => o.op \in Parsing) /\ (o.op \in {"gas", "deposit"} => o.arg # "unserializable")}
    \cup {o \in [op : DOMAIN ActionMethods, arg : {"good", "bad"}] : o.arg = "bad" => o.op \in Parsing}
    \cup [op : DOMAIN GlobalMethods, arg : {"good"}]
    \cup [op : DOMAIN Redirecting, arg : Accounts]
    \cup [op : {"add_action"}, arg : {"DelegateV2", "DeterministicStateInit"}]
    \cup [op : {"call"}, arg : {"m"} \cup TokenMethods]
    \cup [op : {"sign_with"}, arg : {"s"}]

\* What the actions of a chain carry, and their kinds.
Carried == [args : Words, gas : Words, deposit : Words]
KindNames == {"CreateAccount", "Transfer", "DeployContract", "AddKey", "DeleteKey", "DeleteAccount", "Stake",
              "DeployGlobalContract", "UseGlobalContract", "Delegate", "DelegateV2", "DeterministicStateInit",
              "FunctionCall"}

Builders ==
    [receiver : Accounts \cup {"u", "v", "w", NoAccount}, signer : {"u", NoAccount}, override : {"s", NoAccount},
     actions : Seq([kind : KindNames, arg : Carried]), open : BOOLEAN, call : Carried, panicked : BOOLEAN]

\* A call whose argument does not parse.
Unparsed(o) == o.op \in Parsing /\ o.arg = "bad"


\* The methods by name, and the kinds they add.
LEMMA MethodNames ==
    /\ DOMAIN ActionMethods = {"create_account", "transfer", "deploy", "add_full_access_key",
                               "add_function_call_key", "delete_key", "delete_account", "stake"}
    /\ DOMAIN GlobalMethods = {"publish", "deploy_from"}
    /\ DOMAIN Redirecting = {"signed_delegate_action", "state_init"}
  BY DEF ActionMethods, GlobalMethods, Redirecting

\* Every method that adds an action adds one of a known kind.
LEMMA MethodKinds ==
    /\ \A n \in DOMAIN ActionMethods : ActionMethods[n] \in KindNames
    /\ \A n \in DOMAIN GlobalMethods : GlobalMethods[n] \in KindNames
    /\ \A n \in DOMAIN Redirecting : Redirecting[n] \in KindNames
<1>1. ASSUME NEW n \in DOMAIN ActionMethods PROVE ActionMethods[n] \in KindNames
  BY DEF ActionMethods, KindNames
<1>2. ASSUME NEW n \in DOMAIN GlobalMethods PROVE GlobalMethods[n] \in KindNames
  BY DEF GlobalMethods, KindNames
<1>3. ASSUME NEW n \in DOMAIN Redirecting PROVE Redirecting[n] \in KindNames
  BY DEF Redirecting, KindNames
<1> QED
  BY <1>1, <1>2, <1>3

\* One more action keeps a builder a builder.
LEMMA AddedAction ==
    ASSUME NEW b \in Builders, NEW kind \in KindNames, NEW content \in Carried
    PROVE  /\ add_action(b, kind, content) \in Builders
           /\ add_action(b, kind, content).actions = Append(b.actions, Action(kind, content))
           /\ add_action(b, kind, content).receiver = b.receiver
           /\ add_action(b, kind, content).signer = b.signer
           /\ add_action(b, kind, content).override = b.override
           /\ add_action(b, kind, content).open = b.open
           /\ add_action(b, kind, content).call = b.call
           /\ add_action(b, kind, content).panicked = b.panicked
<1> DEFINE more == Append(b.actions, Action(kind, content))
<1>1. more \in Seq([kind : KindNames, arg : Carried])
  <2>1. Action(kind, content) \in [kind : KindNames, arg : Carried]
    BY DEF Action
  <2>2. b.actions \in Seq([kind : KindNames, arg : Carried])
    BY DEF Builders
  <2> QED
    BY <2>1, <2>2
<1>2. add_action(b, kind, content) = [b EXCEPT !.actions = more]
  BY DEF add_action, Builders
<1> HIDE DEF more
<1>3. add_action(b, kind, content) \in Builders
  BY <1>1, <1>2 DEF Builders
<1>4. add_action(b, kind, content).actions = more
  BY <1>2 DEF Builders
<1> QED
  BY <1>2, <1>3, <1>4 DEF Builders, more

\* finish adds the open call.
LEMMA FinishEffect ==
    ASSUME NEW b \in Builders
    PROVE  /\ finish(b) \in Builders
           /\ ~finish(b).open
           /\ finish(b).actions = IF b.open THEN Append(b.actions, Action("FunctionCall", b.call)) ELSE b.actions
           /\ finish(b).receiver = b.receiver /\ finish(b).signer = b.signer
           /\ finish(b).override = b.override /\ finish(b).panicked = b.panicked /\ finish(b).call = b.call
<1>1. CASE ~b.open
  BY <1>1 DEF finish, Builders
<1>2. CASE b.open
  <2> DEFINE d == add_action(b, "FunctionCall", b.call)
  <2>1. "FunctionCall" \in KindNames /\ b.call \in Carried
    BY DEF Builders, KindNames
  <2>2. /\ d \in Builders /\ d.actions = Append(b.actions, Action("FunctionCall", b.call))
        /\ d.receiver = b.receiver /\ d.signer = b.signer /\ d.override = b.override
        /\ d.call = b.call /\ d.panicked = b.panicked
    BY <2>1, AddedAction
  <2>3. finish(b) = [d EXCEPT !.open = FALSE]
    BY <1>2 DEF finish
  <2> HIDE DEF d
  <2>4. finish(b) \in Builders
    BY <2>2, <2>3 DEF Builders
  <2> QED
    BY <1>2, <2>2, <2>3, <2>4 DEF Builders
<1> QED
  BY <1>1, <1>2

\* A builder that panicked is gone.
LEMMA ApplyPanicked ==
    ASSUME NEW b \in Builders, NEW o \in ValidOps, b.panicked
    PROVE  Apply(b, o) = b
  BY DEF Apply

\* So is one that is given what does not parse.
LEMMA ApplyUnparsed ==
    ASSUME NEW b \in Builders, NEW o \in ValidOps, ~b.panicked, Unparsed(o)
    PROVE  Apply(b, o) \in Builders /\ Apply(b, o).panicked
<1>1. Apply(b, o) = [b EXCEPT !.panicked = TRUE]
  BY DEF Apply, Unparsed, Parsing, Settings, ActionMethods, GlobalMethods, Redirecting
<1> QED
  BY <1>1 DEF Builders

\* A setter changes the open call, and nothing else.
LEMMA ApplySetting ==
    ASSUME NEW b \in Builders, NEW o \in ValidOps, ~b.panicked, ~Unparsed(o), o.op \in Settings
    PROVE  /\ Apply(b, o) = [b EXCEPT !.call = Apply(b, o).call]
           /\ Apply(b, o).call \in Carried
           /\ Apply(b, o).call =
                [args |-> IF o.op \in {"args", "args_borsh", "args_raw"} THEN Serialized(o) ELSE b.call.args,
                 gas |-> IF o.op = "gas" THEN Serialized(o) ELSE b.call.gas,
                 deposit |-> IF o.op = "deposit" THEN Serialized(o) ELSE b.call.deposit]
<1>1. o.arg \in Words /\ o.arg # "bad" /\ (o.op \in {"gas", "deposit"} => o.arg # "unserializable")
  BY DEF ValidOps, Words, Unparsed, Settings, Parsing, ActionMethods, GlobalMethods, Redirecting
<1>2. Apply(b, o) = Set(b, o)
  BY <1>1 DEF Apply, Unparsed, Parsing, Settings, ActionMethods, GlobalMethods, Redirecting
<1>3. Serialized(o) \in Words /\ (o.op \in {"gas", "deposit"} => Serialized(o) = o.arg)
  BY <1>1 DEF Serialized, Words
<1> DEFINE word == Serialized(o)
<1> HIDE DEF word
<1>4. CASE o.op = "gas"
  <2>1. Set(b, o) = [b EXCEPT !.call = [b.call EXCEPT !.gas = word]]
    BY <1>3, <1>4 DEF Set, word
  <2> QED
    BY <1>2, <1>3, <1>4, <2>1 DEF Builders, Carried, word
<1>5. CASE o.op = "deposit"
  <2>1. Set(b, o) = [b EXCEPT !.call = [b.call EXCEPT !.deposit = word]]
    BY <1>3, <1>5 DEF Set, word
  <2> QED
    BY <1>2, <1>3, <1>5, <2>1 DEF Builders, Carried, word
<1>6. CASE o.op \in {"args", "args_borsh", "args_raw"}
  <2>1. Set(b, o) = [b EXCEPT !.call = [b.call EXCEPT !.args = word]]
    BY <1>6 DEF Set, word
  <2> QED
    BY <1>2, <1>3, <1>6, <2>1 DEF Builders, Carried, word
<1> QED
  BY <1>4, <1>5, <1>6 DEF Settings

\* The other calls finish the open one first.
LEMMA ApplyOther ==
    ASSUME NEW b \in Builders, NEW o \in ValidOps, ~b.panicked, ~Unparsed(o), o.op \notin Settings
    PROVE  /\ Apply(b, o) \in Builders /\ ~Apply(b, o).panicked
           /\ Apply(b, o).signer = b.signer
           /\ Apply(b, o).receiver = IF o.op \in DOMAIN Redirecting THEN o.arg ELSE b.receiver
           /\ Apply(b, o).override = IF o.op = "sign_with" THEN "s" ELSE b.override
           /\ Apply(b, o).open <=> o.op = "call"
           /\ o.op = "call" => Apply(b, o).call = FunctionCall /\ Apply(b, o).actions = finish(b).actions
           /\ o.op = "sign_with" => Apply(b, o).actions = finish(b).actions
           /\ o.op \in Adding \ {"call"} =>
                Apply(b, o).actions = Append(finish(b).actions, Action(KindAdded(o), Plain))
<1> DEFINE d == finish(b)
<1>1. d \in Builders /\ ~d.open /\ d.receiver = b.receiver /\ d.signer = b.signer /\ d.override = b.override
      /\ ~d.panicked
  BY FinishEffect
<1> HIDE DEF d
<1>names. DOMAIN Redirecting \cap (DOMAIN ActionMethods \cup DOMAIN GlobalMethods \cup Settings) = {}
          /\ (DOMAIN ActionMethods \cap DOMAIN GlobalMethods) = {}
          /\ {"call", "sign_with", "add_action"} \cap
              (DOMAIN ActionMethods \cup DOMAIN GlobalMethods \cup DOMAIN Redirecting \cup Parsing \cup Settings) = {}
  BY MethodNames DEF Settings, Parsing
<1>plain. Plain \in Carried /\ FunctionCall \in Carried
  BY DEF Plain, FunctionCall, Carried, Words
<1>2. CASE o.op = "call"
  <2>1. Apply(b, o) = [d EXCEPT !.open = TRUE, !.call = FunctionCall]
    BY <1>2, <1>names DEF d, Apply
  <2>2. Apply(b, o) \in Builders
    BY <1>1, <2>1, <1>plain DEF Builders
  <2>3. o.op \notin DOMAIN Redirecting /\ o.op # "sign_with"
    BY <1>2, <1>names
  <2> HIDE DEF Adding
  <2> QED
    BY <1>1, <1>2, <2>1, <2>2, <2>3 DEF d, Builders
<1>3. CASE o.op = "sign_with"
  <2>1. Apply(b, o) = [d EXCEPT !.override = o.arg]
    BY <1>3, <1>names DEF d, Apply
  <2>2. o.arg = "s"
    BY <1>3, <1>names DEF ValidOps
  <2>3. o.op \notin DOMAIN Redirecting /\ o.op # "call" /\ o.op \notin Adding
    BY <1>3, <1>names DEF Adding
  <2> QED
    BY <1>1, <1>3, <2>1, <2>2, <2>3 DEF d, Builders
<1>4. CASE o.op \in DOMAIN Redirecting
  <2>1. Apply(b, o) = Redirect(d, o)
    BY <1>4, <1>names DEF d, Apply, Unparsed
  <2>2. o.arg \in Accounts
    BY <1>4, <1>names, MethodNames DEF ValidOps
  <2>3. KindAdded(o) = Redirecting[o.op] /\ KindAdded(o) \in KindNames
    <3>1. KindAdded(o) = Redirecting[o.op]
      BY <1>4, <1>names DEF KindAdded
    <3> QED
      BY <1>4, <3>1, MethodKinds
  <2> DEFINE e == add_action(d, KindAdded(o), Plain)
  <2>4. /\ e \in Builders /\ e.actions = Append(d.actions, Action(KindAdded(o), Plain))
        /\ e.receiver = d.receiver /\ e.signer = d.signer /\ e.override = d.override
        /\ e.call = d.call /\ e.panicked = d.panicked /\ e.open = d.open
    BY <1>1, <1>plain, <2>3, AddedAction
  <2>5. Apply(b, o) = [e EXCEPT !.receiver = o.arg]
    BY <2>1, <2>3 DEF Redirect
  <2>6. o.op # "call" /\ o.op # "sign_with"
    BY <1>4, <1>names
  <2> HIDE DEF e
  <2>7. Apply(b, o) \in Builders
    BY <2>2, <2>4, <2>5 DEF Builders
  <2> QED
    BY <1>1, <1>4, <2>4, <2>5, <2>6, <2>7 DEF d, Builders
<1>5. CASE o.op \in DOMAIN ActionMethods \cup DOMAIN GlobalMethods \cup {"add_action"}
  <2>1. Apply(b, o) = add_action(d, KindAdded(o), Plain) /\ KindAdded(o) \in KindNames
    <3>1. CASE o.op = "add_action"
      <4>1. o.arg \in KindNames
        BY <3>1, <1>names DEF ValidOps, KindNames
      <4> QED
        BY <3>1, <4>1, <1>names DEF d, Apply, KindAdded
    <3>2. CASE o.op \in DOMAIN GlobalMethods
      <4>1. KindAdded(o) = GlobalMethods[o.op]
        BY <3>2, <1>names DEF KindAdded
      <4>2. o.op \notin Parsing
        BY <3>2, MethodNames DEF Parsing
      <4>3. Apply(b, o) = add_action(d, GlobalMethods[o.op], Plain)
        BY <3>2, <4>2, <1>names DEF d, Apply
      <4> QED
        BY <3>2, <4>1, <4>3, MethodKinds
    <3>3. CASE o.op \in DOMAIN ActionMethods
      <4>1. KindAdded(o) = ActionMethods[o.op]
        BY <3>3, <1>names DEF KindAdded
      <4>2. o.arg # "bad"
        BY <3>3, <1>names DEF ValidOps, Unparsed
      <4>3. Apply(b, o) = add_action(d, ActionMethods[o.op], Plain)
        BY <3>3, <4>2, <1>names DEF d, Apply, Unparsed
      <4> QED
        BY <3>3, <4>1, <4>3, MethodKinds
    <3> QED
      BY <1>5, <3>1, <3>2, <3>3
  <2> DEFINE e == add_action(d, KindAdded(o), Plain)
  <2>4. /\ e \in Builders /\ e.actions = Append(d.actions, Action(KindAdded(o), Plain))
        /\ e.receiver = d.receiver /\ e.signer = d.signer /\ e.override = d.override
        /\ e.call = d.call /\ e.panicked = d.panicked /\ e.open = d.open
    BY <1>1, <1>plain, <2>1, AddedAction
  <2>6. o.op # "call" /\ o.op # "sign_with" /\ o.op \notin DOMAIN Redirecting
    BY <1>5, <1>names
  <2> QED
    BY <1>1, <2>1, <2>4, <2>6 DEF d
<1> QED
  BY <1>2, <1>3, <1>4, <1>5 DEF ValidOps, Settings

(* What a builder holds, told from the calls that made it. *)

\* The call at p is still open behind the calls.
Pending(ops, p) == p \in Added(ops) /\ ops[p].op = "call" /\ \A k \in p + 1 .. Len(ops) : ops[k].op \in Settings

\* acts are the actions the calls add, as they were written.
ActionsListed(ops, acts) ==
    /\ Len(acts) = Cardinality(Added(ops))
    /\ \A i \in Added(ops) : acts[Position(ops, i)] = Written(ops, i)

\* receiver is the one the calls name last.
NamedLast(ops, begun, receiver) ==
    /\ (\A i \in DOMAIN ops : ops[i].op \notin DOMAIN Redirecting) => receiver = begun
    /\ \A i \in DOMAIN ops :
          (ops[i].op \in DOMAIN Redirecting /\ \A j \in i + 1 .. Len(ops) : ops[j].op \notin DOMAIN Redirecting)
            => receiver = ops[i].arg

ChainOk(begun, signer, ops, b) ==
    /\ b \in Builders
    /\ ~b.panicked =>
        /\ b.signer = signer
        /\ ActionsListed(ops, finish(b).actions)
        /\ b.open <=> \E p \in DOMAIN ops : Pending(ops, p)
        /\ NamedLast(ops, begun, b.receiver)
        /\ b.override = IF \E i \in DOMAIN ops : ops[i].op = "sign_with" THEN "s" ELSE NoAccount

\* One more call: the ones before it stay where they are.
LEMMA AppendFacts ==
    ASSUME NEW ops \in Seq(ValidOps), NEW o \in ValidOps
    PROVE  /\ Append(ops, o) \in Seq(ValidOps)
           /\ Len(ops) \in Nat /\ DOMAIN ops = 1 .. Len(ops)
           /\ Len(Append(ops, o)) = Len(ops) + 1
           /\ DOMAIN Append(ops, o) = 1 .. Len(ops) + 1
           /\ Append(ops, o)[Len(ops) + 1] = o
           /\ \A i \in 1 .. Len(ops) : Append(ops, o)[i] = ops[i]
  OBVIOUS

\* The calls that add an action are finitely many, and numbered in order.
LEMMA AddedFinite ==
    ASSUME NEW ops \in Seq(ValidOps)
    PROVE  /\ Added(ops) \subseteq 1 .. Len(ops)
           /\ IsFiniteSet(Added(ops)) /\ Cardinality(Added(ops)) \in Nat
           /\ \A i \in Added(ops) : Position(ops, i) \in 1 .. Cardinality(Added(ops))
<1>1. Added(ops) \subseteq 1 .. Len(ops)
  BY DEF Added
<1>2. IsFiniteSet(Added(ops))
  BY <1>1, FS_Interval, FS_Subset
<1>3. ASSUME NEW i \in Added(ops) PROVE Position(ops, i) \in 1 .. Cardinality(Added(ops))
  <2> DEFINE upto == {j \in Added(ops) : j <= i}
  <2>1. IsFiniteSet(upto) /\ Cardinality(upto) <= Cardinality(Added(ops))
    BY <1>2, FS_Subset, upto \subseteq Added(ops)
  <2>2. i \in upto
    BY <1>1, <1>3
  <2>3. Cardinality(upto) # 0
    BY <2>1, <2>2, FS_EmptySet
  <2>4. Cardinality(upto) \in Nat /\ Cardinality(Added(ops)) \in Nat
    BY <1>2, <2>1, FS_CardinalityType
  <2> QED
    BY <2>1, <2>3, <2>4 DEF Position
<1> QED
  BY <1>1, <1>2, <1>3, FS_CardinalityType

\* One more call adds its own action at most.
LEMMA AddedMore ==
    ASSUME NEW ops \in Seq(ValidOps), NEW o \in ValidOps
    PROVE  Added(Append(ops, o)) = Added(ops) \cup (IF o.op \in Adding THEN {Len(ops) + 1} ELSE {})
<1> HIDE DEF Adding
<1> QED
  BY AppendFacts DEF Added

\* And leaves the places of the earlier ones.
LEMMA PositionMore ==
    ASSUME NEW ops \in Seq(ValidOps), NEW o \in ValidOps
    PROVE  /\ \A i \in Added(ops) : Position(Append(ops, o), i) = Position(ops, i)
           /\ o.op \in Adding => /\ Cardinality(Added(Append(ops, o))) = Cardinality(Added(ops)) + 1
                                 /\ Position(Append(ops, o), Len(ops) + 1) = Cardinality(Added(ops)) + 1
           /\ o.op \notin Adding => Cardinality(Added(Append(ops, o))) = Cardinality(Added(ops))
<1>1. Len(ops) \in Nat /\ Added(ops) \subseteq 1 .. Len(ops) /\ IsFiniteSet(Added(ops))
  BY AddedFinite, AppendFacts
<1>2. Added(Append(ops, o)) = Added(ops) \cup (IF o.op \in Adding THEN {Len(ops) + 1} ELSE {})
  BY AddedMore
<1>3. ASSUME NEW i \in Added(ops) PROVE Position(Append(ops, o), i) = Position(ops, i)
  <2>1. {j \in Added(Append(ops, o)) : j <= i} = {j \in Added(ops) : j <= i}
    BY <1>1, <1>2
  <2> QED
    BY <2>1 DEF Position
<1>4. CASE o.op \in Adding
  <2>1. Added(Append(ops, o)) = Added(ops) \cup {Len(ops) + 1} /\ Len(ops) + 1 \notin Added(ops)
    BY <1>1, <1>2, <1>4
  <2>2. Cardinality(Added(Append(ops, o))) = Cardinality(Added(ops)) + 1
    BY <1>1, <2>1, FS_AddElement
  <2>3. {j \in Added(Append(ops, o)) : j <= Len(ops) + 1} = Added(Append(ops, o))
    BY <1>1, <2>1
  <2> QED
    BY <1>3, <1>4, <2>2, <2>3 DEF Position
<1>5. CASE o.op \notin Adding
  BY <1>2, <1>3, <1>5
<1> QED
  BY <1>4, <1>5

\* The setters behind a call, with one more.
LEMMA LastSetMore ==
    ASSUME NEW ops \in Seq(ValidOps), NEW o \in ValidOps, NEW i \in 1 .. Len(ops), NEW names, NEW default
    PROVE  LastSet(Append(ops, o), i, names, default) =
             IF o.op \in names \cap Settings /\ \A k \in i + 1 .. Len(ops) : ops[k].op \in Settings
             THEN Serialized(o) ELSE LastSet(ops, i, names, default)
<1> DEFINE more == Append(ops, o)
<1> DEFINE js == Behind(ops, i, names)
<1> DEFINE ks == Behind(more, i, names)
<1> DEFINE Greatest(s) == CHOOSE j \in s : \A k \in s : k <= j
<1>1. Len(ops) \in Nat /\ Len(more) = Len(ops) + 1 /\ more[Len(ops) + 1] = o
      /\ \A k \in 1 .. Len(ops) : more[k] = ops[k]
  BY AppendFacts
<1> HIDE DEF more
<1>2. js \subseteq i + 1 .. Len(ops)
  BY DEF Behind
<1>3. CASE o.op \in names \cap Settings /\ \A k \in i + 1 .. Len(ops) : ops[k].op \in Settings
  <2>1. Len(ops) + 1 \in ks
    BY <1>1, <1>3 DEF Behind
  <2>2. \A k \in ks : k \in Nat /\ k <= Len(ops) + 1
    BY <1>1 DEF Behind
  <2>3. Greatest(ks) = Len(ops) + 1
    BY <1>1, <2>1, <2>2
  <2>4. LastSet(more, i, names, default) = Serialized(more[Greatest(ks)])
    BY <2>1 DEF LastSet
  <2> HIDE DEF Greatest, ks
  <2> QED
    BY <1>1, <1>3, <2>3, <2>4 DEF more
<1>4. CASE ~(o.op \in names \cap Settings /\ \A k \in i + 1 .. Len(ops) : ops[k].op \in Settings)
  <2>1. Len(ops) + 1 \notin ks
    BY <1>1, <1>4 DEF Behind
  <2>2. ASSUME NEW j \in i + 1 .. Len(ops) PROVE j \in ks <=> j \in js
    BY <1>1 DEF Behind
  <2>3. ks \subseteq i + 1 .. Len(ops) + 1
    BY <1>1 DEF Behind
  <2>4. ks = js
    <3>1. ASSUME NEW j \in ks PROVE j \in js
      <4>1. j \in i + 1 .. Len(ops)
        BY <1>1, <2>1, <2>3, j # Len(ops) + 1
      <4> QED
        BY <2>2, <4>1
    <3>2. ASSUME NEW j \in js PROVE j \in ks
      BY <1>2, <2>2
    <3> HIDE DEF js, ks
    <3> QED
      BY <3>1, <3>2
  <2>5. LastSet(more, i, names, default) = IF ks = {} THEN default ELSE Serialized(more[Greatest(ks)])
    BY DEF LastSet
  <2>6. LastSet(ops, i, names, default) = IF js = {} THEN default ELSE Serialized(ops[Greatest(js)])
    BY DEF LastSet
  <2>7. CASE js = {}
    BY <1>4, <2>4, <2>5, <2>6, <2>7 DEF more
  <2>8. CASE js # {}
    <3>1. \E j \in js : \A k \in js : k <= j
      <4>1. js \subseteq 0 .. Len(ops)
        BY <1>1, <1>2
      <4> QED
        BY <2>8, <4>1, <1>1, GreatestNat
    <3>2. Greatest(js) \in js
      BY <3>1
    <3>3. more[Greatest(js)] = ops[Greatest(js)]
      BY <1>1, <1>2, <3>2
    <3> HIDE DEF Greatest, js, ks
    <3> QED
      BY <1>4, <2>4, <2>5, <2>6, <2>8, <3>3 DEF more
  <2> QED
    BY <2>7, <2>8
<1> QED
  BY <1>3, <1>4

\* No setter adds an action.
LEMMA AddingFacts ==
    /\ Adding \cap Settings = {} /\ "call" \in Adding /\ "sign_with" \notin Adding \cup Settings
    /\ DOMAIN Redirecting \subseteq Adding
  BY MethodNames DEF Adding, Settings

\* The open call, with one call more.
LEMMA PendingMore ==
    ASSUME NEW ops \in Seq(ValidOps), NEW o \in ValidOps
    PROVE  /\ \A p \in 1 .. Len(ops) : Pending(Append(ops, o), p) <=> Pending(ops, p) /\ o.op \in Settings
           /\ Pending(Append(ops, o), Len(ops) + 1) <=> o.op = "call"
<1> DEFINE more == Append(ops, o)
<1>1. Len(ops) \in Nat /\ Len(more) = Len(ops) + 1 /\ more[Len(ops) + 1] = o
      /\ \A k \in 1 .. Len(ops) : more[k] = ops[k]
  BY AppendFacts
<1>2. Added(more) = Added(ops) \cup (IF o.op \in Adding THEN {Len(ops) + 1} ELSE {})
  BY AddedMore
<1>3. Added(ops) \subseteq 1 .. Len(ops)
  BY AddedFinite
<1> HIDE DEF more
<1>4. ASSUME NEW p \in 1 .. Len(ops) PROVE Pending(more, p) <=> Pending(ops, p) /\ o.op \in Settings
  <2>1. p \in Added(more) <=> p \in Added(ops)
    BY <1>1, <1>2
  <2>2. more[p] = ops[p]
    BY <1>1
  <2>3. (\A k \in p + 1 .. Len(more) : more[k].op \in Settings)
        <=> (\A k \in p + 1 .. Len(ops) : ops[k].op \in Settings) /\ o.op \in Settings
    <3>1. p + 1 .. Len(more) = (p + 1 .. Len(ops)) \cup {Len(ops) + 1}
      BY <1>1
    <3>2. \A k \in p + 1 .. Len(ops) : more[k] = ops[k]
      BY <1>1
    <3> QED
      BY <1>1, <3>1, <3>2
  <2> QED
    BY <2>1, <2>2, <2>3 DEF Pending
<1>5. Pending(more, Len(ops) + 1) <=> o.op = "call"
  <2>1. (Len(ops) + 1) + 1 .. Len(more) = {}
    BY <1>1
  <2>2. Len(ops) + 1 \in Added(more) <=> o.op \in Adding
    BY <1>1, <1>2, <1>3
  <2> QED
    BY <1>1, <2>1, <2>2, AddingFacts DEF Pending
<1> QED
  BY <1>4, <1>5 DEF more

\* The action of the open call is the last.
LEMMA PendingLast ==
    ASSUME NEW ops \in Seq(ValidOps), NEW p, Pending(ops, p)
    PROVE  /\ p \in 1 .. Len(ops) /\ Position(ops, p) = Cardinality(Added(ops))
           /\ \A i \in Added(ops) : i # p => Position(ops, i) < Cardinality(Added(ops)) /\ ~Pending(ops, i)
<1>1. Added(ops) \subseteq 1 .. Len(ops) /\ IsFiniteSet(Added(ops)) /\ Len(ops) \in Nat
  BY AddedFinite
<1>2. p \in Added(ops) /\ p \in 1 .. Len(ops)
  BY <1>1 DEF Pending
<1>3. \A i \in Added(ops) : i <= p
  <2>1. \A i \in Added(ops) : ops[i].op \in Adding
    BY DEF Added
  <2> QED
    BY <1>1, <1>2, <2>1, AddingFacts DEF Pending
<1>4. Position(ops, p) = Cardinality(Added(ops))
  <2>1. {j \in Added(ops) : j <= p} = Added(ops)
    BY <1>3
  <2> QED
    BY <2>1 DEF Position
<1>5. ASSUME NEW i \in Added(ops), i # p
      PROVE  Position(ops, i) < Cardinality(Added(ops)) /\ ~Pending(ops, i)
  <2> DEFINE upto == {j \in Added(ops) : j <= i}
  <2>1. i < p
    BY <1>1, <1>2, <1>3, <1>5
  <2>2. upto \in SUBSET Added(ops) /\ upto # Added(ops)
    BY <1>1, <1>2, <2>1
  <2>3. IsFiniteSet(upto) /\ Cardinality(upto) <= Cardinality(Added(ops))
        /\ Cardinality(upto) # Cardinality(Added(ops))
    BY <1>1, <2>2, FS_Subset
  <2>4. Cardinality(upto) \in Nat /\ Cardinality(Added(ops)) \in Nat
    BY <1>1, <2>3, FS_CardinalityType
  <2>5. Position(ops, i) < Cardinality(Added(ops))
    BY <2>3, <2>4 DEF Position
  <2>6. ~Pending(ops, i)
    <3>1. p \in i + 1 .. Len(ops) /\ ops[p].op \in Adding
      BY <1>1, <1>2, <2>1 DEF Added
    <3> QED
      BY <3>1, AddingFacts DEF Pending
  <2> QED
    BY <2>5, <2>6
<1> QED
  BY <1>2, <1>4, <1>5

\* What was written, with one call more.
LEMMA WrittenMore ==
    ASSUME NEW ops \in Seq(ValidOps), NEW o \in ValidOps
    PROVE  /\ \A i \in Added(ops) : ~(Pending(ops, i) /\ o.op \in Settings) =>
                Written(Append(ops, o), i) = Written(ops, i)
           /\ o.op \in Adding =>
                Written(Append(ops, o), Len(ops) + 1) =
                    Action(KindAdded(o), IF o.op = "call" THEN FunctionCall ELSE Plain)
           /\ \A i \in Added(ops) : (Pending(ops, i) /\ o.op \in Settings) =>
                Written(Append(ops, o), i) =
                    Action("FunctionCall",
                        [args |-> IF o.op \in {"args", "args_borsh", "args_raw"} THEN Serialized(o)
                                  ELSE Written(ops, i).arg.args,
                         gas |-> IF o.op = "gas" THEN Serialized(o) ELSE Written(ops, i).arg.gas,
                         deposit |-> IF o.op = "deposit" THEN Serialized(o) ELSE Written(ops, i).arg.deposit])
<1> DEFINE more == Append(ops, o)
<1> DEFINE Names == {"args", "args_borsh", "args_raw"}
<1>1. Len(ops) \in Nat /\ Len(more) = Len(ops) + 1 /\ more[Len(ops) + 1] = o
      /\ \A k \in 1 .. Len(ops) : more[k] = ops[k]
  BY AppendFacts
<1>2. Added(ops) \subseteq 1 .. Len(ops)
  BY AddedFinite
<1>3. ASSUME NEW i \in Added(ops), ~(Pending(ops, i) /\ o.op \in Settings)
      PROVE  Written(more, i) = Written(ops, i)
  <2>1. i \in 1 .. Len(ops) /\ more[i] = ops[i]
    BY <1>1, <1>2
  <2>2. CASE ops[i].op # "call"
    BY <2>1, <2>2 DEF Written
  <2>3. CASE ops[i].op = "call"
    <3>1. ~(o.op \in Settings /\ \A k \in i + 1 .. Len(ops) : ops[k].op \in Settings)
      BY <1>3, <2>3 DEF Pending
    <3>2. \A names, default : LastSet(more, i, names, default) = LastSet(ops, i, names, default)
      <4> TAKE names, default
      <4>1. ~(o.op \in names \cap Settings /\ \A k \in i + 1 .. Len(ops) : ops[k].op \in Settings)
        BY <3>1
      <4>2. LastSet(more, i, names, default) =
             IF o.op \in names \cap Settings /\ \A k \in i + 1 .. Len(ops) : ops[k].op \in Settings
             THEN Serialized(o) ELSE LastSet(ops, i, names, default)
        BY <2>1, LastSetMore
      <4> QED
        BY <4>1, <4>2
    <3> HIDE DEF more
    <3> QED
      BY <2>1, <3>2 DEF Written
  <2> QED
    BY <2>2, <2>3
<1>4. ASSUME o.op \in Adding
      PROVE  Written(more, Len(ops) + 1) = Action(KindAdded(o), IF o.op = "call" THEN FunctionCall ELSE Plain)
  <2>1. \A names, default : LastSet(more, Len(ops) + 1, names, default) = default
    <3> TAKE names, default
    <3>1. Behind(more, Len(ops) + 1, names) = {}
      <4> HIDE DEF more
      <4> QED
        BY <1>1 DEF Behind
    <3> HIDE DEF more
    <3> QED
      BY <3>1 DEF LastSet
  <2> HIDE DEF more
  <2> QED
    BY <1>1, <2>1 DEF Written, FunctionCall
<1>5. ASSUME NEW i \in Added(ops), Pending(ops, i), o.op \in Settings
      PROVE  Written(more, i) =
                    Action("FunctionCall",
                        [args |-> IF o.op \in Names THEN Serialized(o) ELSE Written(ops, i).arg.args,
                         gas |-> IF o.op = "gas" THEN Serialized(o) ELSE Written(ops, i).arg.gas,
                         deposit |-> IF o.op = "deposit" THEN Serialized(o) ELSE Written(ops, i).arg.deposit])
  <2>1. i \in 1 .. Len(ops) /\ more[i] = ops[i] /\ ops[i].op = "call"
    BY <1>1, <1>2, <1>5 DEF Pending
  <2>2. ASSUME NEW names, NEW default
        PROVE  LastSet(more, i, names, default) =
                  IF o.op \in names THEN Serialized(o) ELSE LastSet(ops, i, names, default)
    <3>1. o.op \in names \cap Settings /\ (\A k \in i + 1 .. Len(ops) : ops[k].op \in Settings) <=> o.op \in names
      BY <1>5 DEF Pending
    <3> QED
      BY <2>1, <3>1, LastSetMore
  <2>3. LastSet(more, i, Names, "empty") = IF o.op \in Names THEN Serialized(o) ELSE LastSet(ops, i, Names, "empty")
    BY <2>2
  <2>4. LastSet(more, i, {"gas"}, "30T") = IF o.op = "gas" THEN Serialized(o) ELSE LastSet(ops, i, {"gas"}, "30T")
    BY <2>2
  <2>5. LastSet(more, i, {"deposit"}, "0") =
            IF o.op = "deposit" THEN Serialized(o) ELSE LastSet(ops, i, {"deposit"}, "0")
    BY <2>2
  <2> DEFINE call == ops[i]
  <2>kind. KindAdded(call) = "FunctionCall"
    <3> HIDE DEF call
    <3> QED
      BY <2>1, MethodNames DEF KindAdded, call
  <2>6. Written(ops, i) = Action("FunctionCall",
            [args |-> LastSet(ops, i, Names, "empty"), gas |-> LastSet(ops, i, {"gas"}, "30T"),
             deposit |-> LastSet(ops, i, {"deposit"}, "0")])
    BY <2>1, <2>kind DEF Written
  <2>7. Written(more, i) = Action("FunctionCall",
            [args |-> LastSet(more, i, Names, "empty"), gas |-> LastSet(more, i, {"gas"}, "30T"),
             deposit |-> LastSet(more, i, {"deposit"}, "0")])
    <3> HIDE DEF more
    <3> QED
      BY <2>1, <2>kind DEF Written
  <2> HIDE DEF more, Names
  <2> QED
    BY <2>3, <2>4, <2>5, <2>6, <2>7 DEF Action
<1> QED
  BY <1>3, <1>4, <1>5

\* A list with one action more is as written when that action is.
LEMMA ListedMore ==
    ASSUME NEW ops \in Seq(ValidOps), NEW o \in ValidOps, NEW acts \in Seq([kind : KindNames, arg : Carried]),
           ActionsListed(ops, acts), o.op \notin Settings
    PROVE  /\ o.op \in Adding /\ KindAdded(o) \in KindNames =>
                ActionsListed(Append(ops, o),
                    Append(acts, Action(KindAdded(o), IF o.op = "call" THEN FunctionCall ELSE Plain)))
           /\ o.op \notin Adding => ActionsListed(Append(ops, o), acts)
<1>1. Added(ops) \subseteq 1 .. Len(ops) /\ Len(ops) \in Nat /\ Cardinality(Added(ops)) \in Nat
      /\ \A i \in Added(ops) : Position(ops, i) \in 1 .. Cardinality(Added(ops))
  BY AddedFinite
<1>2. \A i \in Added(ops) : Written(Append(ops, o), i) = Written(ops, i)
  BY WrittenMore
<1>3. \A i \in Added(ops) : Position(Append(ops, o), i) = Position(ops, i)
  BY PositionMore
<1>4. Added(Append(ops, o)) = Added(ops) \cup (IF o.op \in Adding THEN {Len(ops) + 1} ELSE {})
  BY AddedMore
<1>5. ASSUME o.op \in Adding, KindAdded(o) \in KindNames
      PROVE  ActionsListed(Append(ops, o),
                    Append(acts, Action(KindAdded(o), IF o.op = "call" THEN FunctionCall ELSE Plain)))
  <2> DEFINE new1 == Action(KindAdded(o), IF o.op = "call" THEN FunctionCall ELSE Plain)
  <2>1. new1 \in [kind : KindNames, arg : Carried]
    <3>1. Plain \in Carried /\ FunctionCall \in Carried
      BY DEF Plain, FunctionCall, Carried, Words
    <3> QED
      BY <1>5, <3>1 DEF Action
  <2>2. Written(Append(ops, o), Len(ops) + 1) = new1
    BY <1>5, WrittenMore
  <2>3. Cardinality(Added(Append(ops, o))) = Cardinality(Added(ops)) + 1
        /\ Position(Append(ops, o), Len(ops) + 1) = Cardinality(Added(ops)) + 1
    BY <1>5, PositionMore
  <2> HIDE DEF new1
  <2> DEFINE all == Append(acts, new1)
  <2>4. Len(all) = Len(acts) + 1 /\ all[Len(acts) + 1] = new1 /\ \A k \in 1 .. Len(acts) : all[k] = acts[k]
    BY <2>1
  <2>5. Len(acts) = Cardinality(Added(ops)) /\ \A i \in Added(ops) : acts[Position(ops, i)] = Written(ops, i)
    BY DEF ActionsListed
  <2> HIDE DEF all
  <2>6. ASSUME NEW i \in Added(Append(ops, o)) PROVE all[Position(Append(ops, o), i)] = Written(Append(ops, o), i)
    <3>1. CASE i \in Added(ops)
      BY <1>1, <1>2, <1>3, <2>4, <2>5, <3>1
    <3>2. CASE i = Len(ops) + 1
      BY <2>2, <2>3, <2>4, <2>5, <3>2
    <3> QED
      BY <1>4, <1>5, <3>1, <3>2
  <2>7. ActionsListed(Append(ops, o), all)
    BY <2>3, <2>4, <2>5, <2>6 DEF ActionsListed
  <2> QED
    BY <2>7 DEF all, new1
<1>6. ASSUME o.op \notin Adding PROVE ActionsListed(Append(ops, o), acts)
  <2>1. Added(Append(ops, o)) = Added(ops)
    BY <1>4, <1>6
  <2> QED
    BY <1>2, <1>3, <2>1 DEF ActionsListed
<1> QED
  BY <1>5, <1>6

\* So is the list whose open call is set.
LEMMA ListedSet ==
    ASSUME NEW ops \in Seq(ValidOps), NEW o \in ValidOps, NEW acts \in Seq([kind : KindNames, arg : Carried]),
           NEW call \in Carried, NEW set \in Carried, NEW p, Pending(ops, p), o.op \in Settings,
           ActionsListed(ops, Append(acts, Action("FunctionCall", call))),
           set = [args |-> IF o.op \in {"args", "args_borsh", "args_raw"} THEN Serialized(o) ELSE call.args,
                  gas |-> IF o.op = "gas" THEN Serialized(o) ELSE call.gas,
                  deposit |-> IF o.op = "deposit" THEN Serialized(o) ELSE call.deposit]
    PROVE  ActionsListed(Append(ops, o), Append(acts, Action("FunctionCall", set)))
<1> DEFINE before == Append(acts, Action("FunctionCall", call))
<1> DEFINE then == Append(acts, Action("FunctionCall", set))
<1>1. Added(ops) \subseteq 1 .. Len(ops) /\ Len(ops) \in Nat /\ Cardinality(Added(ops)) \in Nat
      /\ \A i \in Added(ops) : Position(ops, i) \in 1 .. Cardinality(Added(ops))
  BY AddedFinite
<1>2. Action("FunctionCall", call) \in [kind : KindNames, arg : Carried]
      /\ Action("FunctionCall", set) \in [kind : KindNames, arg : Carried]
  BY DEF Action, KindNames
<1>3. Len(acts) \in Nat
      /\ Len(before) = Len(acts) + 1 /\ before[Len(acts) + 1] = Action("FunctionCall", call)
      /\ \A k \in 1 .. Len(acts) : before[k] = acts[k]
  BY <1>2
<1>4. Len(then) = Len(acts) + 1 /\ then[Len(acts) + 1] = Action("FunctionCall", set)
      /\ \A k \in 1 .. Len(acts) : then[k] = acts[k]
  BY <1>2
<1> HIDE DEF before, then
<1>5. Len(before) = Cardinality(Added(ops)) /\ \A i \in Added(ops) : before[Position(ops, i)] = Written(ops, i)
  BY DEF ActionsListed, before
<1>6. /\ p \in Added(ops) /\ Position(ops, p) = Cardinality(Added(ops))
      /\ \A i \in Added(ops) : i # p => Position(ops, i) < Cardinality(Added(ops)) /\ ~Pending(ops, i)
  BY PendingLast DEF Pending
<1>7. o.op \notin Adding
  BY AddingFacts
<1>8. Added(Append(ops, o)) = Added(ops) /\ Cardinality(Added(Append(ops, o))) = Cardinality(Added(ops))
  BY <1>7, AddedMore
<1>9. \A i \in Added(ops) : Position(Append(ops, o), i) = Position(ops, i)
  BY PositionMore
<1>10. ASSUME NEW i \in Added(ops) PROVE then[Position(Append(ops, o), i)] = Written(Append(ops, o), i)
  <2>1. CASE i # p
    <3>1. Written(Append(ops, o), i) = Written(ops, i)
      BY <1>6, <2>1, WrittenMore
    <3>2. Position(ops, i) \in 1 .. Len(acts)
      BY <1>1, <1>3, <1>5, <1>6, <2>1
    <3> QED
      BY <1>3, <1>4, <1>5, <1>9, <3>1, <3>2
  <2>2. CASE i = p
    <3>1. Written(ops, p) = Action("FunctionCall", call)
      BY <1>3, <1>5, <1>6
    <3>2. Written(ops, p).arg = call
      BY <3>1 DEF Action
    <3>3. Written(Append(ops, o), p) = Action("FunctionCall", set)
      BY <1>6, <3>2, WrittenMore
    <3> QED
      BY <1>4, <1>3, <1>5, <1>6, <1>9, <2>2, <3>3
  <2> QED
    BY <2>1, <2>2
<1>11. ActionsListed(Append(ops, o), then)
  BY <1>3, <1>4, <1>5, <1>8, <1>10 DEF ActionsListed
<1> QED
  BY <1>11 DEF then

\* A list stays as written behind a setter when no call is open.
LEMMA ListedUnset ==
    ASSUME NEW ops \in Seq(ValidOps), NEW o \in ValidOps, NEW acts, ActionsListed(ops, acts),
           o.op \in Settings, \A p \in DOMAIN ops : ~Pending(ops, p)
    PROVE  ActionsListed(Append(ops, o), acts)
<1>1. o.op \notin Adding
  BY AddingFacts
<1>2. Added(Append(ops, o)) = Added(ops)
  BY <1>1, AddedMore
<1>3. Added(ops) \subseteq DOMAIN ops
  BY DEF Added
<1>4. \A i \in Added(ops) : Written(Append(ops, o), i) = Written(ops, i)
  BY <1>3, WrittenMore
<1>5. \A i \in Added(ops) : Position(Append(ops, o), i) = Position(ops, i)
  BY PositionMore
<1> QED
  BY <1>2, <1>4, <1>5 DEF ActionsListed

\* The receiver named last, with one call more.
LEMMA NamedMore ==
    ASSUME NEW ops \in Seq(ValidOps), NEW o \in ValidOps, NEW begun, NEW receiver, NamedLast(ops, begun, receiver)
    PROVE  NamedLast(Append(ops, o), begun, IF o.op \in DOMAIN Redirecting THEN o.arg ELSE receiver)
<1> DEFINE more == Append(ops, o)
<1> DEFINE Naming == DOMAIN Redirecting
<1>1. Len(ops) \in Nat /\ Len(more) = Len(ops) + 1 /\ more[Len(ops) + 1] = o /\ DOMAIN ops = 1 .. Len(ops)
      /\ DOMAIN more = 1 .. Len(ops) + 1 /\ \A k \in 1 .. Len(ops) : more[k] = ops[k]
  BY AppendFacts
<1> HIDE DEF more
<1> SUFFICES NamedLast(more, begun, IF o.op \in Naming THEN o.arg ELSE receiver)
  BY DEF more
<1>2. CASE o.op \in Naming
  <2>1. ASSUME NEW i \in DOMAIN more, \A j \in i + 1 .. Len(more) : more[j].op \notin Naming
        PROVE  i = Len(ops) + 1
    BY <1>1, <1>2, <2>1
  <2>2. ~ \A i \in DOMAIN more : more[i].op \notin Naming
    BY <1>1, <1>2
  <2> HIDE DEF Naming
  <2> QED
    BY <1>1, <1>2, <2>1, <2>2 DEF NamedLast, Naming
<1>3. CASE o.op \notin Naming
  <2>1. ASSUME \A i \in DOMAIN more : more[i].op \notin Naming PROVE receiver = begun
    <3>1. \A i \in DOMAIN ops : ops[i].op \notin Naming
      BY <1>1, <2>1
    <3> QED
      BY <3>1 DEF NamedLast
  <2>2. ASSUME NEW i \in DOMAIN more, more[i].op \in Naming,
               \A j \in i + 1 .. Len(more) : more[j].op \notin Naming
        PROVE  receiver = more[i].arg
    <3>1. i \in DOMAIN ops /\ more[i] = ops[i]
      BY <1>1, <1>3, <2>2
    <3>2. \A j \in i + 1 .. Len(ops) : ops[j].op \notin Naming
      BY <1>1, <2>2
    <3> QED
      BY <2>2, <3>1, <3>2 DEF NamedLast
  <2> QED
    BY <1>3, <2>1, <2>2 DEF NamedLast
<1> QED
  BY <1>2, <1>3

\* What a call adds is of a known kind.
LEMMA KindNamed ==
    ASSUME NEW o \in ValidOps, o.op \in Adding
    PROVE  KindAdded(o) \in KindNames
<1>1. CASE o.op = "call"
  BY <1>1, MethodNames DEF KindAdded, KindNames
<1>2. CASE o.op = "add_action"
  <2>1. o.arg \in KindNames
    BY <1>2, MethodNames DEF ValidOps, KindNames, Settings
  <2> QED
    BY <1>2, <2>1, MethodNames DEF KindAdded
<1>3. CASE o.op \in DOMAIN ActionMethods
  <2>1. KindAdded(o) = ActionMethods[o.op]
    BY <1>3, MethodNames DEF KindAdded
  <2> QED
    BY <1>3, <2>1, MethodKinds
<1>4. CASE o.op \in DOMAIN GlobalMethods
  <2>1. KindAdded(o) = GlobalMethods[o.op]
    BY <1>4, MethodNames DEF KindAdded
  <2> QED
    BY <1>4, <2>1, MethodKinds
<1>5. CASE o.op \in DOMAIN Redirecting
  <2>1. KindAdded(o) = Redirecting[o.op]
    BY <1>5, MethodNames DEF KindAdded
  <2> QED
    BY <1>5, <2>1, MethodKinds
<1> QED
  BY <1>1, <1>2, <1>3, <1>4, <1>5 DEF Adding

\* A call does to the builder what it adds to the text.
LEMMA ChainStep ==
    ASSUME NEW ops \in Seq(ValidOps), NEW o \in ValidOps, NEW begun, NEW signer, NEW b,
           ChainOk(begun, signer, ops, b)
    PROVE  ChainOk(begun, signer, Append(ops, o), Apply(b, o))
<1> DEFINE more == Append(ops, o)
<1> DEFINE c == Apply(b, o)
<1>1. b \in Builders
  BY DEF ChainOk
<1>2. Len(ops) \in Nat /\ DOMAIN ops = 1 .. Len(ops) /\ DOMAIN more = 1 .. Len(ops) + 1
      /\ more[Len(ops) + 1] = o /\ \A k \in 1 .. Len(ops) : more[k] = ops[k]
  BY AppendFacts
<1>3. CASE b.panicked
  BY <1>1, <1>3, ApplyPanicked DEF ChainOk
<1>4. CASE ~b.panicked /\ Unparsed(o)
  BY <1>1, <1>4, ApplyUnparsed DEF ChainOk
<1>5. CASE ~b.panicked /\ ~Unparsed(o)
  <2>1. /\ b.signer = signer /\ ActionsListed(ops, finish(b).actions)
        /\ b.open <=> \E p \in DOMAIN ops : Pending(ops, p)
        /\ NamedLast(ops, begun, b.receiver)
        /\ b.override = IF \E i \in DOMAIN ops : ops[i].op = "sign_with" THEN "s" ELSE NoAccount
    BY <1>5 DEF ChainOk
  <2>2. NamedLast(more, begun, IF o.op \in DOMAIN Redirecting THEN o.arg ELSE b.receiver)
    BY <2>1, NamedMore
  <2>3. \A p \in 1 .. Len(ops) : Pending(more, p) <=> Pending(ops, p) /\ o.op \in Settings
    BY PendingMore
  <2>4. Pending(more, Len(ops) + 1) <=> o.op = "call"
    BY PendingMore
  <2>5. (\E i \in DOMAIN more : more[i].op = "sign_with")
        <=> o.op = "sign_with" \/ \E i \in DOMAIN ops : ops[i].op = "sign_with"
    <3> HIDE DEF more
    <3> QED
      BY <1>2
  <2>6. (\E p \in DOMAIN more : Pending(more, p))
        <=> o.op = "call" \/ (o.op \in Settings /\ \E p \in DOMAIN ops : Pending(ops, p))
    <3>1. \A p : p \in DOMAIN more <=> p \in 1 .. Len(ops) \/ p = Len(ops) + 1
      BY <1>2
    <3> HIDE DEF more
    <3> QED
      BY <1>2, <2>3, <2>4, <3>1
  <2>7. CASE o.op \in Settings
    <3>1. /\ c = [b EXCEPT !.call = c.call] /\ c.call \in Carried
          /\ c.call =
                [args |-> IF o.op \in {"args", "args_borsh", "args_raw"} THEN Serialized(o) ELSE b.call.args,
                 gas |-> IF o.op = "gas" THEN Serialized(o) ELSE b.call.gas,
                 deposit |-> IF o.op = "deposit" THEN Serialized(o) ELSE b.call.deposit]
      BY <1>1, <1>5, <2>7, ApplySetting
    <3> HIDE DEF c, more
    <3>2. c \in Builders /\ c.signer = b.signer /\ c.open = b.open /\ c.receiver = b.receiver
          /\ c.override = b.override /\ c.actions = b.actions /\ c.panicked = b.panicked
      BY <1>1, <3>1 DEF Builders
    <3>3. o.op \notin DOMAIN Redirecting /\ o.op # "call" /\ o.op # "sign_with"
      BY <2>7, AddingFacts
    <3>4. finish(b).actions = IF b.open THEN Append(b.actions, Action("FunctionCall", b.call)) ELSE b.actions
      BY <1>1, FinishEffect
    <3>5. finish(c).actions = IF b.open THEN Append(b.actions, Action("FunctionCall", c.call)) ELSE b.actions
      BY <3>2, FinishEffect
    <3>6. ActionsListed(more, finish(c).actions)
      <4>1. CASE b.open
        <5>1. PICK p \in DOMAIN ops : Pending(ops, p)
          BY <2>1, <4>1
        <5>2. ActionsListed(ops, Append(b.actions, Action("FunctionCall", b.call)))
          BY <2>1, <3>4, <4>1
        <5>3. b.actions \in Seq([kind : KindNames, arg : Carried]) /\ b.call \in Carried
          BY <1>1 DEF Builders
        <5>4. ActionsListed(more, Append(b.actions, Action("FunctionCall", c.call)))
          BY <2>7, <3>1, <5>1, <5>2, <5>3, ListedSet DEF more
        <5> QED
          BY <3>5, <4>1, <5>4
      <4>2. CASE ~b.open
        <5>1. ActionsListed(ops, b.actions)
          BY <2>1, <3>4, <4>2
        <5>2. ActionsListed(more, b.actions)
          BY <2>1, <2>7, <4>2, <5>1, ListedUnset DEF more
        <5> QED
          BY <3>5, <4>2, <5>2
      <4> QED
        BY <4>1, <4>2
    <3>7. NamedLast(more, begun, c.receiver)
      BY <2>2, <3>2, <3>3
    <3>8. c.open <=> \E p \in DOMAIN more : Pending(more, p)
      BY <2>1, <2>6, <2>7, <3>2, <3>3
    <3>9. c.override = IF \E i \in DOMAIN more : more[i].op = "sign_with" THEN "s" ELSE NoAccount
      BY <2>1, <2>5, <3>2, <3>3
    <3>10. ChainOk(begun, signer, more, c)
      BY <2>1, <3>2, <3>6, <3>7, <3>8, <3>9 DEF ChainOk
    <3> QED
      BY <3>10 DEF c, more
  <2>8. CASE o.op \notin Settings
    <3>1. /\ c \in Builders /\ ~c.panicked /\ c.signer = b.signer
          /\ c.receiver = IF o.op \in DOMAIN Redirecting THEN o.arg ELSE b.receiver
          /\ c.override = IF o.op = "sign_with" THEN "s" ELSE b.override
          /\ c.open <=> o.op = "call"
          /\ o.op = "call" => c.call = FunctionCall /\ c.actions = finish(b).actions
          /\ o.op = "sign_with" => c.actions = finish(b).actions
          /\ o.op \in Adding \ {"call"} =>
                c.actions = Append(finish(b).actions, Action(KindAdded(o), Plain))
      BY <1>1, <1>5, <2>8, ApplyOther
    <3> HIDE DEF c, more
    <3>2. finish(b).actions \in Seq([kind : KindNames, arg : Carried])
      BY <1>1, FinishEffect DEF Builders
    <3>3. finish(c).actions = IF c.open THEN Append(c.actions, Action("FunctionCall", c.call)) ELSE c.actions
      BY <3>1, FinishEffect
    <3>4. ActionsListed(more, finish(c).actions)
      <4>1. CASE o.op \in Adding
        <5>1. ActionsListed(more, Append(finish(b).actions,
                    Action(KindAdded(o), IF o.op = "call" THEN FunctionCall ELSE Plain)))
          BY <2>1, <2>8, <3>2, <4>1, KindNamed, ListedMore DEF more
        <5>2. CASE o.op = "call"
          <6>1. KindAdded(o) = "FunctionCall"
            BY <5>2, MethodNames DEF KindAdded
          <6> QED
            BY <3>1, <3>3, <5>1, <5>2, <6>1
        <5>3. CASE o.op # "call"
          BY <3>1, <3>3, <4>1, <5>1, <5>3
        <5> QED
          BY <5>2, <5>3
      <4>2. CASE o.op \notin Adding
        <5>1. o.op = "sign_with"
          BY <2>8, <4>2 DEF ValidOps, Adding
        <5>2. ActionsListed(more, finish(b).actions)
          BY <2>1, <2>8, <3>2, <4>2, ListedMore DEF more
        <5>3. o.op # "call"
          BY <5>1
        <5> QED
          BY <3>1, <3>3, <5>1, <5>2, <5>3
      <4> QED
        BY <4>1, <4>2
    <3>5. NamedLast(more, begun, c.receiver)
      BY <2>2, <3>1
    <3>6. c.open <=> \E p \in DOMAIN more : Pending(more, p)
      BY <2>6, <2>8, <3>1
    <3>7. c.override = IF \E i \in DOMAIN more : more[i].op = "sign_with" THEN "s" ELSE NoAccount
      BY <2>1, <2>5, <3>1
    <3>8. ChainOk(begun, signer, more, c)
      BY <2>1, <3>1, <3>4, <3>5, <3>6, <3>7 DEF ChainOk
    <3> QED
      BY <3>8 DEF c, more
  <2> QED
    BY <2>7, <2>8
<1> QED
  BY <1>3, <1>4, <1>5

\* Hence a whole chain does.
LEMMA ChainAll ==
    ASSUME NEW ops \in Seq(ValidOps), NEW begun, NEW signer, NEW b, ChainOk(begun, signer, <<>>, b)
    PROVE  ChainOk(begun, signer, ops, Chained(b, ops))
<1>1. Len(ops) \in Nat
  OBVIOUS
<1>2. PICK f : Steps(b, ops, Len(ops), f) /\ Chained(b, ops) = f[Len(ops)]
  BY <1>1, ChainedSteps
<1> DEFINE Upto(n) == SubSeq(ops, 1, n)
<1> DEFINE Bad == {n \in 0 .. Len(ops) : ~ChainOk(begun, signer, Upto(n), f[n])}
<1>3. Upto(Len(ops)) = ops
  OBVIOUS
<1> SUFFICES ASSUME Bad # {} PROVE FALSE
  <2>1. CASE Bad = {}
    <3>1. ChainOk(begun, signer, Upto(Len(ops)), f[Len(ops)])
      BY <1>1, <2>1
    <3> QED
      BY <1>2, <1>3, <3>1
  <2> QED
    BY <2>1
<1>4. PICK n \in Bad : \A m \in Bad : n <= m
  BY LeastNat, Bad \subseteq Nat
<1>5. n # 0
  <2>1. Upto(0) = <<>> /\ f[0] = b
    BY <1>2 DEF Steps
  <2> HIDE DEF Upto
  <2> QED
    BY <1>4, <2>1
<1>6. n \in 1 .. Len(ops) /\ n - 1 \in 0 .. Len(ops) /\ n - 1 \notin Bad
  BY <1>4, <1>5
<1>7. ChainOk(begun, signer, Upto(n - 1), f[n - 1])
  BY <1>6
<1>8. Upto(n - 1) \in Seq(ValidOps) /\ ops[n] \in ValidOps /\ Upto(n) = Append(Upto(n - 1), ops[n])
  BY <1>6
<1>9. f[n] = Apply(f[n - 1], ops[n])
  BY <1>2, <1>6 DEF Steps
<1> HIDE DEF Upto
<1>10. ChainOk(begun, signer, Append(Upto(n - 1), ops[n]), Apply(f[n - 1], ops[n]))
  BY <1>7, <1>8, ChainStep
<1> QED
  BY <1>4, <1>8, <1>9, <1>10
-----------------------------------------------------------------------------
(* The chains a program can write. *)

Chains == [of : {"builder"}, signer : {"u", NoAccount}, start : Starts, ops : Seq(Ops)]

\* The calls of the exercise are calls of a builder.
LEMMA OpsValid == Ops \subseteq ValidOps
<1> SUFFICES ASSUME NEW o \in Ops PROVE o \in ValidOps
  OBVIOUS
<1>1. CASE o \in {Op("call", "m"), Op("args", "json"), Op("args_borsh", "unserializable"),
                  Op("args_raw", "unserializable"), Op("gas", "g"), Op("deposit", "bad")}
  BY <1>1 DEF Op, ValidOps, Words, Settings, Parsing
<1>2. CASE o \in {Op("transfer", "bad"), Op("transfer", "good")}
  BY <1>2, MethodNames DEF Op, ValidOps, Parsing
<1>3. CASE o \in {Op(n, "good") : n \in DOMAIN ActionMethods \cup DOMAIN GlobalMethods}
  <2>1. PICK n \in DOMAIN ActionMethods \cup DOMAIN GlobalMethods : o = Op(n, "good")
    BY <1>3
  <2> QED
    BY <2>1 DEF Op, ValidOps
<1>4. CASE o \in {Op(n, a) : n \in DOMAIN Redirecting, a \in Accounts}
  <2>1. PICK n \in DOMAIN Redirecting, a \in Accounts : o = Op(n, a)
    BY <1>4
  <2> QED
    BY <2>1 DEF Op, ValidOps
<1>5. CASE o \in {Op("add_action", "DelegateV2"), Op("sign_with", "s")}
  BY <1>5 DEF Op, ValidOps
<1> QED
  BY <1>1, <1>2, <1>3, <1>4, <1>5 DEF Ops

\* What a chain is begun with, for each first method.
LEMMA BegunFacts ==
    ASSUME NEW signer \in {"u", NoAccount}, NEW start \in Starts
    PROVE  /\ Begun(signer, start).ops \in Seq(ValidOps)
           /\ Begun(signer, start).receiver \in {"u", "v", "w", NoAccount}
           /\ start.op \in SelfDirected =>
                Begun(signer, start) = [receiver |-> signer, ops |-> <<Op(start.op, "good")>>]
           /\ start.op = "state_init" =>
                Begun(signer, start) = [receiver |-> start.arg, ops |-> <<Op("add_action", "DeterministicStateInit")>>]
<1> DEFINE S == {"transaction", "transfer", "call", "call_with_args", "call_with_options", "state_init"}
<1>1. S \cap (SelfDirected \cup TokenMethods) = {} /\ SelfDirected \cap TokenMethods = {}
  BY DEF SelfDirected, TokenMethods
<1>2. CASE start = Op("transaction", "w")
  <2>1. start.op = "transaction" /\ start.arg = "w"
    BY <1>2 DEF Op
  <2>2. Begun(signer, start) = [receiver |-> "w", ops |-> <<>>]
    BY <1>1, <2>1 DEF Begun
  <2> QED
    BY <1>1, <2>1, <2>2
<1>3. CASE start \in {Op("transfer", "good"), Op("call", "m")}
  <2>1. start.op \in {"transfer", "call"} /\ start = Op(start.op, start.arg)
    BY <1>3 DEF Op
  <2>2. Begun(signer, start) = [receiver |-> "v", ops |-> <<Op(start.op, start.arg)>>]
    BY <1>1, <2>1 DEF Begun
  <2>3. Op(start.op, start.arg) \in ValidOps
    BY <1>3, <2>1, OpsValid DEF Ops
  <2>4. <<Op(start.op, start.arg)>> \in Seq(ValidOps)
    BY <2>3
  <2> QED
    BY <1>1, <2>1, <2>2, <2>4
<1>4. CASE start \in {Op("call_with_args", "m"), Op("call_with_options", "m")}
  <2>1. start.op \in {"call_with_args", "call_with_options"}
    BY <1>4 DEF Op
  <2>2. Begun(signer, start) = [receiver |-> "v", ops |-> CallWith(start)]
    BY <1>1, <2>1 DEF Begun
  <2>3. Op("call", "m") \in ValidOps /\ Op("args", "json") \in ValidOps
        /\ Op("gas", "g") \in ValidOps /\ Op("deposit", "d") \in ValidOps
    BY DEF Op, ValidOps, Words, Settings, Parsing
  <2>4. <<Op("call", "m"), Op("args", "json")>> \in Seq(ValidOps) /\ <<Op("gas", "g"), Op("deposit", "d")>> \in Seq(ValidOps)
        /\ <<>> \in Seq(ValidOps)
    BY <2>3
  <2>5. CallWith(start) \in Seq(ValidOps)
    BY <2>4 DEF CallWith
  <2> QED
    BY <1>1, <2>1, <2>2, <2>5
<1>5. CASE start = Op("state_init", "w")
  <2>1. start.op = "state_init" /\ start.arg = "w"
    BY <1>5 DEF Op
  <2>2. Begun(signer, start) = [receiver |-> "w", ops |-> <<Op("add_action", "DeterministicStateInit")>>]
    BY <1>1, <2>1 DEF Begun
  <2>3. Op("add_action", "DeterministicStateInit") \in ValidOps
    BY DEF Op, ValidOps
  <2>4. <<Op("add_action", "DeterministicStateInit")>> \in Seq(ValidOps)
    BY <2>3
  <2> QED
    BY <1>1, <2>1, <2>2, <2>4
<1>6. CASE start \in {Op(n, "good") : n \in SelfDirected}
  <2>1. start.op \in SelfDirected /\ start.arg = "good"
    BY <1>6 DEF Op
  <2>2. start.op \notin S /\ start.op \notin TokenMethods
    BY <1>1, <2>1
  <2>3. Begun(signer, start) = [receiver |-> signer, ops |-> <<Op(start.op, "good")>>]
    BY <2>1, <2>2 DEF Begun
  <2>4. Op(start.op, "good") \in ValidOps
    BY <2>1, MethodNames DEF Op, ValidOps, SelfDirected
  <2>5. <<Op(start.op, "good")>> \in Seq(ValidOps)
    BY <2>4
  <2> QED
    BY <2>2, <2>3, <2>5
<1>7. CASE start \in {Op(n, "good") : n \in TokenMethods}
  <2>1. start.op \in TokenMethods /\ start.arg = "good"
    BY <1>7 DEF Op
  <2>2. start.op \notin S /\ start.op \notin SelfDirected
    BY <1>1, <2>1
  <2>3. Begun(signer, start) = [receiver |-> "v", ops |-> TokenCall(start.op)]
    BY <2>1, <2>2 DEF Begun
  <2>4. Op("call", start.op) \in ValidOps /\ Op("args", "json") \in ValidOps
        /\ Op("deposit", IF start.op = "storage_deposit" THEN "d" ELSE "1y") \in ValidOps
        /\ Op("gas", IF start.op \in {"ft_transfer_call", "nft_transfer_call"} THEN "100T" ELSE "30T") \in ValidOps
    BY <2>1 DEF Op, ValidOps, Words, Settings, Parsing
  <2>5. TokenCall(start.op) \in Seq(ValidOps)
    BY <2>4 DEF TokenCall
  <2> QED
    BY <2>2, <2>3, <2>5
<1> QED
  BY <1>2, <1>3, <1>4, <1>5, <1>6, <1>7 DEF Starts

\* Before its calls a builder holds what they say.
LEMMA ChainStart ==
    ASSUME NEW c \in Chains
    PROVE  ChainOk(Begun(c.signer, c.start).receiver, c.signer, <<>>, EmptyBuilder(c))
<1> DEFINE b == EmptyBuilder(c)
<1> DEFINE begun == Begun(c.signer, c.start).receiver
<1> DEFINE gone == c.start.op \in SelfDirected /\ c.signer = NoAccount
<1>1. c.signer \in {"u", NoAccount} /\ begun \in {"u", "v", "w", NoAccount}
  BY BegunFacts DEF Chains
<1>2. FunctionCall \in Carried
  BY DEF FunctionCall, Carried, Words
<1>3. b = [receiver |-> begun, signer |-> c.signer, override |-> NoAccount, actions |-> <<>>,
           open |-> FALSE, call |-> FunctionCall, panicked |-> gone]
  <2>1. b = [new(c.signer, begun) EXCEPT !.panicked = gone]
    BY DEF EmptyBuilder
  <2> HIDE DEF b, begun, gone
  <2> QED
    BY <2>1 DEF new
<1> HIDE DEF b, begun, gone
<1>4. b \in Builders
  <2>1. <<>> \in Seq([kind : KindNames, arg : Carried]) /\ gone \in BOOLEAN
    BY DEF gone
  <2> QED
    BY <1>1, <1>2, <1>3, <2>1 DEF Builders
<1>5. finish(b).actions = <<>>
  BY <1>3 DEF finish
<1>6. Added(<<>>) = {}
  BY DEF Added
<1>7. ActionsListed(<<>>, finish(b).actions)
  BY <1>5, <1>6, FS_EmptySet DEF ActionsListed
<1>8. NamedLast(<<>>, begun, b.receiver)
  BY <1>3 DEF NamedLast
<1> QED
  BY <1>3, <1>4, <1>7, <1>8 DEF ChainOk, b, begun

\* Every chain builds what was written.
LEMMA ChainBuilt ==
    ASSUME NEW c \in Chains
    PROVE  /\ Calls(c) \in Seq(ValidOps)
           /\ ChainOk(Begun(c.signer, c.start).receiver, c.signer, Calls(c), Built(c))
<1>1. c.signer \in {"u", NoAccount} /\ c.start \in Starts /\ c.ops \in Seq(Ops)
  BY DEF Chains
<1>2. Begun(c.signer, c.start).ops \in Seq(ValidOps)
  BY <1>1, BegunFacts
<1>3. c.ops \in Seq(ValidOps)
  BY <1>1, OpsValid
<1>4. Calls(c) \in Seq(ValidOps)
  BY <1>2, <1>3 DEF Calls
<1> QED
  BY <1>4, ChainStart, ChainAll DEF Built

\* However a chain ends, what succeeds is made of the finished builder.
LEMMA OutcomeFacts ==
    ASSUME NEW c, NEW how \in Ends, finish(Built(c)).panicked \in BOOLEAN
    PROVE  /\ Outcome(c, how).result = "ok" =>
                /\ ~finish(Built(c)).panicked
                /\ Outcome(c, how).actions = finish(Built(c)).actions
                /\ Outcome(c, how).receiver = finish(Built(c)).receiver
                /\ how # "build_offline" => Outcome(c, how).signer = SignerOf(finish(Built(c)))
           /\ (Outcome(c, how).result = "no signer" /\ how # "build_offline") =>
                ~finish(Built(c)).panicked /\ SignerOf(finish(Built(c))) = NoAccount
<1> DEFINE b == finish(Built(c))
<1> HIDE DEF b
<1>1. /\ sign_offline(b).result = "ok" => sign_offline(b) = Transaction(b, SignerOf(b))
      /\ sign_offline(b).result = "no signer" => SignerOf(b) = NoAccount
  BY DEF sign_offline, Refusal, Transaction
<1>2. /\ delegate(b).result = "ok" => delegate(b) = Transaction(b, SignerOf(b))
      /\ delegate(b).result = "no signer" => SignerOf(b) = NoAccount
  BY <1>1 DEF delegate, Refusal
<1>3. build_offline(b, "s").result = "ok" => build_offline(b, "s") = Transaction(b, "s")
  BY DEF build_offline, Refusal, Transaction
<1>4. Outcome(c, how) = IF b.panicked THEN Refusal("panicked")
                        ELSE IF how = "build_offline" THEN build_offline(b, "s")
                        ELSE IF how = "delegate" THEN delegate(b)
                        ELSE sign_offline(b)
  BY DEF Outcome, b
<1>5. \A s : Transaction(b, s).actions = b.actions /\ Transaction(b, s).receiver = b.receiver
             /\ Transaction(b, s).signer = s
  BY DEF Transaction
<1>6. Refusal("panicked").result = "panicked"
  BY DEF Refusal
<1>7. CASE b.panicked
  BY <1>4, <1>6, <1>7 DEF b
<1>8. CASE ~b.panicked /\ how = "build_offline"
  BY <1>3, <1>4, <1>5, <1>8 DEF b
<1>9. CASE ~b.panicked /\ how = "delegate"
  BY <1>2, <1>4, <1>5, <1>9 DEF b
<1>10. CASE ~b.panicked /\ how \notin {"build_offline", "delegate"}
  BY <1>1, <1>4, <1>5, <1>10 DEF b
<1> QED
  BY <1>7, <1>8, <1>9, <1>10

\* What a chain's builder holds when it is finished.
LEMMA Finished ==
    ASSUME NEW c \in Chains
    PROVE  /\ finish(Built(c)).panicked \in BOOLEAN
           /\ Built(c) \in Builders
           /\ finish(Built(c)).panicked = Built(c).panicked
           /\ ~finish(Built(c)).panicked =>
                /\ ActionsListed(Calls(c), finish(Built(c)).actions)
                /\ NamedLast(Calls(c), Begun(c.signer, c.start).receiver, finish(Built(c)).receiver)
                /\ finish(Built(c)).signer = c.signer
                /\ finish(Built(c)).override =
                      IF \E i \in DOMAIN Calls(c) : Calls(c)[i].op = "sign_with" THEN "s" ELSE NoAccount
<1>1. ChainOk(Begun(c.signer, c.start).receiver, c.signer, Calls(c), Built(c))
  BY ChainBuilt
<1> DEFINE b == Built(c)
<1> HIDE DEF b
<1>2. b \in Builders
  BY <1>1 DEF ChainOk, b
<1>3. finish(b).receiver = b.receiver /\ finish(b).signer = b.signer
      /\ finish(b).override = b.override /\ finish(b).panicked = b.panicked
  BY <1>2, FinishEffect
<1>4. b.panicked \in BOOLEAN
  BY <1>2 DEF Builders
<1> QED
  BY <1>1, <1>2, <1>3, <1>4 DEF ChainOk, b

\* The calls of the program are among all calls.
LEMMA OwnCalls ==
    ASSUME NEW c \in Chains
    PROVE  /\ \A i \in DOMAIN c.ops : \E k \in DOMAIN Calls(c) : Calls(c)[k] = c.ops[i]
           /\ \A k \in DOMAIN Calls(c) : \/ \E i \in DOMAIN c.ops : Calls(c)[k] = c.ops[i]
                                         \/ \E i \in DOMAIN Begun(c.signer, c.start).ops :
                                                Calls(c)[k] = Begun(c.signer, c.start).ops[i]
<1> DEFINE own == c.ops
<1> DEFINE first == Begun(c.signer, c.start).ops
<1>1. own \in Seq(Ops) /\ first \in Seq(ValidOps)
  BY BegunFacts DEF Chains
<1>2. Calls(c) = first \o own
  BY DEF Calls
<1> HIDE DEF own, first
<1>3. Len(own) \in Nat /\ Len(first) \in Nat /\ DOMAIN own = 1 .. Len(own) /\ DOMAIN first = 1 .. Len(first)
  BY <1>1
<1>4. DOMAIN Calls(c) = 1 .. Len(first) + Len(own)
      /\ \A k \in 1 .. Len(first) + Len(own) :
            Calls(c)[k] = IF k <= Len(first) THEN first[k] ELSE own[k - Len(first)]
  BY <1>1, <1>2
<1>5. ASSUME NEW i \in DOMAIN own PROVE \E k \in DOMAIN Calls(c) : Calls(c)[k] = own[i]
  <2>1. Len(first) + i \in DOMAIN Calls(c) /\ ~(Len(first) + i <= Len(first)) /\ (Len(first) + i) - Len(first) = i
    BY <1>3, <1>4
  <2> QED
    BY <1>4, <2>1
<1>6. ASSUME NEW k \in DOMAIN Calls(c)
      PROVE  (\E i \in DOMAIN own : Calls(c)[k] = own[i]) \/ (\E i \in DOMAIN first : Calls(c)[k] = first[i])
  <2>1. CASE k <= Len(first)
    BY <1>3, <1>4, <2>1
  <2>2. CASE ~(k <= Len(first))
    <3>1. k - Len(first) \in DOMAIN own
      BY <1>3, <1>4, <2>2
    <3> QED
      BY <1>4, <2>2, <3>1
  <2> QED
    BY <2>1, <2>2
<1> QED
  BY <1>5, <1>6 DEF own, first

\* The actions of the transaction are the ones added, in order.
LEMMA ChainNothingLost == ASSUME input \in Chains PROVE NothingLost
<1> SUFFICES ASSUME NEW how \in Ends, Outcome(input, how).result = "ok"
             PROVE  ActionsListed(Calls(input), Outcome(input, how).actions)
  BY DEF NothingLost, ActionsListed
<1> QED
  BY Finished, OutcomeFacts

\* Its receiver is the one named last.
LEMMA ChainReceiver == ASSUME input \in Chains PROVE ReceiverNamedLast
<1> DEFINE ops == Calls(input)
<1> DEFINE naming == {i \in DOMAIN ops : ops[i].op \in DOMAIN Redirecting}
<1> DEFINE last == CHOOSE i \in naming : \A j \in naming : j <= i
<1> DEFINE built == Outcome(input, "build_offline")
<1> DEFINE begun == Begun(input.signer, input.start).receiver
<1> SUFFICES ASSUME built.result = "ok"
             PROVE  built.receiver = IF naming = {} THEN begun ELSE ops[last].arg
  BY DEF ReceiverNamedLast
<1>1. "build_offline" \in Ends
  BY DEF Ends
<1>2. NamedLast(ops, begun, built.receiver)
  BY <1>1, Finished, OutcomeFacts
<1>3. ops \in Seq(ValidOps)
  BY ChainBuilt
<1> HIDE DEF ops, begun, built
<1>4. CASE naming = {}
  BY <1>2, <1>4 DEF NamedLast
<1>5. CASE naming # {}
  <2>1. Len(ops) \in Nat /\ DOMAIN ops = 1 .. Len(ops) /\ naming \subseteq 0 .. Len(ops)
    BY <1>3
  <2>2. last \in naming /\ \A j \in naming : j <= last
    BY <1>5, <2>1, GreatestNat
  <2> HIDE DEF last
  <2>3. \A j \in last + 1 .. Len(ops) : ops[j].op \notin DOMAIN Redirecting
    BY <2>1, <2>2
  <2>4. built.receiver = ops[last].arg
    BY <1>2, <2>2, <2>3 DEF NamedLast
  <2> QED
    BY <1>5, <2>4
<1> QED
  BY <1>4, <1>5

\* It is signed by the account sign_with names.
LEMMA ChainOverride == ASSUME input \in Chains PROVE OverrideSigns
<1> SUFFICES ASSUME NEW i \in DOMAIN input.ops, input.ops[i].op = "sign_with", NEW how \in Ends \ {"build_offline"}
             PROVE  /\ Outcome(input, how).result # "no signer"
                    /\ Outcome(input, how).result = "ok" => Outcome(input, how).signer = "s"
  BY DEF OverrideSigns
<1>1. \E k \in DOMAIN Calls(input) : Calls(input)[k].op = "sign_with"
  BY OwnCalls
<1>2. ~finish(Built(input)).panicked => finish(Built(input)).override = "s"
  BY <1>1, Finished
<1>3. ~finish(Built(input)).panicked => SignerOf(finish(Built(input))) = "s"
  BY <1>2 DEF SignerOf, NoAccount
<1>4. "s" # NoAccount
  BY DEF NoAccount
<1> QED
  BY <1>3, <1>4, Finished, OutcomeFacts

\* An account acting on itself is its own receiver.
LEMMA ChainSelf == ASSUME input \in Chains PROVE SelfActionsOnSelf
<1> SUFFICES ASSUME input.start.op \in SelfDirected,
                    ~(\E i \in DOMAIN input.ops : input.ops[i].op \in DOMAIN Redirecting \cup {"sign_with"}),
                    NEW how \in Ends \ {"build_offline"}, Outcome(input, how).result = "ok"
             PROVE  Outcome(input, how).signer = Outcome(input, how).receiver
  BY DEF SelfActionsOnSelf
<1>1. Begun(input.signer, input.start) = [receiver |-> input.signer, ops |-> <<Op(input.start.op, "good")>>]
  BY BegunFacts DEF Chains
<1>2. input.start.op \notin DOMAIN Redirecting \cup {"sign_with"}
  BY MethodNames DEF SelfDirected
<1>3. ASSUME NEW i \in DOMAIN Begun(input.signer, input.start).ops
      PROVE  Begun(input.signer, input.start).ops[i].op \notin DOMAIN Redirecting \cup {"sign_with"}
  <2>1. Begun(input.signer, input.start).ops = <<Op(input.start.op, "good")>>
    BY <1>1
  <2>2. i = 1
    BY <1>3, <2>1
  <2> QED
    BY <1>2, <2>1, <2>2 DEF Op
<1>4. ASSUME NEW k \in DOMAIN Calls(input) PROVE Calls(input)[k].op \notin DOMAIN Redirecting \cup {"sign_with"}
  BY <1>3, OwnCalls
<1>5. ~finish(Built(input)).panicked /\ Outcome(input, how).signer = SignerOf(finish(Built(input)))
      /\ Outcome(input, how).receiver = finish(Built(input)).receiver
  BY Finished, OutcomeFacts
<1>6. finish(Built(input)).override = NoAccount /\ finish(Built(input)).signer = input.signer
  BY <1>4, <1>5, Finished
<1>7. finish(Built(input)).receiver = input.signer
  BY <1>1, <1>4, <1>5, Finished DEF NamedLast
<1> QED
  BY <1>5, <1>6, <1>7 DEF SignerOf

\* into_action keeps the call with all its settings.
LEMMA ChainIntoAction == ASSUME input \in Chains PROVE IntoActionKeepsAll
<1> DEFINE b == Built(input)
<1> SUFFICES ASSUME b.open, ~b.panicked, ~IntoActionPanics(b)
             PROVE  Outcome(input, "build_offline").actions = <<Action("FunctionCall", b.call)>>
  BY DEF IntoActionKeepsAll
<1>1. b \in Builders
  BY Finished
<1>2. finish(b).actions = Append(b.actions, Action("FunctionCall", b.call)) /\ ~finish(b).panicked
  BY <1>1, FinishEffect
<1>3. b.actions = <<>>
  BY DEF IntoActionPanics
<1>4. finish(b).actions = <<Action("FunctionCall", b.call)>>
  <2> HIDE DEF b
  <2> QED
    BY <1>2, <1>3
<1>5. Outcome(input, "build_offline") = build_offline(finish(b), "s")
  BY <1>2 DEF Outcome
<1> HIDE DEF b
<1>6. finish(b).actions # <<>>
  BY <1>4
<1>7. build_offline(finish(b), "s") = Transaction(finish(b), "s")
  BY <1>6 DEF build_offline
<1> QED
  BY <1>4, <1>5, <1>7 DEF Transaction

\* A builder is its fields.
LEMMA SameBuilder ==
    ASSUME NEW b \in Builders, NEW d \in Builders,
           b.receiver = d.receiver, b.signer = d.signer, b.override = d.override, b.actions = d.actions,
           b.open = d.open, b.call = d.call, b.panicked = d.panicked
    PROVE  b = d
  BY DEF Builders

\* The end of a chain looks at the finished builder only.
LEMMA OutcomeSame ==
    ASSUME NEW c, NEW d, NEW how, Built(c) = Built(d)
    PROVE  Outcome(c, how) = Outcome(d, how)
  BY DEF Outcome

\* Near::state_init begins as the builder's state_init goes on.
LEMMA ChainStateInit == ASSUME input \in Chains PROVE StateInitAgrees
<1> SUFFICES ASSUME input.start.op = "state_init", NEW how \in Ends, NEW other \in Accounts
             PROVE  Outcome(input, how) =
                        Outcome([input EXCEPT !.start = Op("transaction", other),
                                              !.ops = <<Op("state_init", input.start.arg)>> \o @], how)
  BY DEF StateInitAgrees
<1> DEFINE to == input.start.arg
<1> DEFINE d == [input EXCEPT !.start = Op("transaction", other), !.ops = <<Op("state_init", to)>> \o input.ops]
<1> DEFINE S == ValidOps \cup {Op("state_init", to), Op("add_action", "DeterministicStateInit")}
<1>1. input.signer \in {"u", NoAccount} /\ input.start \in Starts /\ input.ops \in Seq(Ops)
  BY DEF Chains
<1>2. d.signer = input.signer /\ d.start = Op("transaction", other) /\ d.ops = <<Op("state_init", to)>> \o input.ops
  BY DEF Chains
<1> HIDE DEF d
<1>3. Begun(input.signer, input.start) = [receiver |-> to, ops |-> <<Op("add_action", "DeterministicStateInit")>>]
  BY <1>1, BegunFacts
<1>4. Begun(d.signer, d.start) = [receiver |-> other, ops |-> <<>>]
  <2>1. d.start.op = "transaction" /\ d.start.arg = other
    BY <1>2 DEF Op
  <2> QED
    BY <2>1 DEF Begun, SelfDirected, TokenMethods
<1>5. EmptyBuilder(input) = new(input.signer, to) /\ EmptyBuilder(d) = new(input.signer, other)
  <2>1. (input.start.op \in SelfDirected /\ input.signer = NoAccount) = FALSE
    BY DEF SelfDirected
  <2>2. (d.start.op \in SelfDirected /\ d.signer = NoAccount) = FALSE
    BY <1>2 DEF SelfDirected, Op
  <2>r. Begun(input.signer, input.start).receiver = to /\ Begun(d.signer, d.start).receiver = other
    BY <1>3, <1>4
  <2>3. EmptyBuilder(input) = [new(input.signer, to) EXCEPT !.panicked = FALSE]
    <3> HIDE DEF to
    <3> QED
      BY <2>r, <2>1, Zenon DEF EmptyBuilder
  <2>4. EmptyBuilder(d) = [new(input.signer, other) EXCEPT !.panicked = FALSE]
    BY <1>2, <2>r, <2>2, Zenon DEF EmptyBuilder
  <2> QED
    BY <2>3, <2>4 DEF new
<1>6. input.ops \in Seq(S)
  BY <1>1, OpsValid
<1>7. Built(input) = Chained(Apply(new(input.signer, to), Op("add_action", "DeterministicStateInit")), input.ops)
  BY <1>3, <1>5, <1>6, ChainedFirst DEF Built, Calls
<1>8. Built(d) = Chained(Apply(new(input.signer, other), Op("state_init", to)), input.ops)
  <2>1. Calls(d) = <<Op("state_init", to)>> \o input.ops
    <3> DEFINE all == <<Op("state_init", to)>> \o input.ops
    <3>1. all \in Seq(S)
      BY <1>6
    <3>2. Calls(d) = <<>> \o all
      <4>1. Begun(d.signer, d.start).ops = <<>>
        BY <1>4
      <4> QED
        BY <1>2, <4>1, Zenon DEF Calls
    <3> HIDE DEF all
    <3>3. Calls(d) = all
      BY <3>1, <3>2
    <3> QED
      BY <3>3 DEF all
  <2> QED
    BY <1>5, <1>6, <2>1, ChainedFirst DEF Built
<1>9. Apply(new(input.signer, to), Op("add_action", "DeterministicStateInit"))
        = Apply(new(input.signer, other), Op("state_init", to))
  <2>0. to \in {"w"} /\ "DeterministicStateInit" \in KindNames /\ Plain \in Carried /\ FunctionCall \in Carried
    <3>1. input.start = Op("state_init", "w")
      BY <1>1 DEF Starts, Op, SelfDirected, TokenMethods
    <3> QED
      BY <3>1 DEF Op, KindNames, Plain, FunctionCall, Carried, Words
  <2>1. ASSUME NEW r
        PROVE  ~new(input.signer, r).panicked /\ finish(new(input.signer, r)) = new(input.signer, r)
    BY DEF new, finish
  <2> DEFINE made(r) == add_action(new(input.signer, r), "DeterministicStateInit", Plain)
  <2>2. ASSUME NEW r \in Accounts \cup {"w"}
        PROVE  /\ made(r) \in Builders
               /\ made(r).actions = Append(<<>>, Action("DeterministicStateInit", Plain))
               /\ made(r).receiver = r /\ made(r).signer = input.signer /\ made(r).override = NoAccount
               /\ made(r).call = FunctionCall /\ ~made(r).open /\ ~made(r).panicked
    <3> DEFINE was == new(input.signer, r)
    <3>1. <<>> \in Seq([kind : KindNames, arg : Carried])
      OBVIOUS
    <3>2. was \in Builders
      BY <1>1, <2>0, <3>1 DEF Builders, new
    <3>3. was.actions = <<>> /\ was.receiver = r /\ was.signer = input.signer /\ was.override = NoAccount
          /\ was.call = FunctionCall /\ ~was.open /\ ~was.panicked
      BY DEF new
    <3> HIDE DEF was
    <3>4. LET e == add_action(was, "DeterministicStateInit", Plain)
          IN  /\ e \in Builders
              /\ e.actions = Append(was.actions, Action("DeterministicStateInit", Plain))
              /\ e.receiver = was.receiver /\ e.signer = was.signer /\ e.override = was.override
              /\ e.open = was.open /\ e.call = was.call /\ e.panicked = was.panicked
      BY <2>0, <3>2, AddedAction
    <3> QED
      BY <3>3, <3>4 DEF was
  <2>3. Apply(new(input.signer, to), Op("add_action", "DeterministicStateInit"))
          = add_action(new(input.signer, to), "DeterministicStateInit", Plain)
    <3> DEFINE o == Op("add_action", "DeterministicStateInit")
    <3>1. o.op = "add_action" /\ o.arg = "DeterministicStateInit"
      BY DEF Op
    <3> HIDE DEF o
    <3>2. o.op \notin Parsing \cup Settings \cup DOMAIN ActionMethods \cup DOMAIN GlobalMethods \cup DOMAIN Redirecting
      BY <3>1, MethodNames DEF Parsing, Settings
    <3>3. Apply(new(input.signer, to), o) = add_action(new(input.signer, to), "DeterministicStateInit", Plain)
      BY <2>1, <3>1, <3>2 DEF Apply
    <3> QED
      BY <3>3 DEF o
  <2>4. Apply(new(input.signer, other), Op("state_init", to)) =
            [add_action(new(input.signer, other), "DeterministicStateInit", Plain) EXCEPT !.receiver = to]
    <3> DEFINE o == Op("state_init", to)
    <3>1. o.op = "state_init" /\ o.arg = to
      BY DEF Op
    <3> HIDE DEF o
    <3>2. o.op \notin Parsing \cup Settings \cup DOMAIN ActionMethods \cup DOMAIN GlobalMethods
          /\ o.op \in DOMAIN Redirecting
      BY <3>1, MethodNames DEF Parsing, Settings
    <3>3. Apply(new(input.signer, other), o) = Redirect(new(input.signer, other), o)
      BY <2>1, <3>1, <3>2 DEF Apply
    <3>4. Redirecting[o.op] = "DeterministicStateInit"
      BY <3>1 DEF Redirecting
    <3> QED
      BY <3>1, <3>3, <3>4 DEF o, Redirect
  <2> DEFINE redirected == [made(other) EXCEPT !.receiver = to]
  <2>5. redirected \in Builders /\ redirected.actions = made(to).actions /\ redirected.receiver = made(to).receiver
        /\ redirected.signer = made(to).signer /\ redirected.override = made(to).override
        /\ redirected.call = made(to).call /\ redirected.open = made(to).open
        /\ redirected.panicked = made(to).panicked
    <3>1. other \in Accounts \cup {"w"} /\ to \in Accounts \cup {"w"}
      BY <2>0
    <3> HIDE DEF made, to
    <3> QED
      BY <2>0, <2>2, <3>1 DEF Builders
  <2>6. made(to) \in Builders
    BY <2>0, <2>2
  <2> HIDE DEF made
  <2>7. redirected = made(to)
    <3> HIDE DEF redirected
    <3> QED
      BY <2>5, <2>6, SameBuilder
  <2> QED
    BY <2>3, <2>4, <2>7 DEF made
<1>10. Built(input) = Built(d)
  BY <1>7, <1>8, <1>9
<1>11. Outcome(input, how) = Outcome(d, how)
  BY <1>10, OutcomeSame
<1> QED
  BY <1>11 DEF d

\* All of BuildsWhatWasWritten, for a chain of any length.
LEMMA ChainsBuild == ASSUME Given("builder") => input \in Chains PROVE BuildsWhatWasWritten
<1>1. CASE Given("builder")
  BY <1>1, ChainNothingLost, ChainReceiver, ChainStateInit, ChainSelf, ChainOverride, ChainIntoAction
  DEF BuildsWhatWasWritten
<1>2. CASE ~Given("builder")
  BY <1>2 DEF BuildsWhatWasWritten, NothingLost, ReceiverNamedLast, StateInitAgrees, SelfActionsOnSelf,
     OverrideSigns, IntoActionKeepsAll
<1> QED
  BY <1>1, <1>2
-----------------------------------------------------------------------------
(* Signing: what is signed, byte by byte. *)

\* A sequence that goes through s and then through t is their concatenation.
LEMMA Joined ==
    ASSUME NEW S, NEW s \in Seq(S), NEW t \in Seq(S), NEW u \in Seq(S), Len(u) = Len(s) + Len(t),
           \A i \in 1 .. Len(u) : u[i] = IF i <= Len(s) THEN s[i] ELSE t[i - Len(s)]
    PROVE  s \o t = u
<1> DEFINE w == s \o t
<1>1. w \in Seq(S) /\ Len(w) = Len(s) + Len(t)
      /\ \A i \in 1 .. Len(s) + Len(t) : w[i] = IF i <= Len(s) THEN s[i] ELSE t[i - Len(s)]
  BY ConcatProperties, Zenon
<1> HIDE DEF w
<1>2. w = u
  BY <1>1, SeqEqual
<1> QED
  BY <1>2 DEF w

\* Two bytes and two.
LEMMA JoinedPairs == ASSUME NEW a, NEW b, NEW c, NEW d PROVE <<a, b>> \o <<c, d>> = <<a, b, c, d>>
<1> DEFINE S == {a, b, c, d}
<1> DEFINE s == <<a, b>>
<1> DEFINE t == <<c, d>>
<1> DEFINE u == <<a, b, c, d>>
<1>1. s \in Seq(S) /\ t \in Seq(S) /\ u \in Seq(S) /\ Len(s) = 2 /\ Len(t) = 2 /\ Len(u) = 4
  OBVIOUS
<1>2. s[1] = a /\ s[2] = b /\ t[1] = c /\ t[2] = d /\ u[1] = a /\ u[2] = b /\ u[3] = c /\ u[4] = d
  OBVIOUS
<1> HIDE DEF S, s, t, u
<1>3. \A i \in 1 .. Len(u) : u[i] = IF i <= Len(s) THEN s[i] ELSE t[i - Len(s)]
  BY <1>1, <1>2
<1>4. Len(u) = Len(s) + Len(t)
  BY <1>1
<1>5. s \o t = u
  BY <1>1, <1>3, <1>4, Joined, Zenon
<1> QED
  BY <1>5 DEF s, t, u

\* A length and what follows it.
LEMMA JoinedLast ==
    ASSUME NEW a, NEW b, NEW c, NEW d, NEW e PROVE <<a, b, c, d>> \o <<e>> = <<a, b, c, d, e>>
<1> DEFINE S == {a, b, c, d, e}
<1> DEFINE s == <<a, b, c, d>>
<1> DEFINE t == <<e>>
<1> DEFINE u == <<a, b, c, d, e>>
<1>1. s \in Seq(S) /\ t \in Seq(S) /\ u \in Seq(S) /\ Len(s) = 4 /\ Len(t) = 1 /\ Len(u) = 5
  OBVIOUS
<1>2. /\ s[1] = a /\ s[2] = b /\ s[3] = c /\ s[4] = d /\ t[1] = e
      /\ u[1] = a /\ u[2] = b /\ u[3] = c /\ u[4] = d /\ u[5] = e
  OBVIOUS
<1> HIDE DEF S, s, t, u
<1>3. \A i \in 1 .. Len(u) : u[i] = IF i <= Len(s) THEN s[i] ELSE t[i - Len(s)]
  BY <1>1, <1>2
<1>4. Len(u) = Len(s) + Len(t)
  BY <1>1
<1>5. s \o t = u
  BY <1>1, <1>3, <1>4, Joined, Zenon
<1> QED
  BY <1>5 DEF s, t, u

\* The three bytes ReadBorsh looks at.
LEMMA Middle ==
    ASSUME NEW a, NEW b, NEW c, NEW d, NEW e PROVE SubSeq(<<a, b, c, d, e>>, 2, 4) = <<b, c, d>>
<1> DEFINE S == {a, b, c, d, e}
<1> DEFINE x == <<a, b, c, d, e>>
<1> DEFINE y == <<b, c, d>>
<1> DEFINE z == SubSeq(x, 2, 4)
<1>1. y \in Seq(S) /\ Len(y) = 3 /\ y[1] = b /\ y[2] = c /\ y[3] = d
  OBVIOUS
<1>2. x[2] = b /\ x[3] = c /\ x[4] = d /\ \A i \in 2 .. 4 : x[i] \in S
  OBVIOUS
<1> HIDE DEF S, x, y
<1>3. z \in Seq(S) /\ Len(z) = 3 /\ z[1] = x[2] /\ z[2] = x[3] /\ z[3] = x[4]
  BY <1>2, SubSeqProperties
<1> HIDE DEF z
<1>4. \A i \in 1 .. 3 : y[i] = z[i]
  BY <1>1, <1>2, <1>3
<1>5. y = z
  BY <1>1, <1>3, <1>4, SeqEqual
<1> QED
  BY <1>5 DEF x, y, z

\* What stands in front of the documents.
LEMMA PrefixBytes ==
    /\ \A n \in 0 .. 255 : LE32(0, n) = <<n, 0, 0, 0>>
    /\ DELEGATE_ACTION_PREFIX = <<110, 1, 0, 64>>
    /\ DELEGATE_V2_ACTION_PREFIX = <<99, 2, 0, 64>>
    /\ NEP413_TAG = <<157, 1, 0, 128>>
<1>1. ASSUME NEW n \in 0 .. 255 PROVE LE32(0, n) = <<n, 0, 0, 0>>
  <2>1. n % 256 = n /\ n \div 256 = 0 /\ 0 % 256 = 0 /\ 0 \div 256 = 0
    OBVIOUS
  <2>2. Bytes(n) = <<n, 0>> /\ Bytes(0) = <<0, 0>>
    BY <2>1 DEF Bytes
  <2> QED
    BY <2>2, JoinedPairs DEF LE32
<1>2. DELEGATE_ACTION_PREFIX = <<110, 1, 0, 64>>
  <2> DEFINE s == Bytes(366)
  <2> DEFINE t == Bytes(16384)
  <2> DEFINE u == <<110, 1>>
  <2> DEFINE v == <<0, 64>>
  <2>1. DELEGATE_ACTION_PREFIX = s \o t
    BY DEF LE32, DELEGATE_ACTION_PREFIX
  <2>2. s = u /\ t = v
    BY DEF Bytes
  <2>3. u \o v = <<110, 1, 0, 64>>
    BY JoinedPairs
  <2> HIDE DEF s, t, u, v
  <2> QED
    BY <2>1, <2>2, <2>3
<1>3. DELEGATE_V2_ACTION_PREFIX = <<99, 2, 0, 64>>
  <2> DEFINE s == Bytes(611)
  <2> DEFINE t == Bytes(16384)
  <2> DEFINE u == <<99, 2>>
  <2> DEFINE v == <<0, 64>>
  <2>1. DELEGATE_V2_ACTION_PREFIX = s \o t
    BY DEF LE32, DELEGATE_V2_ACTION_PREFIX
  <2>2. s = u /\ t = v
    BY DEF Bytes
  <2>3. u \o v = <<99, 2, 0, 64>>
    BY JoinedPairs
  <2> HIDE DEF s, t, u, v
  <2> QED
    BY <2>1, <2>2, <2>3
<1>4. NEP413_TAG = <<157, 1, 0, 128>>
  <2> DEFINE s == Bytes(413)
  <2> DEFINE t == Bytes(32768)
  <2> DEFINE u == <<157, 1>>
  <2> DEFINE v == <<0, 128>>
  <2>1. NEP413_TAG = s \o t
    BY DEF LE32, NEP413_TAG
  <2>2. s = u /\ t = v
    BY DEF Bytes
  <2>3. u \o v = <<157, 1, 0, 128>>
    BY JoinedPairs
  <2> HIDE DEF s, t, u, v
  <2> QED
    BY <2>1, <2>2, <2>3
<1> QED
  BY <1>1, <1>2, <1>3, <1>4

\* A document whose account id has n bytes.
LEMMA BorshIs == ASSUME NEW n \in 0 .. 255, NEW p PROVE Borsh(n, p) = <<n, 0, 0, 0, p>>
  BY PrefixBytes, JoinedLast DEF Borsh

\* A prefix in front of a document is read first.
LEMMA Fronted ==
    ASSUME NEW S, NEW s \in Seq(S), NEW t \in Seq(S), Len(s) = 4
    PROVE  s \o t \in Seq(S) /\ Len(s \o t) >= 4 /\ (s \o t)[1] = s[1] /\ (s \o t)[2] = s[2]
<1> DEFINE w == s \o t
<1>1. w \in Seq(S) /\ Len(w) = Len(s) + Len(t)
      /\ \A i \in 1 .. Len(s) + Len(t) : w[i] = IF i <= Len(s) THEN s[i] ELSE t[i - Len(s)]
  BY ConcatProperties, Zenon
<1>2. Len(t) \in Nat
  OBVIOUS
<1> HIDE DEF w
<1>3. w \in Seq(S) /\ Len(w) >= 4 /\ w[1] = s[1] /\ w[2] = s[2]
  BY <1>1, <1>2
<1> QED
  BY <1>3 DEF w

\* The first two bytes of a document.
First(domain, n) ==
    IF domain = "transaction" THEN n
    ELSE IF domain \in {"strict", "gas key"} THEN 1
    ELSE IF domain = "delegate" THEN 110
    ELSE IF domain = "delegate V2" THEN 99
    ELSE 157

Second(domain, n) ==
    IF domain = "transaction" THEN 0
    ELSE IF domain \in {"strict", "gas key"} THEN n
    ELSE IF domain = "delegate V2" THEN 2
    ELSE 1

\* Only a V0 transaction has a zero behind its first byte.
LEMMA SecondTells ==
    ASSUME NEW domain \in Domains, NEW n \in 2 .. 64
    PROVE  Second(domain, n) = 0 <=> domain = "transaction"
<1>1. CASE domain = "transaction"
  BY <1>1 DEF Second
<1>2. CASE domain \in {"strict", "gas key"}
  <2>1. Second(domain, n) = n
    BY <1>2 DEF Second
  <2>2. Second(domain, n) # 0
    BY <2>1
  <2>3. domain # "transaction"
    BY <1>2
  <2> QED
    BY <2>2, <2>3
<1>3. CASE domain \in {"delegate", "message"}
  <2>1. Second(domain, n) = 1
    BY <1>3 DEF Second
  <2> QED
    BY <1>3, <2>1
<1>4. CASE domain = "delegate V2"
  <2>1. Second(domain, n) = 2
    BY <1>4 DEF Second
  <2>2. Second(domain, n) # 0
    BY <2>1
  <2> QED
    BY <1>4, <2>2
<1> QED
  BY <1>1, <1>2, <1>3, <1>4 DEF Domains

\* The first byte of any other document names its domain.
Tag(domain) ==
    CASE domain \in {"strict", "gas key"} -> 1
      [] domain = "delegate" -> 110
      [] domain = "delegate V2" -> 99
      [] domain = "message" -> 157

\* A document of a domain other than transactions begins with its tag.
LEMMA FirstTells ==
    ASSUME NEW domain \in Domains \ {"transaction"}, NEW n
    PROVE  First(domain, n) = Tag(domain)
BY DEF First, Tag, Domains

\* The tags of two domains differ; the two uses of V1 are one domain.
LEMMA TagsDiffer ==
    ASSUME NEW d \in Domains \ {"transaction"}, NEW e \in Domains \ {"transaction"}
    PROVE  d # e /\ ~(d \in {"strict", "gas key"} /\ e \in {"strict", "gas key"}) => Tag(d) # Tag(e)
<1>1. SUFFICES ASSUME d # e /\ ~(d \in {"strict", "gas key"} /\ e \in {"strict", "gas key"})
               PROVE  Tag(d) # Tag(e)
  OBVIOUS
<1>2. CASE d \in {"strict", "gas key"}
  <2>1. Tag(d) = 1
    BY <1>2 DEF Tag
  <2>2. e \in {"delegate", "delegate V2", "message"}
    BY <1>1, <1>2 DEF Domains
  <2>3. CASE e = "delegate"
    <3>1. Tag(e) = 110
      BY <2>3 DEF Tag
    <3> QED
      BY <2>1, <3>1
  <2>4. CASE e = "delegate V2"
    <3>1. Tag(e) = 99
      BY <2>4 DEF Tag
    <3> QED
      BY <2>1, <3>1
  <2>5. CASE e = "message"
    <3>1. Tag(e) = 157
      BY <2>5 DEF Tag
    <3> QED
      BY <2>1, <3>1
  <2> QED
    BY <2>2, <2>3, <2>4, <2>5
<1>3. CASE d = "delegate"
  <2>1. Tag(d) = 110
    BY <1>3 DEF Tag
  <2>2. e \in {"strict", "gas key", "delegate V2", "message"}
    BY <1>1, <1>3 DEF Domains
  <2>3. CASE e \in {"strict", "gas key"}
    <3>1. Tag(e) = 1
      BY <2>3 DEF Tag
    <3> QED
      BY <2>1, <3>1
  <2>4. CASE e = "delegate V2"
    <3>1. Tag(e) = 99
      BY <2>4 DEF Tag
    <3> QED
      BY <2>1, <3>1
  <2>5. CASE e = "message"
    <3>1. Tag(e) = 157
      BY <2>5 DEF Tag
    <3> QED
      BY <2>1, <3>1
  <2> QED
    BY <2>2, <2>3, <2>4, <2>5
<1>4. CASE d = "delegate V2"
  <2>1. Tag(d) = 99
    BY <1>4 DEF Tag
  <2>2. e \in {"strict", "gas key", "delegate", "message"}
    BY <1>1, <1>4 DEF Domains
  <2>3. CASE e \in {"strict", "gas key"}
    <3>1. Tag(e) = 1
      BY <2>3 DEF Tag
    <3> QED
      BY <2>1, <3>1
  <2>4. CASE e = "delegate"
    <3>1. Tag(e) = 110
      BY <2>4 DEF Tag
    <3> QED
      BY <2>1, <3>1
  <2>5. CASE e = "message"
    <3>1. Tag(e) = 157
      BY <2>5 DEF Tag
    <3> QED
      BY <2>1, <3>1
  <2> QED
    BY <2>2, <2>3, <2>4, <2>5
<1>5. CASE d = "message"
  <2>1. Tag(d) = 157
    BY <1>5 DEF Tag
  <2>2. e \in {"strict", "gas key", "delegate", "delegate V2"}
    BY <1>1, <1>5 DEF Domains
  <2>3. CASE e \in {"strict", "gas key"}
    <3>1. Tag(e) = 1
      BY <2>3 DEF Tag
    <3> QED
      BY <2>1, <3>1
  <2>4. CASE e = "delegate"
    <3>1. Tag(e) = 110
      BY <2>4 DEF Tag
    <3> QED
      BY <2>1, <3>1
  <2>5. CASE e = "delegate V2"
    <3>1. Tag(e) = 99
      BY <2>5 DEF Tag
    <3> QED
      BY <2>1, <3>1
  <2> QED
    BY <2>2, <2>3, <2>4, <2>5
<1> QED
  BY <1>2, <1>3, <1>4, <1>5 DEF Domains

\* The two bytes that tell the domains apart.
LEMMA EncodeFacts ==
    ASSUME NEW domain \in Domains, NEW doc \in Transactions
    PROVE  /\ \E S : Encode(domain, doc) \in Seq(S) /\ Len(Encode(domain, doc)) >= 4
           /\ Encode(domain, doc)[1] = First(domain, doc.length)
           /\ Encode(domain, doc)[2] = Second(domain, doc.length)
           /\ domain = "transaction" => Encode(domain, doc) = <<doc.length, 0, 0, 0, doc>>
           /\ domain = "strict" => Tail(Encode(domain, doc)) = <<doc.length, 0, 0, 0, into_v1(doc, "Strict")>>
           /\ domain = "gas key" =>
                Tail(Encode(domain, doc)) = <<doc.length, 0, 0, 0, into_gas_key_v1(doc, "3", "Monotonic")>>
<1>1. doc.length \in 2 .. 64
  BY SigningAssumption DEF Transactions
<1>2. ASSUME NEW p PROVE Borsh(doc.length, p) = <<doc.length, 0, 0, 0, p>>
  BY <1>1, BorshIs
<1>3. into_v1(doc, "Strict").length = doc.length /\ into_gas_key_v1(doc, "3", "Monotonic").length = doc.length
  BY DEF into_v1, into_gas_key_v1
<1>4. ASSUME NEW p
      PROVE  LET x == <<V1_TAG>> \o <<doc.length, 0, 0, 0, p>>
             IN  /\ \E S : x \in Seq(S) /\ Len(x) >= 4
                 /\ x[1] = 1 /\ x[2] = doc.length /\ Tail(x) = <<doc.length, 0, 0, 0, p>>
  <2> DEFINE S == {1, doc.length, 0, p}
  <2> DEFINE s == <<V1_TAG>>
  <2> DEFINE t == <<doc.length, 0, 0, 0, p>>
  <2> DEFINE x == s \o t
  <2>1. s \in Seq(S) /\ t \in Seq(S) /\ Len(s) = 1 /\ s[1] = 1 /\ Len(t) = 5 /\ t[1] = doc.length
    BY DEF V1_TAG
  <2> HIDE DEF s, t
  <2>2. x \in Seq(S) /\ Len(x) = Len(s) + Len(t)
        /\ \A i \in 1 .. Len(s) + Len(t) : x[i] = IF i <= Len(s) THEN s[i] ELSE t[i - Len(s)]
    BY <2>1, ConcatProperties, Zenon
  <2> HIDE DEF x, S
  <2>3. x[1] = 1 /\ x[2] = doc.length /\ \A i \in 1 .. 5 : x[i + 1] = t[i]
    BY <2>1, <2>2
  <2>len. Len(x) = 6
    BY <2>1, <2>2
  <2>4. x # <<>>
    BY <2>len
  <2> DEFINE y == Tail(x)
  <2>5. y \in Seq(S) /\ Len(y) = Len(x) - 1 /\ \A i \in 1 .. Len(y) : y[i] = x[i + 1]
    BY <2>2, <2>4, HeadTailProperties, Zenon
  <2> HIDE DEF y
  <2>y. Len(y) = Len(t) /\ \A i \in 1 .. Len(y) : y[i] = t[i]
    BY <2>1, <2>3, <2>5, <2>len
  <2>6. y = t
    BY <2>1, <2>5, <2>y, SeqEqual, Zenon
  <2>7. Len(x) >= 4
    BY <2>len
  <2> QED
    BY <2>2, <2>3, <2>6, <2>7, Zenon DEF x, s, t, y
<1>6. CASE domain = "transaction"
  <2>1. Encode(domain, doc) = <<>> \o Borsh(doc.length, doc)
    BY <1>6 DEF Encode, EncodeTransaction
  <2>2. Encode(domain, doc) = <<>> \o <<doc.length, 0, 0, 0, doc>>
    BY <1>2, <2>1
  <2>3. <<>> \o <<doc.length, 0, 0, 0, doc>> = <<doc.length, 0, 0, 0, doc>>
    OBVIOUS
  <2>4. <<doc.length, 0, 0, 0, doc>> \in Seq({doc.length, 0, doc}) /\ Len(<<doc.length, 0, 0, 0, doc>>) >= 4
    OBVIOUS
  <2>5. <<doc.length, 0, 0, 0, doc>>[1] = doc.length /\ <<doc.length, 0, 0, 0, doc>>[2] = 0
    OBVIOUS
  <2>6. First(domain, doc.length) = doc.length /\ Second(domain, doc.length) = 0
    BY <1>6 DEF First, Second
  <2> QED
    BY <1>6, <2>2, <2>3, <2>4, <2>5, <2>6, Zenon
<1>7. CASE domain = "strict"
  <2>1. Encode(domain, doc) = <<V1_TAG>> \o Borsh(doc.length, into_v1(doc, "Strict"))
    BY <1>3, <1>7 DEF Encode, EncodeTransaction
  <2>2. Encode(domain, doc) = <<V1_TAG>> \o <<doc.length, 0, 0, 0, into_v1(doc, "Strict")>>
    BY <1>2, <2>1
  <2>3. First(domain, doc.length) = 1 /\ Second(domain, doc.length) = doc.length
    BY <1>7 DEF First, Second
  <2> QED
    BY <1>4, <1>7, <2>2, <2>3, Zenon
<1>8. CASE domain = "gas key"
  <2>1. Encode(domain, doc) = <<V1_TAG>> \o Borsh(doc.length, into_gas_key_v1(doc, "3", "Monotonic"))
    BY <1>3, <1>8 DEF Encode, EncodeTransaction
  <2>2. Encode(domain, doc) = <<V1_TAG>> \o <<doc.length, 0, 0, 0, into_gas_key_v1(doc, "3", "Monotonic")>>
    BY <1>2, <2>1
  <2>3. First(domain, doc.length) = 1 /\ Second(domain, doc.length) = doc.length
    BY <1>8 DEF First, Second
  <2> QED
    BY <1>4, <1>8, <2>2, <2>3, Zenon
<1> DEFINE B == <<doc.length, 0, 0, 0, doc>>
<1> DEFINE Z == {doc.length, 0, doc} \cup 0 .. 255
<1>9. B \in Seq(Z) /\ <<0>> \in Seq(Z)
  OBVIOUS
<1>10. CASE domain = "delegate"
  <2> DEFINE s == <<110, 1, 0, 64>>
  <2>1. Encode(domain, doc) = s \o B
    BY <1>2, <1>10, PrefixBytes DEF Encode, EncodeDelegate
  <2>2. s \in Seq(Z) /\ Len(s) = 4 /\ s[1] = 110 /\ s[2] = 1
    OBVIOUS
  <2> HIDE DEF s, B, Z
  <2>3. Encode(domain, doc) \in Seq(Z) /\ Len(Encode(domain, doc)) >= 4
        /\ Encode(domain, doc)[1] = 110 /\ Encode(domain, doc)[2] = 1
    BY <1>9, <2>1, <2>2, Fronted
  <2>6. First(domain, doc.length) = 110 /\ Second(domain, doc.length) = 1
    BY <1>10 DEF First, Second
  <2> QED
    BY <1>10, <2>3, <2>6
<1>11. CASE domain = "delegate V2"
  <2> DEFINE s == <<99, 2, 0, 64>>
  <2>1. Encode(domain, doc) = (s \o <<0>>) \o B
    BY <1>2, <1>11, PrefixBytes DEF Encode, EncodeDelegateV2
  <2>2. s \in Seq(Z) /\ Len(s) = 4 /\ s[1] = 99 /\ s[2] = 2
    OBVIOUS
  <2> DEFINE z == <<0>>
  <2> HIDE DEF s, B, Z, z
  <2>3. Encode(domain, doc) = s \o (z \o B)
    BY <1>9, <2>1, <2>2, ConcatAssociative DEF z
  <2>4. z \o B \in Seq(Z)
    BY <1>9, ConcatProperties DEF z
  <2> DEFINE u == z \o B
  <2> HIDE DEF u
  <2>5. Encode(domain, doc) \in Seq(Z) /\ Len(Encode(domain, doc)) >= 4
        /\ Encode(domain, doc)[1] = 99 /\ Encode(domain, doc)[2] = 2
    BY <2>2, <2>3, <2>4, Fronted DEF u
  <2>6. First(domain, doc.length) = 99 /\ Second(domain, doc.length) = 2
    BY <1>11 DEF First, Second
  <2> QED
    BY <1>11, <2>5, <2>6
<1>12. CASE domain = "message"
  <2> DEFINE s == <<157, 1, 0, 128>>
  <2>1. Encode(domain, doc) = s \o B
    BY <1>2, <1>12, PrefixBytes DEF Encode, EncodeMessage
  <2>2. s \in Seq(Z) /\ Len(s) = 4 /\ s[1] = 157 /\ s[2] = 1
    OBVIOUS
  <2> HIDE DEF s, B, Z
  <2>3. Encode(domain, doc) \in Seq(Z) /\ Len(Encode(domain, doc)) >= 4
        /\ Encode(domain, doc)[1] = 157 /\ Encode(domain, doc)[2] = 1
    BY <1>9, <2>1, <2>2, Fronted
  <2>6. First(domain, doc.length) = 157 /\ Second(domain, doc.length) = 1
    BY <1>12 DEF First, Second
  <2> QED
    BY <1>12, <2>3, <2>6
<1> QED
  BY <1>6, <1>7, <1>8, <1>10, <1>11, <1>12 DEF Domains

\* The documents and messages the exercise signs.
Documents == [of : {"signing"}, domain : Domains, doc : Transactions]

Messages ==
    {m \in [of : {"message"}, params : Params, got : Params, now : 0 .. MaxTime, max_age : 0 .. NoMaxAge,
            view : {"FullAccess", "FunctionCall", "missing", "error"}] : m.params.state = m.got.state}

\* They are among the first four.
LEMMA FrontBytes ==
    ASSUME NEW domain \in Domains, NEW doc \in Transactions
    PROVE  /\ Encode(domain, doc)[1] = First(domain, doc.length)
           /\ Encode(domain, doc)[2] = Second(domain, doc.length)
           /\ SubSeq(Encode(domain, doc), 1, 4)[1] = First(domain, doc.length)
           /\ SubSeq(Encode(domain, doc), 1, 4)[2] = Second(domain, doc.length)
<1> DEFINE x == Encode(domain, doc)
<1>1. (\E S : x \in Seq(S) /\ Len(x) >= 4) /\ x[1] = First(domain, doc.length) /\ x[2] = Second(domain, doc.length)
  BY EncodeFacts, Zenon
<1> HIDE DEF x
<1>2. SubSeq(x, 1, 4)[1] = x[1] /\ SubSeq(x, 1, 4)[2] = x[2]
  <2>1. PICK S : x \in Seq(S) /\ Len(x) >= 4
    BY <1>1, Zenon
  <2>2. x \in Seq(S) /\ Len(x) >= 4
    BY <2>1
  <2> QED
    BY <2>2
<1> QED
  BY <1>1, <1>2 DEF x

\* No two domains share their first four bytes.
LEMMA DocumentsSeparate == ASSUME input \in Documents PROVE DomainsSeparate
<1> SUFFICES ASSUME NEW domain \in Domains \ {input.domain}, NEW doc \in Transactions,
                    {domain, input.domain} # {"strict", "gas key"}
             PROVE  SubSeq(Encode(domain, doc), 1, 4) # SubSeq(Encode(input.domain, input.doc), 1, 4)
  BY DEF DomainsSeparate
<1> DEFINE x == Encode(domain, doc)
<1> DEFINE y == Encode(input.domain, input.doc)
<1>1. input.domain \in Domains /\ input.doc \in Transactions
  BY DEF Documents
<1>2. doc.length \in 2 .. 64 /\ input.doc.length \in 2 .. 64
  BY <1>1, SigningAssumption DEF Transactions
<1>3. /\ SubSeq(x, 1, 4)[1] = First(domain, doc.length)
      /\ SubSeq(x, 1, 4)[2] = Second(domain, doc.length)
  BY FrontBytes
<1>4. /\ SubSeq(y, 1, 4)[1] = First(input.domain, input.doc.length)
      /\ SubSeq(y, 1, 4)[2] = Second(input.domain, input.doc.length)
  BY <1>1, FrontBytes
<1>5. \/ First(domain, doc.length) # First(input.domain, input.doc.length)
      \/ Second(domain, doc.length) # Second(input.domain, input.doc.length)
  <2> DEFINE n == doc.length
  <2> DEFINE m == input.doc.length
  <2> DEFINE e == input.domain
  <2>3. n \in 2 .. 64 /\ m \in 2 .. 64 /\ e \in Domains /\ domain \in Domains /\ domain # e
        /\ {domain, e} # {"strict", "gas key"}
    BY <1>1, <1>2
  <2> HIDE DEF n, m, e
  <2>v. ~(domain \in {"strict", "gas key"} /\ e \in {"strict", "gas key"})
    BY <2>3
  <2>4. First(domain, n) # First(e, m) \/ Second(domain, n) # Second(e, m)
    <3>1. CASE domain = "transaction" \/ e = "transaction"
      <4>1. (Second(domain, n) = 0 <=> domain = "transaction") /\ (Second(e, m) = 0 <=> e = "transaction")
        BY <2>3, SecondTells, Zenon
      <4> QED
        BY <2>3, <3>1, <4>1
    <3>2. CASE domain # "transaction" /\ e # "transaction"
      <4> DEFINE f == First(domain, n)
      <4> DEFINE g == First(e, m)
      <4>0. domain \in Domains \ {"transaction"} /\ e \in Domains \ {"transaction"}
        BY <2>3, <3>2
      <4>1. f = Tag(domain) /\ g = Tag(e)
        BY <4>0, FirstTells, Zenon
      <4>3. Tag(domain) # Tag(e)
        BY <2>3, <2>v, <4>0, TagsDiffer, Zenon
      <4> QED
        BY <4>1, <4>3
    <3> QED
      BY <3>1, <3>2
  <2> QED
    BY <2>4 DEF n, m, e
<1> HIDE DEF x, y
<1>6. SubSeq(x, 1, 4) # SubSeq(y, 1, 4)
  BY <1>3, <1>4, <1>5
<1> QED
  BY <1>6 DEF x, y

\* A document in front of five bytes is read back.
LEMMA BorshReadBack ==
    ASSUME NEW n \in 2 .. 64, NEW p, NEW version
    PROVE  ReadBorsh(<<n, 0, 0, 0, p>>, version) = Ok([version |-> version, tx |-> p])
<1> DEFINE x == <<n, 0, 0, 0, p>>
<1>1. Len(x) = 5 /\ x[1] = n /\ x[5] = p
  OBVIOUS
<1>2. SubSeq(x, 2, 4) = <<0, 0, 0>>
  BY Middle
<1> HIDE DEF x
<1>3. ReadBorsh(x, version) = Ok([version |-> version, tx |-> x[5]])
  BY <1>1, <1>2 DEF ReadBorsh
<1> QED
  BY <1>1, <1>3 DEF x

\* A transaction of either version is read back, and nothing else is one.
LEMMA DocumentsReadBack == ASSUME input \in Documents PROVE VersionsReadBack
<1> DEFINE doc == input.doc
<1> DEFINE x == Encode(input.domain, doc)
<1> DEFINE read == DecodeTransaction(x)
<1> DEFINE asked(index, mode) == [nonce |-> doc.nonce, index |-> index, mode |-> mode, body |-> doc.body]
<1>1. input.domain \in Domains /\ doc \in Transactions
  BY DEF Documents
<1>2. doc.length \in 2 .. 64
  BY <1>1, SigningAssumption DEF Transactions
<1>front. x[1] = First(input.domain, doc.length) /\ x[2] = Second(input.domain, doc.length)
  BY <1>1, FrontBytes
<1>3. /\ input.domain = "transaction" => x = <<doc.length, 0, 0, 0, doc>>
      /\ input.domain = "strict" => Tail(x) = <<doc.length, 0, 0, 0, into_v1(doc, "Strict")>>
      /\ input.domain = "gas key" => Tail(x) = <<doc.length, 0, 0, 0, into_gas_key_v1(doc, "3", "Monotonic")>>
  BY <1>1, EncodeFacts, Zenon
<1> HIDE DEF x, doc
<1>4. CASE input.domain = "transaction"
  <2>1. x[2] = 0
    BY <1>4, <1>front DEF Second
  <2>2. read = ReadBorsh(x, "V0")
    BY <2>1 DEF DecodeTransaction
  <2>3. read = Ok([version |-> "V0", tx |-> doc])
    BY <1>2, <1>3, <1>4, <2>2, BorshReadBack
  <2>4. read.ok /\ Accessed(read.value) = asked("none", "Monotonic")
    BY <2>3 DEF Ok, Accessed
  <2> QED
    BY <1>4, <2>4 DEF VersionsReadBack, x, doc
<1>5. CASE input.domain = "strict"
  <2>1. x[2] # 0 /\ x[1] = V1_TAG
    <3>1. First(input.domain, doc.length) = 1 /\ Second(input.domain, doc.length) = doc.length
      BY <1>5 DEF First, Second
    <3> QED
      BY <1>2, <1>front, <3>1 DEF V1_TAG
  <2>2. read = ReadBorsh(Tail(x), "V1")
    BY <2>1 DEF DecodeTransaction
  <2>3. read = Ok([version |-> "V1", tx |-> into_v1(doc, "Strict")])
    <3>1. Tail(x) = <<doc.length, 0, 0, 0, into_v1(doc, "Strict")>>
      BY <1>3, <1>5, Zenon
    <3> QED
      BY <1>2, <2>2, <3>1, BorshReadBack
  <2>4. read.ok /\ Accessed(read.value) = asked("none", "Strict")
    BY <2>3 DEF Ok, Accessed, into_v1
  <2> QED
    BY <1>5, <2>4 DEF VersionsReadBack, x, doc
<1>6. CASE input.domain = "gas key"
  <2>1. x[2] # 0 /\ x[1] = V1_TAG
    <3>1. First(input.domain, doc.length) = 1 /\ Second(input.domain, doc.length) = doc.length
      BY <1>6 DEF First, Second
    <3> QED
      BY <1>2, <1>front, <3>1 DEF V1_TAG
  <2>2. read = ReadBorsh(Tail(x), "V1")
    BY <2>1 DEF DecodeTransaction
  <2>3. read = Ok([version |-> "V1", tx |-> into_gas_key_v1(doc, "3", "Monotonic")])
    <3>1. Tail(x) = <<doc.length, 0, 0, 0, into_gas_key_v1(doc, "3", "Monotonic")>>
      BY <1>3, <1>6, Zenon
    <3> QED
      BY <1>2, <2>2, <3>1, BorshReadBack
  <2>4. read.ok /\ Accessed(read.value) = asked("3", "Monotonic")
    BY <2>3 DEF Ok, Accessed, into_gas_key_v1, into_v1
  <2> QED
    BY <1>6, <2>4 DEF VersionsReadBack, x, doc
<1>7. CASE input.domain \in {"delegate", "delegate V2", "message"}
  <2>1. x[2] # 0 /\ x[1] # V1_TAG
    <3>0. Second(input.domain, doc.length) # 0
      BY <1>1, <1>2, <1>7, SecondTells
    <3>1. First(input.domain, doc.length) \in {110, 99, 157}
      <4>1. CASE input.domain = "delegate"
        BY <4>1 DEF First
      <4>2. CASE input.domain = "delegate V2"
        BY <4>2 DEF First
      <4>3. CASE input.domain = "message"
        BY <4>3 DEF First
      <4> QED
        BY <1>7, <4>1, <4>2, <4>3
    <3> QED
      BY <1>front, <3>0, <3>1 DEF V1_TAG
  <2>2. read = Fail("InvalidData")
    BY <2>1 DEF DecodeTransaction
  <2>3. ~read.ok
    BY <2>2 DEF Fail
  <2> QED
    BY <1>7, <2>3 DEF VersionsReadBack, x, doc
<1> QED
  BY <1>1, <1>4, <1>5, <1>6, <1>7 DEF Domains

\* A signature verifies over what was signed and nothing else, and has the
\* length of its key's type.
LEMMA MessageSignature ==
    ASSUME NEW type \in KeyTypes, NEW m, NEW n
    PROVE  LET secret == SecretKey(type, "k")
           IN  /\ verify_key(sign(secret, m), n, public_key(secret)) <=> m = n
               /\ sign(secret, m) = Key(type, sign(secret, m).bytes)
               /\ sign(secret, m).bytes.len = signature_len[type]
<1> DEFINE secret == SecretKey(type, "k")
<1> DEFINE made == ByteString(signature_len[type], <<type, "k", m>>, TRUE)
<1>1. secret.type = type /\ secret.bytes.is[2] = "k"
  BY DEF SecretKey, Key, ByteString
<1>2. public_key(secret).type = type /\ public_key(secret).bytes.is[2] = "k"
  BY DEF public_key, SecretKey, Key, ByteString
<1>3. made.is = <<type, "k", m>> /\ made.len = signature_len[type] /\ made.valid = TRUE
  BY DEF ByteString
<1>4. sign(secret, m) = Key(type, made)
  BY <1>1, Zenon DEF sign, Key
<1> HIDE DEF secret, made
<1>5. Key(type, made).type = type /\ Key(type, made).bytes = made
  BY DEF Key
<1>6. verify_key(sign(secret, m), n, public_key(secret)) <=> <<type, "k", m>> = <<type, "k", n>>
  BY <1>2, <1>3, <1>4, <1>5 DEF verify_key
<1>7. <<type, "k", m>> = <<type, "k", n>> <=> m = n
  OBVIOUS
<1> QED
  BY <1>3, <1>4, <1>5, <1>6, <1>7 DEF secret

\* A message is accepted as it was signed, and in time.
LEMMA MessagesAccepted == ASSUME input \in Messages PROVE AcceptedAsSigned /\ OwnershipIsChecked
<1> DEFINE signed(type) == sign_nep413("u", SecretKey(type, "k"), input.params)
<1>1. input.params \in Params /\ input.got \in Params /\ input.params.state = input.got.state
  BY DEF Messages
<1>2. ASSUME NEW type \in KeyTypes, NEW full \in BOOLEAN,
             verify(signed(type), input.got, input.now, input.max_age, full, input.view)
      PROVE  /\ input.got = input.params
             /\ input.max_age # NoMaxAge =>
                  input.params.time <= input.now /\ input.now <= input.params.time + input.max_age
  <2> DEFINE secret == SecretKey(type, "k")
  <2>0. /\ verify_key(sign(secret, Signed413(input.params)), Signed413(input.got), public_key(secret))
        /\ Fresh(input.got.time, input.now, input.max_age)
    <3> HIDE DEF secret
    <3>1. /\ signed(type).signature = sign(secret, Signed413(input.params))
          /\ signed(type).key = public_key(secret)
      BY DEF sign_nep413, secret
    <3> QED
      BY <1>2, <3>1 DEF verify, verify_signature
  <2>1. Signed413(input.got) = Signed413(input.params)
    BY <2>0, MessageSignature
  <2>2. /\ input.got.message = input.params.message /\ input.got.recipient = input.params.recipient
        /\ input.got.time = input.params.time /\ input.got.callback_url = input.params.callback_url
    BY <1>1, <2>1 DEF Signed413, Params
  <2>3. input.got = input.params
    BY <1>1, <2>2 DEF Params
  <2>4. input.now \in 0 .. MaxTime /\ input.max_age \in 0 .. NoMaxAge /\ input.params.time \in 0 .. MaxTime
    BY <1>1 DEF Messages, Params
  <2>5. MaxTime \in Nat
    BY SigningAssumption
  <2>6. Fresh(input.params.time, input.now, input.max_age)
    BY <2>0, <2>3
  <2> QED
    BY <2>3, <2>4, <2>5, <2>6 DEF Fresh, NoMaxAge
<1>3. ASSUME NEW type \in KeyTypes, verify(signed(type), input.got, input.now, input.max_age, TRUE, input.view)
      PROVE  input.view = "FullAccess"
  BY <1>3 DEF verify
<1> QED
  BY <1>2, <1>3 DEF AcceptedAsSigned, OwnershipIsChecked

\* A signature is read back from its text exactly if it has 64 bytes and its
\* form is known.
LEMMA SignatureRead ==
    ASSUME NEW type \in KeyTypes, NEW m, NEW form \in SignatureForms, NEW signature,
           signature = sign(SecretKey(type, "k"), m)
    PROVE  LET read == deserialize_signature_flexible([form |-> form, bytes |-> signature.bytes])
           IN  /\ read.ok <=> type = "ed25519" /\ form \in {"base64", "ed25519:", "base58"}
               /\ read.ok => read.value = signature
<1> DEFINE text == [form |-> form, bytes |-> signature.bytes]
<1>1. text.form = form /\ text.bytes = signature.bytes
  OBVIOUS
<1>2. signature = Key(type, signature.bytes) /\ signature.bytes.len = signature_len[type]
  BY MessageSignature
<1>3. signature_len[type] = 64 <=> type = "ed25519"
  BY DEF signature_len, KeyTypes
<1> HIDE DEF text
<1>4. CASE type = "ed25519" /\ form \in {"base64", "ed25519:", "base58"}
  <2>1. deserialize_signature_flexible(text) = Ok(signature)
    BY <1>1, <1>2, <1>3, <1>4 DEF deserialize_signature_flexible
  <2> QED
    BY <1>4, <2>1, Outcomes, Zenon DEF text
<1>5. CASE ~(type = "ed25519" /\ form \in {"base64", "ed25519:", "base58"})
  <2>1. deserialize_signature_flexible(text) = Fail("InvalidFormat")
    BY <1>1, <1>2, <1>3, <1>5 DEF deserialize_signature_flexible
  <2>2. ~deserialize_signature_flexible(text).ok
    BY <2>1, Outcomes, Zenon
  <2> QED
    BY <1>5, <2>2, Zenon DEF text
<1> QED
  BY <1>4, <1>5

\* An AuthPayload says what was signed, and so does one that was read.
LEMMA MessagesArrive == ASSUME input \in Messages PROVE AuthPayloadVerifies
<1> SUFFICES ASSUME input.params.time <= input.now, input.view = "FullAccess",
                    NEW type \in KeyTypes, NEW form \in SignatureForms
             PROVE  LET auth == from_signed(sign_nep413("u", SecretKey(type, "k"), input.params), input.params)
                        got == from_json(to_json(auth, form))
                    IN  /\ got.ok <=> type = "ed25519" /\ form \in {"base64", "ed25519:", "base58"}
                        /\ got.ok => /\ got.value = auth
                                     /\ verify(got.value.signed_message, to_params(got.value), input.now, NoMaxAge,
                                               TRUE, input.view)
  BY DEF AuthPayloadVerifies
<1> DEFINE secret == SecretKey(type, "k")
<1> DEFINE signature == sign(secret, Signed413(input.params))
<1> DEFINE signed == sign_nep413("u", secret, input.params)
<1> DEFINE auth == from_signed(signed, input.params)
<1> DEFINE got == from_json(to_json(auth, form))
<1>1. input.params \in Params
  BY DEF Messages
<1>2. auth.signed_message = signed
  BY DEF from_signed
<1>3. to_params(auth) = input.params
  <2>1. auth.signed_message.state = input.params.state
    BY DEF from_signed, sign_nep413
  <2>2. to_params(auth) =
            [message |-> input.params.message, recipient |-> input.params.recipient, time |-> input.params.time,
             callback_url |-> input.params.callback_url, state |-> input.params.state]
    BY <2>1 DEF to_params, from_signed
  <2> QED
    BY <1>1, <2>2 DEF Params
<1>4. verify_key(signed.signature, Signed413(input.params), signed.key)
  <2>1. signed.signature = signature /\ signed.key = public_key(secret)
    BY DEF sign_nep413
  <2> QED
    BY <2>1, MessageSignature, Zenon
<1>5. Fresh(input.params.time, input.now, NoMaxAge)
  BY DEF Fresh
<1>6. verify(auth.signed_message, to_params(auth), input.now, NoMaxAge, TRUE, input.view)
  <2> HIDE DEF signed, auth
  <2> QED
    BY <1>2, <1>3, <1>4, <1>5 DEF verify, verify_signature
<1> DEFINE with(x) == [signed_message |-> [account |-> "u", key |-> public_key(secret), signature |-> x,
                                           state |-> input.params.state],
                       time |-> input.params.time, message |-> input.params.message,
                       recipient |-> input.params.recipient, callback_url |-> input.params.callback_url]
<1> DEFINE text == [form |-> form, bytes |-> signature.bytes]
<1> DEFINE read == deserialize_signature_flexible(text)
<1>7. auth = with(signature)
  BY Zenon DEF from_signed, sign_nep413
<1>8. /\ read.ok <=> type = "ed25519" /\ form \in {"base64", "ed25519:", "base58"}
      /\ read.ok => read.value = signature
  <2>1. signature = sign(SecretKey(type, "k"), Signed413(input.params))
    OBVIOUS
  <2> HIDE DEF secret, signature
  <2> QED
    BY <2>1, SignatureRead
<1>9. to_json(auth, form) = with(text)
  <2>1. [serialize_signature_base64(signature) EXCEPT !.form = form] = text
    BY DEF serialize_signature_base64
  <2>2. to_json(with(signature), form) = with([serialize_signature_base64(signature) EXCEPT !.form = form])
    <3> HIDE DEF signature
    <3> QED
      BY DEF to_json
  <2> QED
    BY <1>7, <2>1, <2>2, Zenon
<1>10. got = IF read.ok THEN Ok(with(read.value)) ELSE read
  <2>1. with(text).signed_message.signature = text
    OBVIOUS
  <2>2. \A x : [with(text) EXCEPT !.signed_message.signature = x] = with(x)
    <3> HIDE DEF text
    <3> QED
      OBVIOUS
  <2> HIDE DEF text, with
  <2>3. from_json(with(text)) = IF read.ok THEN Ok(with(read.value)) ELSE read
    BY <2>1, <2>2, Zenon DEF from_json
  <2> QED
    BY <1>9, <2>3, Zenon
<1> HIDE DEF with, read, got, auth, signature
<1>11. CASE read.ok
  <2>1. got = Ok(auth)
    BY <1>7, <1>8, <1>10, <1>11
  <2>2. got.ok /\ got.value = auth
    BY <2>1, Outcomes, Zenon
  <2> QED
    BY <1>6, <1>8, <1>11, <2>2, Zenon DEF got, auth
<1>12. CASE ~read.ok
  <2>1. ~got.ok
    BY <1>10, <1>12
  <2> QED
    BY <1>8, <1>12, <2>1, Zenon DEF got, auth
<1> QED
  BY <1>11, <1>12

\* All of SignedForOneUse.
LEMMA DocumentsSigned ==
    ASSUME Given("signing") => input \in Documents, Given("message") => input \in Messages
    PROVE  SignedForOneUse
<1>1. DomainsSeparate /\ VersionsReadBack
  BY DocumentsSeparate, DocumentsReadBack DEF DomainsSeparate, VersionsReadBack
<1>2. AcceptedAsSigned /\ OwnershipIsChecked /\ AuthPayloadVerifies
  BY MessagesAccepted, MessagesArrive DEF AcceptedAsSigned, OwnershipIsChecked, AuthPayloadVerifies
<1> QED
  BY <1>1, <1>2 DEF SignedForOneUse
-----------------------------------------------------------------------------
(* Clients and their signers. *)

Clients == [of : {"client"}, env : Envs]

Loads == [of : {"signer"}, file : Files, account : {"u", "bad"}, requested : Secrets]

Rotations == [of : {"rotation"}, signers : Seq(LoneSigners)]

\* What from_env starts from.
LEMMA PresetFacts ==
    ASSUME NEW env \in Envs
    PROVE  /\ Preset(env) = [url |-> Preset(env).url, chain |-> Preset(env).chain, signer |-> NoSigner,
                             max_nonce_retries |-> "3", transport |-> "default", retry_config |-> "default"]
           /\ Preset(env).url = IF env.network = "mainnet" THEN "mainnet url"
                                ELSE IF env.network \in {"testnet", Unset} THEN "testnet url" ELSE env.network
           /\ Preset(env).chain = IF env.chain # Unset THEN env.chain
                                  ELSE IF env.network = "mainnet" THEN "mainnet"
                                  ELSE IF env.network \in {"testnet", Unset} THEN "testnet" ELSE "custom"
<1>1. CASE env.network = "mainnet"
  BY <1>1 DEF Preset, NearBuilder, Unset
<1>2. CASE env.network \in {"testnet", Unset}
  <2>1. env.network # "mainnet"
    BY <1>2 DEF Unset
  <2> QED
    BY <1>2, <2>1 DEF Preset, NearBuilder
<1>3. CASE env.network \notin {"mainnet", "testnet", Unset}
  BY <1>3 DEF Preset, NearBuilder
<1> QED
  BY <1>1, <1>2, <1>3

\* The signer from_env gives a client.
SignerFromEnv(env) == IF env.key = Unset THEN NoSigner ELSE Signer(env.account, <<env.key>>)

\* from_env with the credentials of the environment.
LEMMA SignedFacts ==
    ASSUME NEW env \in Envs, NEW b, b.signer = NoSigner, NEW c,
           c = Configure(Ok(b), [op |-> "credentials", account |-> env.account, key |-> env.key]),
           env.account # Unset, env.key # Unset
    PROVE  /\ c.ok <=> env.account # "bad" /\ env.key # "bad"
           /\ c.ok => c.value = [b EXCEPT !.signer = SignerFromEnv(env)]
<1> DEFINE o == [op |-> "credentials", account |-> env.account, key |-> env.key]
<1> DEFINE s == InMemorySigner(env.account, env.key)
<1>1. c = IF s.ok THEN Ok([b EXCEPT !.signer = s.value]) ELSE s
  <2>1. Ok(b).ok /\ Ok(b).value = b /\ o.op = "credentials" /\ o.account = env.account /\ o.key = env.key
    BY DEF Ok
  <2> HIDE DEF o
  <2> QED
    BY <2>1 DEF Configure, o
<1>2. env.account \in {"u", "bad"} /\ env.key \in {"k1", "bad"}
  BY DEF Envs
<1>3. CASE env.account = "bad"
  <2>1. s = Fail("account")
    BY <1>3 DEF InMemorySigner
  <2> QED
    BY <1>1, <1>3, <2>1, Outcomes
<1>4. CASE env.account # "bad" /\ env.key = "bad"
  <2>1. s = Fail("key")
    BY <1>4 DEF InMemorySigner, Secrets, Ed25519Keys
  <2> QED
    BY <1>1, <1>4, <2>1, Outcomes
<1>5. CASE env.account # "bad" /\ env.key = "k1"
  <2>1. s = Ok(Signer(env.account, <<env.key>>))
    BY <1>5 DEF InMemorySigner, Secrets, Ed25519Keys
  <2>2. s.ok /\ s.value = SignerFromEnv(env)
    BY <2>1, Outcomes DEF SignerFromEnv
  <2>3. c.ok /\ c.value = [b EXCEPT !.signer = SignerFromEnv(env)]
    BY <1>1, <2>2, Outcomes
  <2>4. env.key # "bad"
    BY <1>5
  <2> QED
    BY <1>5, <2>3, <2>4
<1> QED
  BY <1>2, <1>3, <1>4, <1>5

\* Near::from_env: the preset with the signer and the retry limit asked for,
\* or an error.
LEMMA FromEnvFacts ==
    ASSUME NEW env \in Envs, NEW near, near = from_env(env)
    PROVE  /\ near.ok <=> /\ env.account = Unset <=> env.key = Unset
                          /\ env.account # "bad" /\ env.key # "bad" /\ env.retries # "bad"
           /\ near.ok => \E limit : near.value = [url |-> Preset(env).url, chain |-> Preset(env).chain,
                                                  signer |-> SignerFromEnv(env), max_nonce_retries |-> limit,
                                                  transport |-> "default", retry_config |-> "default"]
<1> DEFINE o == [op |-> "credentials", account |-> env.account, key |-> env.key]
<1> DEFINE p == Preset(env)
<1> DEFINE signed == CASE env.account = Unset /\ env.key = Unset -> Ok(p)
                       [] env.account # Unset /\ env.key # Unset -> Configure(Ok(p), o)
                       [] OTHER -> Fail("config")
<1> DEFINE value(limit) == [url |-> p.url, chain |-> p.chain, signer |-> SignerFromEnv(env), max_nonce_retries |-> limit,
                            transport |-> "default", retry_config |-> "default"]
<1>1. near = CASE ~signed.ok \/ env.retries = Unset -> signed
               [] signed.ok /\ env.retries = "bad" -> Fail("config")
               [] OTHER -> Ok([signed.value EXCEPT !.max_nonce_retries = env.retries])
  BY DEF from_env
<1>2. p = [url |-> p.url, chain |-> p.chain, signer |-> NoSigner, max_nonce_retries |-> "3",
           transport |-> "default", retry_config |-> "default"]
  BY PresetFacts, Zenon
<1>3. /\ signed.ok <=> (env.account = Unset <=> env.key = Unset) /\ env.account # "bad" /\ env.key # "bad"
      /\ signed.ok => signed.value = value("3")
  <2> HIDE DEF p
  <2>1. CASE env.account = Unset /\ env.key = Unset
    <3>1. signed.ok /\ signed.value = p
      BY <2>1, Outcomes
    <3>2. SignerFromEnv(env) = NoSigner
      BY <2>1 DEF SignerFromEnv
    <3>3. env.account # "bad" /\ env.key # "bad"
      BY <2>1 DEF Unset
    <3> QED
      BY <1>2, <2>1, <3>1, <3>2, <3>3
  <2>2. CASE env.account # Unset /\ env.key # Unset
    <3>1. signed = Configure(Ok(p), o)
      BY <2>2
    <3>2. p.signer = NoSigner
      BY <1>2
    <3> HIDE DEF signed
    <3>3. /\ signed.ok <=> env.account # "bad" /\ env.key # "bad"
          /\ signed.ok => signed.value = [p EXCEPT !.signer = SignerFromEnv(env)]
      BY <2>2, <3>1, <3>2, SignedFacts, Zenon
    <3>4. [p EXCEPT !.signer = SignerFromEnv(env)] = value("3")
      BY <1>2
    <3> QED
      BY <2>2, <3>3, <3>4, Zenon
  <2>3. CASE ~(env.account = Unset <=> env.key = Unset)
    <3>1. signed = Fail("config")
      BY <2>3
    <3> QED
      BY <2>3, <3>1, Outcomes
  <2> QED
    BY <2>1, <2>2, <2>3
<1> HIDE DEF signed, p
<1>4. CASE ~signed.ok
  BY <1>1, <1>3, <1>4
<1>5. CASE signed.ok /\ env.retries = Unset
  <2>1. near = signed /\ env.retries # "bad"
    BY <1>1, <1>5 DEF Unset
  <2> QED
    BY <1>3, <1>5, <2>1 DEF p
<1>6. CASE signed.ok /\ env.retries = "bad"
  <2>1. near = Fail("config")
    BY <1>1, <1>6 DEF Unset
  <2> QED
    BY <1>3, <1>6, <2>1, Outcomes
<1>7. CASE signed.ok /\ env.retries \notin {Unset, "bad"}
  <2>1. near = Ok([signed.value EXCEPT !.max_nonce_retries = env.retries])
    BY <1>1, <1>7
  <2>2. [signed.value EXCEPT !.max_nonce_retries = env.retries] = value(env.retries)
    BY <1>3, <1>7
  <2>3. near.ok /\ near.value = value(env.retries)
    BY <2>1, <2>2, Outcomes
  <2> QED
    BY <1>3, <1>7, <2>3 DEF p
<1> QED
  BY <1>4, <1>5, <1>6, <1>7

\* The client of an environment is the one its variables describe.
LEMMA ClientsAsWritten == ASSUME input \in Clients PROVE EnvAsWritten
<1> DEFINE env == input.env
<1> DEFINE near == from_env(env)
<1> DEFINE custom == env.network \notin {Unset, "mainnet", "testnet"}
<1>1. env \in Envs
  BY DEF Clients
<1>2. /\ near.ok <=> /\ env.account = Unset <=> env.key = Unset
                     /\ env.account # "bad" /\ env.key # "bad" /\ env.retries # "bad"
      /\ near.ok => \E limit : near.value = [url |-> Preset(env).url, chain |-> Preset(env).chain,
                                             signer |-> SignerFromEnv(env), max_nonce_retries |-> limit,
                                             transport |-> "default", retry_config |-> "default"]
  BY <1>1, FromEnvFacts, Zenon
<1>3. /\ Preset(env).url = IF env.network = "mainnet" THEN "mainnet url"
                           ELSE IF env.network \in {"testnet", Unset} THEN "testnet url" ELSE env.network
      /\ Preset(env).chain = IF env.chain # Unset THEN env.chain
                             ELSE IF env.network = "mainnet" THEN "mainnet"
                             ELSE IF env.network \in {"testnet", Unset} THEN "testnet" ELSE "custom"
  BY <1>1, PresetFacts, Zenon
<1> HIDE DEF env, near
<1>4. near.ok <=> /\ env.account = Unset <=> env.key = Unset
                  /\ "bad" \notin {env.account, env.key, env.retries}
  BY <1>2
<1>5. ASSUME near.ok
      PROVE  /\ near.value.chain = IF env.chain # Unset THEN env.chain
                                   ELSE IF env.network = Unset THEN "testnet"
                                   ELSE IF custom THEN "custom" ELSE env.network
             /\ custom <=> near.value.url = env.network
             /\ near.value.signer = IF env.key = Unset THEN NoSigner ELSE Signer(env.account, <<env.key>>)
  <2>0. PICK limit : near.value = [url |-> Preset(env).url, chain |-> Preset(env).chain,
                                   signer |-> SignerFromEnv(env), max_nonce_retries |-> limit,
                                   transport |-> "default", retry_config |-> "default"]
    BY <1>2, <1>5, Zenon
  <2>1. near.value.url = Preset(env).url /\ near.value.chain = Preset(env).chain /\ near.value.signer = SignerFromEnv(env)
    BY <2>0
  <2>2. CASE env.network = "mainnet"
    BY <1>3, <2>1, <2>2 DEF Unset, SignerFromEnv
  <2>3. CASE env.network = "testnet"
    BY <1>3, <2>1, <2>3 DEF Unset, SignerFromEnv
  <2>4. CASE env.network = Unset
    BY <1>3, <2>1, <2>4 DEF Unset, SignerFromEnv
  <2>5. CASE custom
    BY <1>3, <2>1, <2>5 DEF SignerFromEnv
  <2> QED
    BY <2>2, <2>3, <2>4, <2>5
<1> QED
  BY <1>4, <1>5 DEF EnvAsWritten, env, near

\* A client of an environment.
LEMMA ClientFields ==
    ASSUME input \in Clients, from_env(input.env).ok
    PROVE  \E url, chain, signer, limit :
                from_env(input.env).value =
                    [url |-> url, chain |-> chain, signer |-> signer, max_nonce_retries |-> limit,
                     transport |-> "default", retry_config |-> "default"]
<1>1. input.env \in Envs
  BY DEF Clients
<1> QED
  BY <1>1, FromEnvFacts, Zenon

\* with_signer changes the signer alone.
LEMMA ClientsDerived == ASSUME input \in Clients PROVE DerivedClientsShareSlots
<1> DEFINE near == from_env(input.env).value
<1> SUFFICES ASSUME from_env(input.env).ok, NEW s \in LoneSigners
             PROVE  /\ [with_signer(near, s) EXCEPT !.signer = near.signer] = near
                    /\ account_id(with_signer(near, s)) = Ok(s.account)
  BY Zenon DEF DerivedClientsShareSlots
<1>1. PICK url, chain, signer, limit :
        near = [url |-> url, chain |-> chain, signer |-> signer, max_nonce_retries |-> limit,
                transport |-> "default", retry_config |-> "default"]
  BY ClientFields
<1> HIDE DEF near
<1>2. [with_signer(near, s) EXCEPT !.signer = near.signer] = near
  BY <1>1 DEF with_signer
<1>3. with_signer(near, s).signer = s
  BY <1>1 DEF with_signer
<1>4. s.account \in {"u", "v"}
  BY DEF LoneSigners, Signer
<1>5. s # NoSigner
  BY <1>4 DEF NoSigner, Unset
<1> QED
  BY <1>2, <1>3, <1>5 DEF account_id

\* A token is known on the real networks only.
LEMMA TokensKnown ==
    ASSUME NEW near, NEW token \in DOMAIN KnownTokens
    PROVE  /\ ft(near, token).ok => ft(near, token).value.contract.chain = near.chain
           /\ near.chain \notin {"mainnet", "testnet"} => ~ft(near, token).ok
<1> DEFINE c == resolve(token, near.chain)
<1>1. KnownTokens[token] \subseteq {"mainnet", "testnet"}
  BY DEF KnownTokens
<1>2. ft(near, token) = IF c.ok THEN Ok([contract |-> c.value, url |-> near.url, signer |-> near.signer,
                                         max_nonce_retries |-> near.max_nonce_retries])
                        ELSE c
  BY DEF ft
<1>3. CASE near.chain \in KnownTokens[token]
  <2>1. c = Ok([token |-> token, chain |-> near.chain])
    BY <1>3 DEF resolve
  <2>2. c.ok /\ c.value.chain = near.chain
    BY <2>1, Outcomes
  <2> HIDE DEF c
  <2>3. ft(near, token).ok /\ ft(near, token).value.contract = c.value
    BY <1>2, <2>2, Outcomes
  <2> QED
    BY <1>1, <1>3, <2>2, <2>3
<1>4. CASE near.chain \notin KnownTokens[token]
  <2>1. c = Fail("TokenNotAvailable")
    BY <1>4 DEF resolve
  <2>2. ~c.ok
    BY <2>1, Outcomes
  <2> HIDE DEF c
  <2> QED
    BY <1>2, <2>2
<1> QED
  BY <1>3, <1>4

\* Neither another network nor a sandbox is taken for one.
LEMMA ClientsTokens == ASSUME input \in Clients PROVE TokensOfTheChain
<1> DEFINE near == from_env(input.env).value
<1> DEFINE started == SandboxBuilder(input.env.account, input.env.chain)
<1> SUFFICES ASSUME NEW token \in DOMAIN KnownTokens
             PROVE  /\ ft(near, token).ok => ft(near, token).value.contract.chain = near.chain
                    /\ near.chain \notin {"mainnet", "testnet"} => ~ft(near, token).ok
                    /\ started.ok => ~ft(sandbox(started.value), token).ok
  BY Zenon DEF TokensOfTheChain
<1>1. ASSUME started.ok PROVE sandbox(started.value).chain \notin {"mainnet", "testnet"}
  <2>1. ~(input.env.account = "bad" \/ input.env.chain \in {"mainnet", "testnet"})
    BY <1>1, Outcomes DEF SandboxBuilder
  <2>2. started.value.chain = input.env.chain
    BY <2>1, Outcomes DEF SandboxBuilder
  <2> HIDE DEF started
  <2>3. sandbox(started.value).chain = IF started.value.chain = Unset THEN "sandbox" ELSE started.value.chain
    BY DEF sandbox, NearBuilder
  <2> QED
    BY <2>1, <2>2, <2>3
<1> HIDE DEF near, started
<1> QED
  BY <1>1, TokensKnown, Zenon

\* Every way to load a key of an account gives the signer of the two.
LEMMA LoadedSigners ==
    ASSUME input \in Loads, NEW s \in {FileSigner(input.file, input.account), EnvSigner(input.account, input.file.key),
                                       InMemorySigner(input.account, input.file.key),
                                       KeyringSigner(input.file, input.account, PublicOf(input.requested))},
           s.ok
    PROVE  /\ s = Ok(Signer(input.account, <<input.file.key>>))
           /\ input.account # "bad" /\ input.file.key # "bad"
<1> DEFINE f == input.file
<1> DEFINE a == input.account
<1> DEFINE m == InMemorySigner(a, f.key)
<1> DEFINE good == s = Ok(Signer(a, <<f.key>>)) /\ a # "bad" /\ f.key # "bad"
<1>1. ASSUME s = m PROVE good
  <2>1. CASE a = "bad"
    <3>1. m = Fail("account")
      BY <2>1 DEF InMemorySigner
    <3> QED
      BY <1>1, <3>1, Outcomes
  <2>2. CASE a # "bad" /\ f.key \notin Secrets
    <3>1. m = Fail("key")
      BY <2>2 DEF InMemorySigner
    <3> QED
      BY <1>1, <3>1, Outcomes
  <2>3. CASE a # "bad" /\ f.key \in Secrets
    <3>1. m = Ok(Signer(a, <<f.key>>))
      BY <2>3 DEF InMemorySigner
    <3>2. f.key # "bad"
      BY <2>3 DEF Secrets, Ed25519Keys
    <3> QED
      BY <1>1, <2>3, <3>1, <3>2
  <2> QED
    BY <2>1, <2>2, <2>3
<1>2. ASSUME s = FileSigner(f, a) PROVE good
  <2> DEFINE one == Cardinality(f.fields \cap {"private_key", "secret_key"}) # 1
  <2>0. FileSigner(f, a) = CASE a = "bad" -> Fail("account")
                             [] a # "bad" /\ ~f.readable -> Fail("config")
                             [] a # "bad" /\ f.readable /\ one -> Fail("config")
                             [] OTHER -> m
    BY DEF FileSigner
  <2> HIDE DEF one, m, f, a
  <2>1. s \in {Fail("account"), Fail("config"), m}
    BY <1>2, <2>0
  <2>2. s = m
    BY <2>1, Outcomes
  <2> QED
    BY <1>1, <2>2
<1>3. ASSUME s = EnvSigner(a, f.key) PROVE good
  <2>1. s \in {Fail("config"), m}
    BY <1>3 DEF EnvSigner
  <2>2. s = m
    BY <2>1, Outcomes
  <2> QED
    BY <1>1, <2>2
<1>4. ASSUME s = KeyringSigner(f, a, PublicOf(input.requested)) PROVE good
  <2>1. CASE a = "bad"
    <3>1. s = Fail("account")
      BY <1>4, <2>1 DEF KeyringSigner
    <3> QED
      BY <3>1, Outcomes
  <2>2. CASE a # "bad" /\ ~ReadEntry(f).ok
    <3>1. s = ReadEntry(f)
      BY <1>4, <2>2 DEF KeyringSigner
    <3> QED
      BY <2>2, <3>1
  <2>3. CASE a # "bad" /\ ReadEntry(f).ok
    <3>1. s = IF PublicOf(f.key) = PublicOf(input.requested) THEN Ok(Signer(a, <<f.key>>)) ELSE Fail("key store")
      BY <1>4, <2>3 DEF KeyringSigner
    <3>2. s = Ok(Signer(a, <<f.key>>))
      BY <3>1, Outcomes
    <3>3. f.key \in Secrets
      BY <2>3, Outcomes DEF ReadEntry
    <3>4. f.key # "bad"
      BY <3>3 DEF Secrets, Ed25519Keys
    <3> QED
      BY <2>3, <3>2, <3>4
  <2> QED
    BY <2>1, <2>2, <2>3
<1> QED
  BY <1>1, <1>2, <1>3, <1>4

\* So they agree.
LEMMA LoadsAgree == ASSUME input \in Loads PROVE SourcesAgree
<1> DEFINE f == input.file
<1> DEFINE all == {FileSigner(f, input.account), EnvSigner(input.account, f.key), InMemorySigner(input.account, f.key),
                   KeyringSigner(f, input.account, PublicOf(input.requested))}
<1> DEFINE loaded == {s \in all : s.ok}
<1> DEFINE one == Ok(Signer(input.account, <<f.key>>))
<1>1. ASSUME NEW s \in loaded PROVE s = one /\ input.account # "bad" /\ f.key # "bad"
  BY LoadedSigners, Zenon
<1> HIDE DEF all, one, f
<1>2. loaded \subseteq {one}
  BY <1>1
<1>3. Cardinality({one}) = 1 /\ IsFiniteSet({one})
  BY FS_Singleton, Zenon
<1>4. IsFiniteSet(loaded) /\ Cardinality(loaded) <= 1
  BY <1>2, <1>3, FS_Subset
<1>5. f.key = "bad" \/ input.account = "bad" => loaded = {}
  BY <1>1
<1> QED
  BY <1>4, <1>5 DEF SourcesAgree, f, all

\* And the keyring's key is the requested one.
LEMMA LoadsRequested == ASSUME input \in Loads PROVE KeyringKeyIsRequested
<1> DEFINE s == KeyringSigner(input.file, input.account, PublicOf(input.requested))
<1> SUFFICES ASSUME s.ok PROVE s.value.keys = <<input.requested>>
  BY DEF KeyringKeyIsRequested
<1>1. CASE input.account = "bad"
  <2>1. s = Fail("account")
    BY <1>1 DEF KeyringSigner
  <2> QED
    BY <2>1, Outcomes
<1>2. CASE input.account # "bad" /\ ~ReadEntry(input.file).ok
  <2>1. s = ReadEntry(input.file)
    BY <1>2 DEF KeyringSigner
  <2> QED
    BY <1>2, <2>1
<1>3. CASE input.account # "bad" /\ ReadEntry(input.file).ok
  <2>1. s = IF PublicOf(input.file.key) = PublicOf(input.requested)
            THEN Ok(Signer(input.account, <<input.file.key>>)) ELSE Fail("key store")
    BY <1>3 DEF KeyringSigner
  <2>2. PublicOf(input.file.key) = PublicOf(input.requested) /\ s = Ok(Signer(input.account, <<input.file.key>>))
    BY <2>1, Outcomes
  <2>3. input.file.key = input.requested
    BY <2>2 DEF PublicOf
  <2>4. s.value.keys = <<input.file.key>>
    BY <2>2, Outcomes DEF Signer
  <2> QED
    BY <2>3, <2>4
<1> QED
  BY <1>1, <1>2, <1>3

\* A rotation is its signers, in order.
LEMMA RotationsWhole == ASSUME input \in Rotations PROVE RotationOfOneAccount
<1> DEFINE signers == input.signers
<1> DEFINE r == from_signers(signers)
<1> SUFFICES ASSUME r.ok PROVE into_per_key_signers(r.value) = signers
  BY DEF RotationOfOneAccount
<1>1. signers \in Seq(LoneSigners)
  BY DEF Rotations
<1> HIDE DEF signers
<1>2. /\ \A i \in DOMAIN signers : signers[i].account = signers[1].account
      /\ r = Ok(Signer(signers[1].account, [i \in DOMAIN signers |-> signers[i].keys[1]]))
  <2>1. CASE signers = <<>> \/ \E i \in DOMAIN signers : signers[i].account # signers[1].account
    <3>1. r = Fail("config")
      BY <2>1 DEF from_signers
    <3> QED
      BY <3>1, Outcomes
  <2> QED
    BY <2>1 DEF from_signers
<1>3. r.value = Signer(signers[1].account, [i \in DOMAIN signers |-> signers[i].keys[1]])
  BY <1>2, Outcomes
<1> HIDE DEF r
<1>4. into_per_key_signers(r.value) = [i \in DOMAIN signers |-> Signer(signers[1].account, <<signers[i].keys[1]>>)]
  BY <1>3 DEF into_per_key_signers, Signer
<1>5. ASSUME NEW i \in DOMAIN signers PROVE Signer(signers[1].account, <<signers[i].keys[1]>>) = signers[i]
  <2>1. signers[i] \in LoneSigners /\ signers[i].account = signers[1].account
    BY <1>1, <1>2
  <2>2. signers[i] = [account |-> signers[i].account, keys |-> signers[i].keys] /\ signers[i].keys \in {<<k>> : k \in Secrets}
    BY <2>1 DEF LoneSigners
  <2>3. signers[i].keys = <<signers[i].keys[1]>>
    BY <2>2
  <2> QED
    BY <2>1, <2>2, <2>3 DEF Signer
<1>6. signers = [i \in DOMAIN signers |-> signers[i]]
  BY <1>1
<1> QED
  BY <1>4, <1>5, <1>6

\* A client is what was asked for.
LEMMA ClientsConfigured ==
    ASSUME Given("client") => input \in Clients, Given("signer") => input \in Loads,
           Given("rotation") => input \in Rotations
    PROVE  ConfiguredAsAsked
<1>1. EnvAsWritten
  BY ClientsAsWritten DEF EnvAsWritten
<1>2. DerivedClientsShareSlots
  BY ClientsDerived DEF DerivedClientsShareSlots
<1>3. TokensOfTheChain
  BY ClientsTokens DEF TokensOfTheChain
<1>4. KeyringKeyIsRequested
  BY LoadsRequested DEF KeyringKeyIsRequested
<1>5. SourcesAgree
  BY LoadsAgree DEF SourcesAgree
<1>6. RotationOfOneAccount
  BY RotationsWhole DEF RotationOfOneAccount
<1> QED
  BY <1>1, <1>2, <1>3, <1>4, <1>5, <1>6 DEF ConfiguredAsAsked
-----------------------------------------------------------------------------
(* Traits turned into clients. *)

Items == [kind : {"fn", "type"}, name : Nat, receiver : {"none", "self", "&self", "&mut self"},
          call : {"absent", "plain", "payable", "other"}, formats : SUBSET {"json", "borsh"},
          args : {<<>>, <<"named">>, <<"pattern">>, <<"named", "named">>}, default : BOOLEAN]

Traits == [of : {"trait"}, attr : {"absent", "json", "borsh", "other"},
           trait : [feature : {"plain", "unsafe", "generic"}, items : Seq(Items)]]

\* The options of #[call].
LEMMA CallOptions ==
    ASSUME NEW m \in Items, ~CallArgs(m.call).ok
    PROVE  m.call \notin {"absent", "plain", "payable"}
BY Outcomes DEF CallArgs

\* A method that is parsed takes self by reference and keeps its name and its
\* argument.
LEMMA ParsedFacts ==
    ASSUME NEW m \in Items, parse_method(m).ok
    PROVE  /\ m.receiver \in {"&self", "&mut self"}
           /\ parse_method(m).value.name = m.name
           /\ parse_method(m).value.is_view <=> m.receiver = "&self"
           /\ m.args = <<"named">> => parse_method(m).value.arg_name
<1> DEFINE view == m.receiver = "&self"
<1> DEFINE call == m.call # "absent"
<1> DEFINE parsed == [name |-> m.name, is_view |-> view, format_override |-> FormatOverride(m.formats),
                      arg_name |-> m.args # <<>> /\ m.args[1] = "named"]
<1>0. parse_method(m) =
        CASE m.receiver \notin {"&self", "&mut self"} -> Fail("receiver")
          [] m.receiver \in {"&self", "&mut self"} /\ ~CallArgs(m.call).ok -> CallArgs(m.call)
          [] view /\ call /\ CallArgs(m.call).ok -> Fail("view methods should not have #[call]")
          [] m.receiver = "&mut self" /\ ~call -> Fail("call methods must have #[call]")
          [] OTHER -> IF Len(m.args) > 1 THEN Fail("at most one argument") ELSE Ok(parsed)
  BY DEF parse_method
<1>1. CASE m.receiver \notin {"&self", "&mut self"}
  <2>1. parse_method(m) = Fail("receiver")
    BY <1>0, <1>1
  <2> QED
    BY <2>1, Outcomes
<1>2. CASE m.receiver \in {"&self", "&mut self"} /\ ~CallArgs(m.call).ok
  <2>0. m.call # "absent"
    BY <1>2, CallOptions
  <2>1. parse_method(m) = CallArgs(m.call)
    BY <1>0, <1>2, <2>0
  <2> QED
    BY <1>2, <2>1
<1>3. CASE m.receiver = "&self" /\ call /\ CallArgs(m.call).ok
  <2>1. parse_method(m) = Fail("view methods should not have #[call]")
    BY <1>0, <1>3
  <2> QED
    BY <2>1, Outcomes
<1>4. CASE m.receiver = "&mut self" /\ ~call
  <2>0. CallArgs(m.call).ok
    BY <1>4, CallOptions
  <2>1. parse_method(m) = Fail("call methods must have #[call]")
    BY <1>0, <1>4, <2>0
  <2> QED
    BY <2>1, Outcomes
<1>5. CASE m.receiver \in {"&self", "&mut self"} /\ CallArgs(m.call).ok /\ ~(view /\ call)
           /\ ~(m.receiver = "&mut self" /\ ~call)
  <2>1. parse_method(m) = IF Len(m.args) > 1 THEN Fail("at most one argument") ELSE Ok(parsed)
    BY <1>0, <1>5
  <2>2. parse_method(m) = Ok(parsed)
    BY <2>1, Outcomes
  <2>3. parse_method(m).value = parsed
    BY <2>2, Outcomes
  <2>4. parsed.name = m.name
    OBVIOUS
  <2>6. parsed.is_view = (m.receiver = "&self")
    BY Zenon
  <2>5. m.args = <<"named">> => parsed.arg_name
    <3>1. parsed.arg_name = (m.args # <<>> /\ m.args[1] = "named")
      BY Zenon
    <3>2. m.args = <<"named">> => m.args # <<>> /\ m.args[1] = "named"
      OBVIOUS
    <3> QED
      BY <3>1, <3>2, Zenon
  <2> QED
    BY <1>5, <2>3, <2>4, <2>5, <2>6, Zenon
<1> QED
  BY <1>1, <1>2, <1>3, <1>4, <1>5


\* A generated method.
LEMMA PayloadFacts ==
    ASSUME NEW m, NEW format
    PROVE  /\ Payload(m, format).format = format
           /\ m.arg_name => Payload(m, format).args = "argument"
<1>1. CASE m.arg_name
  BY <1>1 DEF Payload
<1>2. CASE ~m.arg_name
  BY <1>2 DEF Payload
<1> QED
  BY <1>1, <1>2

\* What is generated from the parsed methods of a trait.
Generated(t, format, value) ==
    LET method(i) == parse_method(t.items[i]).value
        client(m) == IF m.is_view THEN generate_view_method(m, format) ELSE generate_call_method(m, format)
    IN  /\ \A i \in DOMAIN t.items : parse_method(t.items[i]).ok
        /\ value.client = [i \in DOMAIN t.items |-> client(method(i))]
        /\ value.calls = [i \in {j \in DOMAIN t.items : ~method(j).is_view} |->
                             generate_function_call_method(method(i), format)]

\* It is generated for a trait that is accepted.
LEMMA AcceptedTrait ==
    ASSUME NEW t, t.items \in Seq(Items), NEW format, contract_impl(format, t).ok
    PROVE  Generated(t, format, contract_impl(format, t).value)
<1> DEFINE method(i) == CASE t.items[i].kind # "fn" -> Fail("only methods")
                          [] t.items[i].kind = "fn" /\ t.items[i].default -> Fail("no default implementations")
                          [] OTHER -> parse_method(t.items[i])
<1> DEFINE client(m) == IF m.is_view THEN generate_view_method(m, format) ELSE generate_call_method(m, format)
<1> DEFINE methods == [i \in DOMAIN t.items |-> method(i).value]
<1> DEFINE oks == [i \in DOMAIN t.items |-> method(i).ok]
<1> DEFINE first == SelectInSeq(oks, LAMBDA parsed : ~parsed)
<1> DEFINE generated == Ok([client |-> [i \in DOMAIN methods |-> client(methods[i])],
                         calls |-> [i \in {j \in DOMAIN methods : ~methods[j].is_view} |->
                                      generate_function_call_method(methods[i], format)]])
<1>1. contract_impl(format, t) =
        CASE t.feature # "plain" -> Fail("unsupported feature")
          [] t.feature = "plain" /\ \E i \in DOMAIN t.items : ~method(i).ok -> method(first)
          [] OTHER -> generated
  BY Zenon DEF contract_impl
<1>2. ASSUME NEW i \in DOMAIN t.items, method(i).ok PROVE method(i) = parse_method(t.items[i])
  <2>1. CASE t.items[i].kind # "fn"
    <3>1. method(i) = Fail("only methods")
      BY <2>1
    <3> QED
      BY <1>2, <3>1, Outcomes
  <2>2. CASE t.items[i].kind = "fn" /\ t.items[i].default
    <3>1. method(i) = Fail("no default implementations")
      BY <2>2
    <3> QED
      BY <1>2, <3>1, Outcomes
  <2>3. CASE t.items[i].kind = "fn" /\ ~t.items[i].default
    BY <2>3
  <2> QED
    BY <2>1, <2>2, <2>3
<1> HIDE DEF method
<1>3. ASSUME \E i \in DOMAIN t.items : ~method(i).ok PROVE ~method(first).ok
  <2> DEFINE n == Len(t.items)
  <2> DEFINE S == {method(i).ok : i \in DOMAIN t.items}
  <2>1. n \in Nat /\ DOMAIN t.items = 1 .. n
    OBVIOUS
  <2> HIDE DEF n
  <2>2. oks \in [1 .. n -> S]
    BY <2>1
  <2>3. oks \in Seq(S) /\ Len(oks) = n
    <3> HIDE DEF oks, S
    <3> QED
      BY <2>1, <2>2
  <2> DEFINE I == {i \in 1 .. Len(oks) : ~oks[i]}
  <2>4. I = {i \in DOMAIN t.items : ~method(i).ok}
    BY <2>1, <2>3
  <2>5. I # {} /\ I \subseteq Nat
    BY <1>3, <2>1, <2>4
  <2>6. first = Min(I)
    BY <2>5, Zenon DEF SelectInSeq
  <2> HIDE DEF I, oks
  <2>7. \E x \in I : \A y \in I : x <= y
    BY <2>5, LeastNat, Zenon
  <2>8. Min(I) \in I
    BY <2>7, Zenon DEF Min
  <2> HIDE DEF first
  <2> QED
    BY <2>4, <2>6, <2>8
<1> HIDE DEF oks, first
<1>4. contract_impl(format, t) = generated /\ \A i \in DOMAIN t.items : method(i).ok
  <2> HIDE DEF generated
  <2>1. CASE t.feature # "plain"
    <3>1. contract_impl(format, t) = Fail("unsupported feature")
      BY <1>1, <2>1
    <3> QED
      BY <3>1, Outcomes
  <2>2. CASE t.feature = "plain" /\ \E i \in DOMAIN t.items : ~method(i).ok
    <3>1. contract_impl(format, t) = method(first)
      BY <1>1, <2>2, Zenon
    <3> QED
      BY <1>3, <2>2, <3>1
  <2>3. CASE t.feature = "plain" /\ ~\E i \in DOMAIN t.items : ~method(i).ok
    BY <1>1, <2>3, Zenon
  <2> QED
    BY <2>1, <2>2, <2>3
<1>5. \A i \in DOMAIN t.items : method(i) = parse_method(t.items[i]) /\ parse_method(t.items[i]).ok
  BY <1>2, <1>4
<1>6. methods = [i \in DOMAIN t.items |-> parse_method(t.items[i]).value]
  BY <1>5
<1>7. contract_impl(format, t).value = [client |-> [i \in DOMAIN methods |-> client(methods[i])],
                                        calls |-> [i \in {j \in DOMAIN methods : ~methods[j].is_view} |->
                                                     generate_function_call_method(methods[i], format)]]
  BY <1>4, Outcomes, Zenon
<1> DEFINE parsed(i) == parse_method(t.items[i]).value
<1>8. DOMAIN methods = DOMAIN t.items /\ \A i \in DOMAIN t.items : methods[i] = parsed(i)
  BY <1>6
<1> HIDE DEF methods, client, parsed
<1>9. [i \in DOMAIN methods |-> client(methods[i])] = [i \in DOMAIN t.items |-> client(parsed(i))]
  BY <1>8
<1>10. {j \in DOMAIN methods : ~methods[j].is_view} = {j \in DOMAIN t.items : ~parsed(j).is_view}
  BY <1>8
<1>11. [i \in {j \in DOMAIN methods : ~methods[j].is_view} |-> generate_function_call_method(methods[i], format)]
         = [i \in {j \in DOMAIN t.items : ~parsed(j).is_view} |-> generate_function_call_method(parsed(i), format)]
  BY <1>8, <1>10
<1>12. /\ contract_impl(format, t).value.client = [i \in DOMAIN t.items |-> client(parsed(i))]
       /\ contract_impl(format, t).value.calls =
            [i \in {j \in DOMAIN t.items : ~parsed(j).is_view} |-> generate_function_call_method(parsed(i), format)]
  BY <1>7, <1>9, <1>11
<1> QED
  BY <1>5, <1>12, Zenon DEF Generated, parsed, client

\* What is generated for each method of a trait.
AsDeclared(t, value) ==
    /\ DOMAIN value.client = DOMAIN t.items
    /\ DOMAIN value.calls = {i \in DOMAIN t.items : t.items[i].receiver = "&mut self"}
    /\ \A i \in DOMAIN t.items :
         /\ value.client[i].name = t.items[i].name
         /\ t.items[i].receiver = "&mut self" =>
              /\ value.client[i].makes = "CallBuilder"
              /\ value.calls[i].name = value.client[i].name
              /\ value.calls[i].sends = value.client[i].sends
         /\ t.items[i].receiver # "&mut self" =>
              /\ value.client[i].makes = "ViewCall"
              /\ value.client[i].reads = value.client[i].sends.format
         /\ t.items[i].args = <<"named">> => value.client[i].sends.args = "argument"

\* The methods of an accepted trait are generated so.
LEMMA GeneratedMethods ==
    ASSUME NEW t, t.items \in Seq(Items), NEW attr, contract(attr, t).ok
    PROVE  AsDeclared(t, contract(attr, t).value)
<1> DEFINE format == ContractArgs(attr).value
<1> DEFINE value == contract_impl(format, t).value
<1> DEFINE method(i) == parse_method(t.items[i]).value
<1> DEFINE client(m) == IF m.is_view THEN generate_view_method(m, format) ELSE generate_call_method(m, format)
<1>0. contract(attr, t) = IF ContractArgs(attr).ok THEN contract_impl(format, t) ELSE ContractArgs(attr)
  BY DEF contract
<1>1. contract(attr, t) = contract_impl(format, t)
  BY <1>0, Zenon
<1> HIDE DEF format
<1>ok. contract_impl(format, t).ok
  BY <1>1
<1>2. /\ \A i \in DOMAIN t.items : parse_method(t.items[i]).ok
      /\ value.client = [i \in DOMAIN t.items |-> client(method(i))]
      /\ value.calls = [i \in {j \in DOMAIN t.items : ~method(j).is_view} |->
                            generate_function_call_method(method(i), format)]
  <2>1. Generated(t, format, contract_impl(format, t).value)
    BY <1>ok, AcceptedTrait, Zenon
  <2> QED
    BY <2>1, Zenon DEF Generated
<1>3. ASSUME NEW i \in DOMAIN t.items
      PROVE  /\ t.items[i].receiver \in {"&self", "&mut self"}
             /\ method(i).name = t.items[i].name
             /\ method(i).is_view <=> t.items[i].receiver = "&self"
             /\ t.items[i].args = <<"named">> => method(i).arg_name
  <2>1. t.items[i] \in Items
    OBVIOUS
  <2> QED
    BY <1>2, <2>1, ParsedFacts, Zenon
<1> HIDE DEF method, value
<1>4. DOMAIN value.client = DOMAIN t.items
  BY <1>2
<1>5. DOMAIN value.calls = {i \in DOMAIN t.items : t.items[i].receiver = "&mut self"}
  <2>1. DOMAIN value.calls = {i \in DOMAIN t.items : ~method(i).is_view}
    BY <1>2
  <2>2. ASSUME NEW i \in DOMAIN t.items PROVE ~method(i).is_view <=> t.items[i].receiver = "&mut self"
    BY <1>3
  <2> QED
    BY <2>1, <2>2
<1>6. ASSUME NEW i \in DOMAIN t.items
      PROVE  /\ value.client[i].name = t.items[i].name
             /\ t.items[i].receiver = "&mut self" =>
                  /\ value.client[i].makes = "CallBuilder"
                  /\ value.calls[i].name = value.client[i].name
                  /\ value.calls[i].sends = value.client[i].sends
             /\ t.items[i].receiver # "&mut self" =>
                  /\ value.client[i].makes = "ViewCall"
                  /\ value.client[i].reads = value.client[i].sends.format
             /\ t.items[i].args = <<"named">> => value.client[i].sends.args = "argument"
  <2> DEFINE m == method(i)
  <2> DEFINE f == Format(m, format)
  <2>0. m.name = t.items[i].name /\ (t.items[i].args = <<"named">> => m.arg_name)
    BY <1>3
  <2>1. Payload(m, f).format = f /\ (m.arg_name => Payload(m, f).args = "argument")
    BY PayloadFacts, Zenon
  <2>2. CASE t.items[i].receiver = "&self"
    <3>1. m.is_view
      BY <1>3, <2>2
    <3>2. value.client[i] = generate_view_method(m, format)
      BY <1>2, <3>1
    <3> HIDE DEF m
    <3>3. /\ value.client[i].name = m.name /\ value.client[i].makes = "ViewCall"
          /\ value.client[i].sends = Payload(m, f) /\ value.client[i].reads = f
      BY <3>2 DEF generate_view_method
    <3> QED
      BY <2>0, <2>1, <2>2, <3>3
  <2>3. CASE t.items[i].receiver = "&mut self"
    <3>1. ~m.is_view
      BY <1>3, <2>3
    <3>2. value.client[i] = generate_call_method(m, format)
      BY <1>2, <3>1
    <3>3. value.calls[i] = generate_function_call_method(m, format)
      BY <1>2, <3>1
    <3> HIDE DEF m
    <3>4. /\ value.client[i].name = m.name /\ value.client[i].makes = "CallBuilder"
          /\ value.client[i].sends = Payload(m, f)
      BY <3>2 DEF generate_call_method
    <3>5. value.calls[i].name = m.name /\ value.calls[i].sends = Payload(m, f)
      BY <3>3 DEF generate_function_call_method
    <3> QED
      BY <2>0, <2>1, <2>3, <3>4, <3>5
  <2> QED
    BY <1>3, <2>2, <2>3
<1>7. AsDeclared(t, value)
  BY <1>4, <1>5, <1>6, Zenon DEF AsDeclared
<1> QED
  BY <1>1, <1>7 DEF value

\* A trait's client and its FunctionCalls do what the trait declares.
LEMMA TraitsGenerated == ASSUME Given("trait") => input \in Traits PROVE GeneratedAsDeclared
<1> DEFINE t == input.trait
<1> DEFINE g == contract(input.attr, t)
<1>1. ASSUME Given("trait"), g.ok PROVE AsDeclared(t, g.value)
  <2>1. t.items \in Seq(Items)
    BY <1>1 DEF Traits
  <2> QED
    BY <1>1, <2>1, GeneratedMethods, Zenon
<1> HIDE DEF g
<1>2. ASSUME Given("trait"), g.ok
      PROVE  /\ \A i \in DOMAIN g.value.calls :
                    \E j \in DOMAIN g.value.client :
                        /\ g.value.client[j].name = g.value.calls[i].name
                        /\ g.value.client[j].makes = "CallBuilder"
                        /\ g.value.client[j].sends = g.value.calls[i].sends
             /\ \A j \in DOMAIN g.value.client :
                    g.value.client[j].makes = "ViewCall" => g.value.client[j].reads = g.value.client[j].sends.format
  <2>1. ASSUME NEW i \in DOMAIN g.value.calls
        PROVE  \E j \in DOMAIN g.value.client :
                   /\ g.value.client[j].name = g.value.calls[i].name
                   /\ g.value.client[j].makes = "CallBuilder"
                   /\ g.value.client[j].sends = g.value.calls[i].sends
    <3>1. i \in DOMAIN g.value.client /\ i \in DOMAIN t.items /\ t.items[i].receiver = "&mut self"
      BY <1>1, <1>2 DEF AsDeclared
    <3> QED
      BY <1>1, <1>2, <3>1 DEF AsDeclared
  <2>2. ASSUME NEW j \in DOMAIN g.value.client, g.value.client[j].makes = "ViewCall"
        PROVE  g.value.client[j].reads = g.value.client[j].sends.format
    BY <1>1, <1>2, <2>2 DEF AsDeclared
  <2> QED
    BY <2>1, <2>2
<1>3. PayloadsAgree
  BY <1>2, Zenon DEF PayloadsAgree, g
<1>4. ASSUME Given("trait"), g.ok
      PROVE  /\ DOMAIN g.value.client = DOMAIN t.items
             /\ \A i \in DOMAIN t.items :
                  /\ g.value.client[i].name = t.items[i].name
                  /\ g.value.client[i].makes = "CallBuilder" <=> t.items[i].receiver = "&mut self"
                  /\ i \in DOMAIN g.value.calls <=> t.items[i].receiver = "&mut self"
                  /\ t.items[i].args = <<"named">> => g.value.client[i].sends.args = "argument"
  <2>1. ASSUME NEW i \in DOMAIN t.items
        PROVE  /\ g.value.client[i].makes = "CallBuilder" <=> t.items[i].receiver = "&mut self"
               /\ i \in DOMAIN g.value.calls <=> t.items[i].receiver = "&mut self"
    BY <1>1, <1>4 DEF AsDeclared
  <2> QED
    BY <1>1, <1>4, <2>1, Zenon DEF AsDeclared
<1>5. ReceiverDecides
  BY <1>4, Zenon DEF ReceiverDecides, g
<1> QED
  BY <1>3, <1>5 DEF GeneratedAsDeclared
-----------------------------------------------------------------------------
(* Queries. *)

Questions == [of : {"query"}, answer : Answers]

BlockQuestions == [of : {"block"}, refs : Seq(Refs)]

StatusTriples == [of : {"status"}, s : ExecutionStatuses, t : ExecutionStatuses, u : ExecutionStatuses]

\* The causes behind the errors that stand for absence.
LEMMA AbsentCauses ==
    ASSUME NEW c \in DOMAIN CauseVariant
    PROVE  /\ CauseVariant[c] # "Ok"
           /\ CauseVariant[c] = "AccountNotFound" => c = "UNKNOWN_ACCOUNT"
           /\ CauseVariant[c] = "ContractNotDeployed" => c = "NO_CONTRACT_CODE"
           /\ CauseVariant[c] = "GlobalContractNotFound" => c = "NO_GLOBAL_CONTRACT_CODE"
           /\ c \notin {"CONTRACT_EXECUTION_ERROR", "INVALID_TRANSACTION"}
BY DEF CauseVariant

\* What a place of a contract error says.
LEMMA ClassifyFacts ==
    ASSUME NEW p
    PROVE  /\ classify(p) \in {"ContractNotDeployed", "MethodNotFound", "ContractPanic", Nothing}
           /\ classify(p) = "ContractNotDeployed" => p.kind = "CodeDoesNotExist"
<1>1. CASE p.kind \in DOMAIN CallErrorVariant
  <2>1. classify(p) = CallErrorVariant[p.kind]
    BY <1>1 DEF classify
  <2>2. p.kind \in {"CodeDoesNotExist", "MethodNotFound", "GuestPanic", "PanicText"}
    BY <1>1 DEF CallErrorVariant
  <2> QED
    BY <2>1, <2>2 DEF CallErrorVariant
<1>2. CASE p.kind \notin DOMAIN CallErrorVariant
  BY <1>2 DEF classify, Nothing
<1> QED
  BY <1>1, <1>2

\* What a contract error becomes.
LEMMA ContractErrors ==
    ASSUME NEW b
    PROVE  /\ contract_error(b).variant \in {"ContractNotDeployed", "MethodNotFound", "ContractPanic", "ContractExecution"}
           /\ contract_error(b).variant = "ContractNotDeployed" =>
                \E place \in {b.vm_error, b.error, b.data} : place.kind = "CodeDoesNotExist"
<1> DEFINE p == parse_function_call_error(b)
<1> DEFINE e == contract_error(b)
<1>1. p \in {b.vm_error, b.error, Absent}
  BY DEF parse_function_call_error
<1>2. Absent.kind # "CodeDoesNotExist"
  BY DEF Absent, Nothing
<1>3. \/ e = Err(classify(p)) /\ classify(p) # Nothing
      \/ e = Err(classify(b.data)) /\ classify(b.data) # Nothing
      \/ e = Err(classify(b.vm_error)) /\ classify(b.vm_error) # Nothing
      \/ e = Err("ContractExecution")
  BY DEF contract_error, IsLegacy
<1>4. ASSUME NEW v PROVE Err(v).variant = v
  BY DEF Err
<1> HIDE DEF p, e
<1>5. ASSUME NEW q \in {p, b.data, b.vm_error}, e = Err(classify(q)), classify(q) # Nothing
      PROVE  /\ e.variant \in {"ContractNotDeployed", "MethodNotFound", "ContractPanic", "ContractExecution"}
             /\ e.variant = "ContractNotDeployed" =>
                  \E place \in {b.vm_error, b.error, b.data} : place.kind = "CodeDoesNotExist"
  <2>1. e.variant = classify(q)
    BY <1>4, <1>5
  <2>2. /\ classify(q) \in {"ContractNotDeployed", "MethodNotFound", "ContractPanic", Nothing}
        /\ classify(q) = "ContractNotDeployed" => q.kind = "CodeDoesNotExist"
    BY ClassifyFacts, Zenon
  <2>3. q \in {b.vm_error, b.error, b.data, Absent}
    BY <1>1
  <2> QED
    BY <1>2, <1>5, <2>1, <2>2, <2>3
<1>6. ASSUME e = Err("ContractExecution")
      PROVE  e.variant = "ContractExecution" /\ e.variant # "ContractNotDeployed"
  <2>1. e.variant = "ContractExecution"
    BY <1>4, <1>6
  <2> QED
    BY <2>1
<1>7. /\ e.variant \in {"ContractNotDeployed", "MethodNotFound", "ContractPanic", "ContractExecution"}
      /\ e.variant = "ContractNotDeployed" =>
           \E place \in {b.vm_error, b.error, b.data} : place.kind = "CodeDoesNotExist"
  BY <1>3, <1>5, <1>6
<1> QED
  BY <1>7 DEF e

\* parse_rpc_error, arm by arm.
LEMMA ParsedErrors ==
    ASSUME NEW b
    PROVE  \/ b.cause = "CONTRACT_EXECUTION_ERROR" /\ parse_rpc_error(b) = contract_error(b)
           \/ b.cause = "INVALID_TRANSACTION" /\ parse_rpc_error(b).variant \in {"InvalidTransaction", "InvalidTx"}
           \/ b.cause \in DOMAIN CauseVariant /\ parse_rpc_error(b).variant = CauseVariant[b.cause]
           \/ parse_rpc_error(b).variant = "AccountNotFound" /\ b.missing
           \/ parse_rpc_error(b).variant = "Rpc"
<1> DEFINE named == b.cause \in DOMAIN CauseVariant /\ (b.cause \in NeedsInfo => b.info)
<1>0. "CONTRACT_EXECUTION_ERROR" \notin DOMAIN CauseVariant /\ "INVALID_TRANSACTION" \notin DOMAIN CauseVariant
  BY AbsentCauses
<1>1. CASE b.cause = "CONTRACT_EXECUTION_ERROR"
  BY <1>0, <1>1 DEF parse_rpc_error
<1>2. CASE b.cause = "INVALID_TRANSACTION"
  <2>1. parse_rpc_error(b) = IF b.tx = "Unparsed" THEN Err("InvalidTransaction") ELSE InvalidTx(b.tx)
    BY <1>0, <1>2 DEF parse_rpc_error
  <2> QED
    BY <1>2, <2>1 DEF Err, InvalidTx
<1>3. CASE named
  <2>1. parse_rpc_error(b) = Err(CauseVariant[b.cause])
    BY <1>0, <1>3 DEF parse_rpc_error
  <2> QED
    BY <1>3, <2>1 DEF Err
<1>4. CASE b.cause \notin {"CONTRACT_EXECUTION_ERROR", "INVALID_TRANSACTION"} /\ ~named
  <2>1. parse_rpc_error(b) = fallback(b)
    BY <1>4 DEF parse_rpc_error
  <2> QED
    BY <2>1 DEF fallback, Err, Rpc
<1> QED
  BY <1>1, <1>2, <1>3, <1>4

\* The error in the result of a query.
LEMMA EmbeddedErrors ==
    ASSUME NEW b
    PROVE  embedded_error(b).variant = IF b.form = "query_missing" THEN "AccountNotFound" ELSE "Rpc"
<1>1. ASSUME NEW n
      PROVE  fallback(PlainError(n, Nothing, TRUE, b.form = "query_missing")).variant =
                 IF b.form = "query_missing" THEN "AccountNotFound" ELSE "Rpc"
  <2> DEFINE q == PlainError(n, Nothing, TRUE, b.form = "query_missing")
  <2>1. q.missing = (b.form = "query_missing")
    BY Zenon DEF PlainError, ErrorBody
  <2> HIDE DEF q
  <2>2. fallback(q).variant = IF q.missing THEN "AccountNotFound" ELSE "Rpc"
    BY DEF fallback, Err, Rpc
  <2> QED
    BY <2>1, <2>2 DEF q
<1> DEFINE n == -32600
<1>2. embedded_error(b) = fallback(PlainError(n, Nothing, TRUE, b.form = "query_missing"))
  BY DEF embedded_error
<1> HIDE DEF n
<1> QED
  BY <1>1, <1>2, Zenon

\* What try_call makes of an answer of the node.
Tried(method, a, e) ==
    \/ e.variant \in {"Http", "Network", "Json", "InvalidResponse", "Rpc"}
    \/ /\ "body" \in DOMAIN a
       /\ \/ a.body.form = "error" /\ e = parse_rpc_error(a.body)
          \/ a.body.form = "decodes" /\ a.status \in 200 .. 299 /\ e.variant = "Ok"
          \/ a.body.form = "query_missing" /\ e.variant = "AccountNotFound" /\ method = "query"

\* It does.
LEMMA TriedAnswers ==
    ASSUME NEW a \in Answers, NEW method, NEW e, e = try_call(method, a)
    PROVE  Tried(method, a, e)
<1> USE DEF Tried
<1>1. CASE a \in [transport : {"timeout", "connect", "broken"}]
  <2>1. "transport" \in DOMAIN a
    BY <1>1
  <2>2. e = Http(a.transport \in {"timeout", "connect"})
    BY <2>1 DEF try_call, transport_error
  <2> QED
    BY <2>2 DEF Http
<1>2. CASE a \in [status : Statuses, body : Bodies]
  <2>1. "transport" \notin DOMAIN a /\ "body" \in DOMAIN a
    BY <1>2
  <2> DEFINE b == a.body
  <2>2. CASE a.status \notin 200 .. 299
    <3>1. e = IF b.form = "error" THEN preserve_http_retry_classification(parse_rpc_error(b), a.status)
              ELSE Network(is_retryable_status(a.status))
      BY <2>1, <2>2 DEF try_call
    <3>2. CASE b.form = "error"
      <4>1. e = parse_rpc_error(b) \/ e = Network(FALSE)
        BY <3>1, <3>2 DEF preserve_http_retry_classification
      <4>2. Network(FALSE).variant = "Network"
        BY DEF Network
      <4> QED
        BY <2>1, <3>2, <4>1, <4>2
    <3>3. CASE b.form # "error"
      <4>1. e = Network(is_retryable_status(a.status))
        BY <3>1, <3>3
      <4> QED
        BY <4>1 DEF Network
    <3> QED
      BY <3>2, <3>3
  <2>3. CASE a.status \in 200 .. 299
    <3> DEFINE found == b.form \in {"query_error", "query_missing"} /\ method = "query"
    <3>2. CASE b.form = "error"
      <4>1. e = parse_rpc_error(b)
        BY <2>1, <2>3, <3>2 DEF try_call
      <4> QED
        BY <2>1, <3>2, <4>1
    <3>3. CASE b.form \in {"not_json", "no_result"}
      <4>1. e = Err("Json") \/ e = Err("InvalidResponse")
        BY <2>1, <2>3, <3>3 DEF try_call
      <4> QED
        BY <4>1 DEF Err
    <3>4. CASE found
      <4>1. e = embedded_error(b)
        BY <2>1, <2>3, <3>4 DEF try_call
      <4>2. e.variant = IF b.form = "query_missing" THEN "AccountNotFound" ELSE "Rpc"
        BY <4>1, EmbeddedErrors
      <4> QED
        BY <2>1, <3>4, <4>2
    <3>5. CASE b.form = "decodes"
      <4>1. e = Err("Ok")
        BY <2>1, <2>3, <3>5 DEF try_call
      <4> QED
        BY <2>1, <2>3, <3>5, <4>1 DEF Err
    <3>6. CASE b.form \notin {"error", "not_json", "no_result", "decodes"} /\ ~found
      <4>1. e = Err("Json")
        BY <2>1, <2>3, <3>6 DEF try_call
      <4> QED
        BY <4>1 DEF Err
    <3> QED
      BY <3>2, <3>3, <3>4, <3>5, <3>6
  <2> QED
    BY <2>2, <2>3
<1> QED
  BY <1>1, <1>2 DEF Answers

\* The errors that stand for absence.
AbsenceErrors == {"AccountNotFound", "ContractNotDeployed", "GlobalContractNotFound"}

\* A result was decoded from a success, and an absence was said by the node.
LEMMA AnswersMean ==
    ASSUME NEW a \in Answers, NEW method, NEW e, e = try_call(method, a)
    PROVE  /\ e.variant = "Ok" => "body" \in DOMAIN a /\ a.status \in 200 .. 299
           /\ e.variant \in AbsenceErrors => SaysAbsent(a)
<1> DEFINE b == a.body
<1>1. CASE e.variant \in {"Http", "Network", "Json", "InvalidResponse", "Rpc"}
  BY <1>1 DEF AbsenceErrors
<1>2. CASE "body" \in DOMAIN a /\ b.form = "decodes" /\ a.status \in 200 .. 299 /\ e.variant = "Ok"
  BY <1>2 DEF AbsenceErrors
<1>3. CASE "body" \in DOMAIN a /\ b.form = "query_missing" /\ e.variant = "AccountNotFound"
  <2>1. SaysAbsent(a)
    BY <1>3 DEF SaysAbsent
  <2> QED
    BY <1>3, <2>1
<1>4. CASE "body" \in DOMAIN a /\ b.form = "error" /\ e = parse_rpc_error(b)
  <2>1. CASE b.cause = "CONTRACT_EXECUTION_ERROR" /\ e = contract_error(b)
    <3>1. /\ e.variant \in {"ContractNotDeployed", "MethodNotFound", "ContractPanic", "ContractExecution"}
          /\ e.variant = "ContractNotDeployed" =>
               \E place \in {b.vm_error, b.error, b.data} : place.kind = "CodeDoesNotExist"
      BY <2>1, ContractErrors, Zenon
    <3>2. e.variant = "ContractNotDeployed" => SaysAbsent(a)
      BY <1>4, <3>1, Zenon DEF SaysAbsent
    <3> QED
      BY <3>1, <3>2 DEF AbsenceErrors
  <2>2. CASE e.variant \in {"InvalidTransaction", "InvalidTx", "Rpc"}
    BY <2>2 DEF AbsenceErrors
  <2>3. CASE b.cause \in DOMAIN CauseVariant /\ e.variant = CauseVariant[b.cause]
    <3>1. /\ e.variant # "Ok"
          /\ e.variant \in AbsenceErrors =>
               b.cause \in {"UNKNOWN_ACCOUNT", "NO_CONTRACT_CODE", "NO_GLOBAL_CONTRACT_CODE"}
      BY <2>3, AbsentCauses DEF AbsenceErrors
    <3>2. b.cause \in {"UNKNOWN_ACCOUNT", "NO_CONTRACT_CODE", "NO_GLOBAL_CONTRACT_CODE"} => SaysAbsent(a)
      BY <1>4, Zenon DEF SaysAbsent
    <3> QED
      BY <3>1, <3>2
  <2>4. CASE e.variant = "AccountNotFound" /\ b.missing
    <3>1. SaysAbsent(a)
      BY <1>4, <2>4, Zenon DEF SaysAbsent
    <3> QED
      BY <2>4, <3>1
  <2>5. \/ b.cause = "CONTRACT_EXECUTION_ERROR" /\ e = contract_error(b)
        \/ b.cause = "INVALID_TRANSACTION" /\ e.variant \in {"InvalidTransaction", "InvalidTx"}
        \/ b.cause \in DOMAIN CauseVariant /\ e.variant = CauseVariant[b.cause]
        \/ e.variant = "AccountNotFound" /\ b.missing
        \/ e.variant = "Rpc"
    BY <1>4, ParsedErrors, Zenon
  <2> QED
    BY <2>1, <2>2, <2>3, <2>4, <2>5
<1> QED
  <2>1. Tried(method, a, e)
    BY TriedAnswers, Zenon
  <2> QED
    BY <1>1, <1>2, <1>3, <1>4, <2>1 DEF Tried

\* The result of a request.
LEMMA RequestedIs ==
    ASSUME NEW request, NEW a, NEW e, e = try_call(MethodOf[request], a)
    PROVE  /\ e.variant = "Ok" => Requested(request, a) = Ok("view")
           /\ e.variant # "Ok" => Requested(request, a) = Fail(e)
BY DEF Requested

\* What an existence query makes of it.
LEMMA AbsenceIs ==
    ASSUME NEW request, NEW a, NEW variants, NEW e, e = try_call(MethodOf[request], a)
    PROVE  /\ e.variant = "Ok" => Absence(Requested(request, a), variants) = Ok(TRUE)
           /\ e.variant # "Ok" /\ e.variant \in variants => Absence(Requested(request, a), variants) = Ok(FALSE)
           /\ e.variant # "Ok" /\ e.variant \notin variants => ~Absence(Requested(request, a), variants).ok
<1> DEFINE r == Requested(request, a)
<1>1. CASE e.variant = "Ok"
  <2>1. r = Ok("view")
    BY <1>1, RequestedIs, Zenon
  <2>2. r.ok
    BY <2>1, Outcomes
  <2> HIDE DEF r
  <2>3. Absence(r, variants) = Ok(TRUE)
    BY <2>2 DEF Absence
  <2> QED
    BY <1>1, <2>3 DEF r
<1>2. CASE e.variant # "Ok"
  <2>1. r = Fail(e)
    BY <1>2, RequestedIs, Zenon
  <2>2. ~r.ok /\ r.error = e
    BY <2>1, Outcomes
  <2> HIDE DEF r
  <2>3. e.variant \in variants => Absence(r, variants) = Ok(FALSE)
    BY <2>2 DEF Absence
  <2>4. e.variant \notin variants => Absence(r, variants) = r
    BY <2>2 DEF Absence
  <2> QED
    BY <1>2, <2>2, <2>3, <2>4 DEF r
<1> QED
  BY <1>1, <1>2

\* Its answers.
LEMMA AbsenceMeans ==
    ASSUME NEW request, NEW a \in Answers, NEW variants \in SUBSET AbsenceErrors,
           NEW r, r = Absence(Requested(request, a), variants)
    PROVE  /\ r.ok /\ ~r.value => SaysAbsent(a)
           /\ r.ok /\ r.value => "body" \in DOMAIN a /\ a.status \in 200 .. 299
<1> DEFINE e == try_call(MethodOf[request], a)
<1>1. /\ e.variant = "Ok" => "body" \in DOMAIN a /\ a.status \in 200 .. 299
      /\ e.variant \in AbsenceErrors => SaysAbsent(a)
  BY AnswersMean, Zenon
<1>2. /\ e.variant = "Ok" => r = Ok(TRUE)
      /\ e.variant # "Ok" /\ e.variant \in variants => r = Ok(FALSE)
      /\ e.variant # "Ok" /\ e.variant \notin variants => ~r.ok
  BY AbsenceIs, Zenon
<1> HIDE DEF e
<1>3. Ok(TRUE).value = TRUE /\ Ok(FALSE).value = FALSE
  BY Zenon DEF Ok
<1> QED
  BY <1>1, <1>2, <1>3, Zenon

\* The existence queries are certain, and a view that cannot be decoded fails.
LEMMA QuestionsCertain == ASSUME input \in Questions PROVE AbsenceIsCertain
<1> DEFINE a == input.answer
<1> DEFINE e == try_call(MethodOf["view_account"], a)
<1>1. a \in Answers
  BY DEF Questions
<1> HIDE DEF a
<1>2. ASSUME NEW r \in {account_exists(a), contract_exists(a), global_exists(a)}
      PROVE  /\ r.ok /\ ~r.value => SaysAbsent(a)
             /\ r.ok /\ r.value => "body" \in DOMAIN a /\ a.status \in 200 .. 299
  <2>0. /\ {"AccountNotFound"} \in SUBSET AbsenceErrors
        /\ {"ContractNotDeployed", "AccountNotFound"} \in SUBSET AbsenceErrors
        /\ {"GlobalContractNotFound", "AccountNotFound"} \in SUBSET AbsenceErrors
    BY DEF AbsenceErrors
  <2>1. CASE r = account_exists(a)
    <3>1. r = Absence(Requested("view_account", a), {"AccountNotFound"})
      BY <2>1 DEF account_exists, AccountQuery
    <3> QED
      BY <1>1, <2>0, <3>1, AbsenceMeans, Zenon
  <2>2. CASE r = contract_exists(a)
    <3>1. r = Absence(Requested("view_code", a), {"ContractNotDeployed", "AccountNotFound"})
      BY <2>2 DEF contract_exists
    <3> QED
      BY <1>1, <2>0, <3>1, AbsenceMeans, Zenon
  <2>3. CASE r = global_exists(a)
    <3>1. r = Absence(Requested("view_global_contract_code", a), {"GlobalContractNotFound", "AccountNotFound"})
      BY <2>3 DEF global_exists
    <3> QED
      BY <1>1, <2>0, <3>1, AbsenceMeans, Zenon
  <2> QED
    BY <2>1, <2>2, <2>3
<1>3. BalanceQuery(a).ok => account_exists(a) = Ok(TRUE)
  <2>1. CASE e.variant = "Ok"
    <3>1. Absence(Requested("view_account", a), {"AccountNotFound"}) = Ok(TRUE)
      BY <2>1, AbsenceIs, Zenon
    <3> QED
      BY <3>1 DEF account_exists, AccountQuery
  <2>2. CASE e.variant # "Ok"
    <3>1. BalanceQuery(a) = Fail(e)
      BY <2>2, RequestedIs, Zenon DEF BalanceQuery
    <3>2. ~BalanceQuery(a).ok
      BY <3>1, Outcomes
    <3> QED
      BY <3>2
  <2> QED
    BY <2>1, <2>2
<1>4. ~ViewCall(a, FALSE).ok /\ ~ViewCallBorsh(a, FALSE).ok
  <2> DEFINE q == Requested("view_function", a)
  <2>1. CASE q.ok
    <3>1. ViewCall(a, FALSE) = Fail(Err("Json")) /\ ViewCallBorsh(a, FALSE) = Fail(Err("Borsh"))
      BY <2>1 DEF ViewCall, ViewCallBorsh
    <3> QED
      BY <3>1, Outcomes
  <2>2. CASE ~q.ok
    <3>1. ViewCall(a, FALSE) = q /\ ViewCallBorsh(a, FALSE) = q
      BY <2>2 DEF ViewCall, ViewCallBorsh
    <3> QED
      BY <2>2, <3>1
  <2> QED
    BY <2>1, <2>2
<1> QED
  BY <1>2, <1>3, <1>4, Zenon DEF AbsenceIsCertain, a

\* Only the embedded errors of a `query` depend on the method that is called.
LEMMA QuestionsAgree == ASSUME input \in Questions PROVE ExistenceAgrees
<1> DEFINE a == input.answer
<1> DEFINE e == try_call(MethodOf["view_account"], a)
<1> DEFINE f == try_call(MethodOf["view_code"], a)
<1>1. a \in Answers
  BY DEF Questions
<1> HIDE DEF a
<1> SUFFICES ASSUME account_exists(a) = Ok(FALSE) PROVE contract_exists(a) = Ok(FALSE)
  BY DEF ExistenceAgrees, a
<1>2. e.variant = "AccountNotFound"
  <2>1. Absence(Requested("view_account", a), {"AccountNotFound"}) = Ok(FALSE)
    BY DEF account_exists, AccountQuery
  <2>2. Ok(TRUE).value = TRUE /\ Ok(FALSE).value = FALSE /\ Ok(FALSE).ok
    BY Zenon DEF Ok
  <2>3. /\ e.variant = "Ok" => Absence(Requested("view_account", a), {"AccountNotFound"}) = Ok(TRUE)
        /\ e.variant # "Ok" /\ e.variant \notin {"AccountNotFound"} =>
             ~Absence(Requested("view_account", a), {"AccountNotFound"}).ok
    BY AbsenceIs, Zenon
  <2> HIDE DEF e
  <2> QED
    BY <2>1, <2>2, <2>3, Zenon
<1>3. MethodOf["view_account"] # "query"
  BY DEF MethodOf
<1>4. "body" \in DOMAIN a /\ a.body.form = "error" /\ e = parse_rpc_error(a.body)
  <2>1. Tried(MethodOf["view_account"], a, e)
    BY <1>1, TriedAnswers, Zenon
  <2> HIDE DEF e
  <2> QED
    BY <1>2, <1>3, <2>1 DEF Tried
<1>5. f = parse_rpc_error(a.body)
  <2>1. "transport" \notin DOMAIN a
    BY <1>1, <1>4 DEF Answers
  <2>2. e = f
    <3>1. CASE a.status \in 200 .. 299
      BY <1>4, <2>1, <3>1 DEF try_call
    <3>2. CASE a.status \notin 200 .. 299
      BY <1>4, <2>1, <3>2 DEF try_call
    <3> QED
      BY <3>1, <3>2
  <2> QED
    BY <1>4, <2>2
<1>6. f.variant # "Ok" /\ f.variant \in {"ContractNotDeployed", "AccountNotFound"}
  BY <1>2, <1>4, <1>5
<1> QED
  BY <1>6, AbsenceIs, Zenon DEF contract_exists

\* The errors of a request that its node's handler can answer with.
LEMMA QuestionsNamed == ASSUME input \in Questions PROVE ErrorsNameTheRequest
<1> DEFINE a == input.answer
<1>1. a \in Answers
  BY DEF Questions
<1> HIDE DEF a
<1> SUFFICES ASSUME NEW request \in DOMAIN MethodOf, ~Requested(request, a).ok,
                    "body" \in DOMAIN a, a.body.form = "error", a.body.cause \in CausesOf[request],
                    Requested(request, a).error.variant \in Unnamed
             PROVE  Requested(request, a).error.variant \in Patched(request)
  BY Zenon DEF ErrorsNameTheRequest, a
<1> DEFINE e == try_call(MethodOf[request], a)
<1> DEFINE b == a.body
<1>2. Requested(request, a).error = e
  <2>1. Requested(request, a) = Ok("view") \/ Requested(request, a) = Fail(e)
    BY RequestedIs, Zenon
  <2> QED
    BY <2>1, Outcomes
<1>3. e.variant \in Unnamed
  BY <1>2
<1>4. e = parse_rpc_error(b)
  <2>1. Tried(MethodOf[request], a, e)
    BY <1>1, TriedAnswers, Zenon
  <2> HIDE DEF e
  <2> QED
    BY <1>3, <2>1 DEF Tried, Unnamed
<1> HIDE DEF e
<1>5. \/ b.cause = "CONTRACT_EXECUTION_ERROR" /\ e = contract_error(b)
      \/ b.cause = "INVALID_TRANSACTION" /\ e.variant \in {"InvalidTransaction", "InvalidTx"}
      \/ b.cause \in DOMAIN CauseVariant /\ e.variant = CauseVariant[b.cause]
      \/ e.variant = "AccountNotFound" /\ b.missing
      \/ e.variant = "Rpc"
  BY <1>4, ParsedErrors, Zenon
<1>6. CASE b.cause = "CONTRACT_EXECUTION_ERROR" /\ e = contract_error(b)
  <2>1. request = "view_function"
    BY <1>6 DEF CausesOf, MethodOf
  <2>2. e.variant \in {"ContractNotDeployed", "MethodNotFound", "ContractPanic", "ContractExecution"}
    BY <1>6, ContractErrors, Zenon
  <2>3. e.variant \in {"ContractExecution", "MethodNotFound"}
    BY <1>3, <2>2 DEF Unnamed
  <2>4. Patched(request) = {"ContractExecution", "MethodNotFound"}
    BY <2>1 DEF Patched
  <2> QED
    BY <1>2, <2>3, <2>4
<1>7. CASE b.cause \in DOMAIN CauseVariant /\ e.variant = CauseVariant[b.cause]
  <2>1. b.cause \in {"UNKNOWN_ACCOUNT", "UNKNOWN_ACCESS_KEY", "UNKNOWN_GAS_KEY", "NO_CONTRACT_CODE",
                     "NO_GLOBAL_CONTRACT_CODE"}
    BY <1>7, AbsentCauses DEF CausesOf, MethodOf
  <2>2. CASE b.cause \in {"UNKNOWN_ACCOUNT", "NO_CONTRACT_CODE"}
    <3>1. e.variant \in {"AccountNotFound", "ContractNotDeployed"}
      BY <1>7, <2>2 DEF CauseVariant
    <3> QED
      BY <1>3, <3>1 DEF Unnamed
  <2>3. CASE b.cause = "UNKNOWN_ACCESS_KEY"
    <3>1. e.variant = "AccessKeyNotFound"
      BY <1>7, <2>3 DEF CauseVariant
    <3>2. request = "view_access_key"
      BY <2>3 DEF CausesOf, MethodOf
    <3> QED
      BY <1>2, <3>1, <3>2 DEF Patched
  <2>4. CASE b.cause = "UNKNOWN_GAS_KEY"
    <3>1. e.variant = "GasKeyNotFound"
      BY <1>7, <2>4 DEF CauseVariant
    <3>2. request = "view_gas_key_nonces"
      BY <2>4 DEF CausesOf, MethodOf
    <3> QED
      BY <1>2, <3>1, <3>2 DEF Patched
  <2>5. CASE b.cause = "NO_GLOBAL_CONTRACT_CODE"
    <3>1. e.variant = "GlobalContractNotFound"
      BY <1>7, <2>5 DEF CauseVariant
    <3>2. request = "view_global_contract_code"
      BY <2>5 DEF CausesOf, MethodOf
    <3> QED
      BY <1>2, <3>1, <3>2 DEF Patched
  <2> QED
    BY <2>1, <2>2, <2>3, <2>4, <2>5
<1>8. CASE e.variant \in {"InvalidTransaction", "InvalidTx", "AccountNotFound", "Rpc"}
  BY <1>3, <1>8 DEF Unnamed
<1> QED
  BY <1>5, <1>6, <1>7, <1>8

\* The references, kind by kind.
LEMMA RefKinds ==
    ASSUME NEW r \in Refs
    PROVE  /\ r = [kind |-> r.kind, at |-> r.at]
           /\ r.kind \in {"finality", "height", "hash", "checkpoint"}
           /\ r.kind = "finality" => to_rpc_params(r) = [finality |-> r.at]
           /\ r.kind \in {"height", "hash"} => to_rpc_params(r) = [block_id |-> <<r.kind, r.at>>]
           /\ r.kind = "checkpoint" => to_rpc_params(r) = [sync_checkpoint |-> r.at]
<1>1. r = [kind |-> r.kind, at |-> r.at] /\ r.kind \in {"finality", "height", "hash", "checkpoint"}
  BY DEF Refs
<1>2. r.kind = "finality" => to_rpc_params(r) = [finality |-> r.at]
  BY DEF to_rpc_params
<1>3. r.kind \in {"height", "hash"} => to_rpc_params(r) = [block_id |-> <<r.kind, r.at>>]
  BY DEF to_rpc_params
<1>4. r.kind = "checkpoint" => to_rpc_params(r) = [sync_checkpoint |-> r.at]
  BY DEF to_rpc_params
<1> QED
  BY <1>1, <1>2, <1>3, <1>4

\* A reference adds one member.
LEMMA RefMembers ==
    ASSUME NEW r \in Refs
    PROVE  /\ r.kind = "finality" => DOMAIN to_rpc_params(r) = {"finality"} /\ to_rpc_params(r).finality = r.at
           /\ r.kind \in {"height", "hash"} =>
                DOMAIN to_rpc_params(r) = {"block_id"} /\ to_rpc_params(r).block_id = <<r.kind, r.at>>
           /\ r.kind = "checkpoint" =>
                DOMAIN to_rpc_params(r) = {"sync_checkpoint"} /\ to_rpc_params(r).sync_checkpoint = r.at
<1>1. CASE r.kind = "finality"
  <2>1. to_rpc_params(r) = [finality |-> r.at]
    BY <1>1, RefKinds
  <2> QED
    BY <1>1, <2>1
<1>2. CASE r.kind \in {"height", "hash"}
  <2>1. to_rpc_params(r) = [block_id |-> <<r.kind, r.at>>]
    BY <1>2, RefKinds
  <2> QED
    BY <1>2, <2>1
<1>3. CASE r.kind = "checkpoint"
  <2>1. to_rpc_params(r) = [sync_checkpoint |-> r.at]
    BY <1>3, RefKinds
  <2> QED
    BY <1>3, <2>1
<1> QED
  BY <1>1, <1>2, <1>3, RefKinds

\* Its name and value tell the reference.
LEMMA RefsTold ==
    ASSUME NEW r \in Refs, NEW o \in Refs
    PROVE  to_rpc_params(r) = to_rpc_params(o) <=> r = o
<1> SUFFICES ASSUME to_rpc_params(r) = to_rpc_params(o) PROVE r.kind = o.kind /\ r.at = o.at
  BY RefKinds
<1> DEFINE f == to_rpc_params(r)
<1> DEFINE g == to_rpc_params(o)
<1>0. f = g
  OBVIOUS
<1>r. /\ r.kind = "finality" => DOMAIN f = {"finality"} /\ f.finality = r.at
      /\ r.kind \in {"height", "hash"} => DOMAIN f = {"block_id"} /\ f.block_id = <<r.kind, r.at>>
      /\ r.kind = "checkpoint" => DOMAIN f = {"sync_checkpoint"} /\ f.sync_checkpoint = r.at
  BY RefMembers
<1>o. /\ o.kind = "finality" => DOMAIN g = {"finality"} /\ g.finality = o.at
      /\ o.kind \in {"height", "hash"} => DOMAIN g = {"block_id"} /\ g.block_id = <<o.kind, o.at>>
      /\ o.kind = "checkpoint" => DOMAIN g = {"sync_checkpoint"} /\ g.sync_checkpoint = o.at
  BY RefMembers
<1>k. r.kind \in {"finality", "height", "hash", "checkpoint"} /\ o.kind \in {"finality", "height", "hash", "checkpoint"}
  BY RefKinds
<1> HIDE DEF f, g
<1>1. {"finality"} # {"block_id"} /\ {"finality"} # {"sync_checkpoint"} /\ {"block_id"} # {"sync_checkpoint"}
  OBVIOUS
<1>2. CASE r.kind = "finality"
  <2>1. o.kind = "finality"
    BY <1>0, <1>r, <1>o, <1>k, <1>1, <1>2
  <2> QED
    BY <1>0, <1>r, <1>o, <1>2, <2>1
<1>3. CASE r.kind \in {"height", "hash"}
  <2>1. o.kind \in {"height", "hash"}
    BY <1>0, <1>r, <1>o, <1>k, <1>1, <1>3
  <2>2. <<r.kind, r.at>> = <<o.kind, o.at>>
    BY <1>0, <1>r, <1>o, <1>3, <2>1
  <2> QED
    BY <2>2
<1>4. CASE r.kind = "checkpoint"
  <2>1. o.kind = "checkpoint"
    BY <1>0, <1>r, <1>o, <1>k, <1>1, <1>4
  <2> QED
    BY <1>0, <1>r, <1>o, <1>4, <2>1
<1> QED
  BY <1>k, <1>2, <1>3, <1>4

\* Neither replaces a member of the request.
LEMMA MergedTold ==
    ASSUME NEW r \in Refs, NEW o \in Refs, NEW account
    PROVE  Merged([account_id |-> account], r) = Merged([account_id |-> account], o) <=> r = o
<1> SUFFICES ASSUME Merged([account_id |-> account], r) = Merged([account_id |-> account], o)
             PROVE  to_rpc_params(r) = to_rpc_params(o)
  BY RefsTold
<1> DEFINE p == [account_id |-> account]
<1> DEFINE f == to_rpc_params(r)
<1> DEFINE g == to_rpc_params(o)
<1>1. /\ "account_id" \notin DOMAIN f /\ f = [m \in DOMAIN f |-> f[m]]
      /\ "account_id" \notin DOMAIN g /\ g = [m \in DOMAIN g |-> g[m]]
  BY RefKinds
<1>2. DOMAIN p = {"account_id"}
  OBVIOUS
<1>3. [m \in DOMAIN p \cup DOMAIN f |-> IF m \in DOMAIN f THEN f[m] ELSE p[m]]
        = [m \in DOMAIN p \cup DOMAIN g |-> IF m \in DOMAIN g THEN g[m] ELSE p[m]]
  BY DEF Merged
<1> HIDE DEF p, f, g
<1>4. DOMAIN f = DOMAIN g
  <2>1. DOMAIN p \cup DOMAIN f = DOMAIN p \cup DOMAIN g
    BY <1>3
  <2> QED
    BY <1>1, <1>2, <2>1
<1>5. ASSUME NEW m \in DOMAIN f PROVE f[m] = g[m]
  BY <1>3, <1>4
<1>6. f = g
  BY <1>1, <1>4, <1>5
<1> QED
  BY <1>6 DEF f, g

\* A query asks about the block it was told.
LEMMA BlocksAsked == ASSUME input \in BlockQuestions PROVE OneBlockPerRequest
<1> DEFINE r == Asked(input.refs)
<1>1. input.refs \in Seq(Refs)
  BY DEF BlockQuestions
<1>2. r \in Refs
  <2>1. CASE input.refs = <<>>
    BY <2>1 DEF Asked, DefaultRef, Refs, Finalities
  <2>2. CASE input.refs # <<>>
    BY <1>1, <2>2 DEF Asked
  <2> QED
    BY <2>1, <2>2
<1> HIDE DEF r
<1>3. ASSUME NEW o \in Refs
      PROVE  /\ Merged([account_id |-> "u"], r) = Merged([account_id |-> "u"], o) <=> r = o
             /\ BlockParams("block", r) = BlockParams("block", o) <=> r = o
             /\ BlockParams("validators", r) = BlockParams("validators", o)
                  <=> r = o \/ {r.kind, o.kind} \cap {"height", "hash"} = {}
  <2>1. Merged([account_id |-> "u"], r) = Merged([account_id |-> "u"], o) <=> r = o
    BY <1>2, MergedTold, Zenon
  <2>2. BlockParams("block", r) = BlockParams("block", o) <=> r = o
    <3>1. BlockParams("block", r) = to_rpc_params(r) /\ BlockParams("block", o) = to_rpc_params(o)
      BY DEF BlockParams
    <3> QED
      BY <1>2, <3>1, RefsTold, Zenon
  <2>3. BlockParams("validators", r) = BlockParams("validators", o) <=> block_id_or_null(r) = block_id_or_null(o)
    BY DEF BlockParams
  <2>4. r = [kind |-> r.kind, at |-> r.at] /\ o = [kind |-> o.kind, at |-> o.at]
    BY <1>2, RefKinds
  <2>5. block_id_or_null(r) = block_id_or_null(o) <=> r = o \/ {r.kind, o.kind} \cap {"height", "hash"} = {}
    <3>1. CASE r.kind \in {"height", "hash"} /\ o.kind \in {"height", "hash"}
      <4>1. block_id_or_null(r) = <<r.kind, r.at>> /\ block_id_or_null(o) = <<o.kind, o.at>>
        BY <3>1 DEF block_id_or_null
      <4>2. <<r.kind, r.at>> = <<o.kind, o.at>> <=> r = o
        BY <2>4
      <4> QED
        BY <3>1, <4>1, <4>2
    <3>2. CASE r.kind \in {"height", "hash"} /\ o.kind \notin {"height", "hash"}
      <4>1. block_id_or_null(r) = <<r.kind, r.at>> /\ block_id_or_null(o) = <<>>
        BY <3>2 DEF block_id_or_null
      <4>2. <<r.kind, r.at>> # <<>>
        OBVIOUS
      <4>3. r # o /\ {r.kind, o.kind} \cap {"height", "hash"} # {}
        BY <3>2
      <4> QED
        BY <4>1, <4>2, <4>3
    <3>3. CASE r.kind \notin {"height", "hash"} /\ o.kind \in {"height", "hash"}
      <4>1. block_id_or_null(r) = <<>> /\ block_id_or_null(o) = <<o.kind, o.at>>
        BY <3>3 DEF block_id_or_null
      <4>2. <<o.kind, o.at>> # <<>>
        OBVIOUS
      <4>3. r # o /\ {r.kind, o.kind} \cap {"height", "hash"} # {}
        BY <3>3
      <4> QED
        BY <4>1, <4>2, <4>3
    <3>4. CASE r.kind \notin {"height", "hash"} /\ o.kind \notin {"height", "hash"}
      <4>1. block_id_or_null(r) = <<>> /\ block_id_or_null(o) = <<>>
        BY <3>4 DEF block_id_or_null
      <4> QED
        BY <3>4, <4>1
    <3> QED
      BY <3>1, <3>2, <3>3, <3>4
  <2> QED
    BY <2>1, <2>2, <2>3, <2>5
<1> QED
  BY <1>3, Zenon DEF OneBlockPerRequest, r

\* The axes of a status.
LEMMA AxesFacts ==
    ASSUME NEW s \in ExecutionStatuses
    PROVE  /\ axes(s)[1] \in 0 .. 3 /\ axes(s)[2] \in 0 .. 3
           /\ s = "None" <=> axes(s)[1] = 0
           /\ s = "None" <=> axes(s)[2] = 0
           /\ s = "Included" <=> axes(s)[1] = 1 /\ axes(s)[2] = 1
           /\ s = "ExecutedOptimistic" <=> axes(s)[1] = 2 /\ axes(s)[2] = 1
           /\ s = "IncludedFinal" <=> axes(s)[1] = 1 /\ axes(s)[2] = 2
           /\ s = "Executed" <=> axes(s)[1] = 2 /\ axes(s)[2] = 2
           /\ s = "Final" <=> axes(s)[1] = 3
           /\ s = "Final" <=> axes(s)[2] = 3
           /\ is_executed(s) <=> axes(s)[1] >= 2
           /\ is_block_final(s) <=> axes(s)[2] >= 2
<1>1. CASE s = "None"
  BY <1>1 DEF axes, is_executed, is_block_final
<1>2. CASE s = "Included"
  BY <1>2 DEF axes, is_executed, is_block_final
<1>3. CASE s = "ExecutedOptimistic"
  BY <1>3 DEF axes, is_executed, is_block_final
<1>4. CASE s = "IncludedFinal"
  BY <1>4 DEF axes, is_executed, is_block_final
<1>5. CASE s = "Executed"
  BY <1>5 DEF axes, is_executed, is_block_final
<1>6. CASE s = "Final"
  BY <1>6 DEF axes, is_executed, is_block_final
<1> QED
  BY <1>1, <1>2, <1>3, <1>4, <1>5, <1>6 DEF ExecutionStatuses

\* Their order is the order of the statuses.
LEMMA StatusesOrdered == ASSUME input \in StatusTriples PROVE StatusOrderSound
<1> DEFINE s == input.s
<1> DEFINE t == input.t
<1> DEFINE u == input.u
<1>1. s \in ExecutionStatuses /\ t \in ExecutionStatuses /\ u \in ExecutionStatuses
  BY DEF StatusTriples
<1> HIDE DEF s, t, u
<1>2. AtMost(s, t) /\ AtMost(t, s) <=> s = t
  BY <1>1, AxesFacts DEF AtMost, ExecutionStatuses
<1>3. AtMost(s, t) /\ AtMost(t, u) => AtMost(s, u)
  BY <1>1, AxesFacts DEF AtMost
<1>4. AtMost(s, t) => (is_executed(s) => is_executed(t)) /\ (is_block_final(s) => is_block_final(t))
  BY <1>1, AxesFacts DEF AtMost
<1>5. s # "None" /\ (is_executed(s) => is_executed(t)) /\ (is_block_final(s) => is_block_final(t))
        /\ t # "None" /\ s # "Final" => AtMost(s, t)
  BY <1>1, AxesFacts DEF AtMost
<1> QED
  BY <1>2, <1>3, <1>4, <1>5 DEF StatusOrderSound, s, t, u

\* A query's answer is about what was asked.
LEMMA QuestionsAnswered ==
    ASSUME Given("query") => input \in Questions, Given("block") => input \in BlockQuestions,
           Given("status") => input \in StatusTriples
    PROVE  AnswersTheQuestion
<1>1. AbsenceIsCertain
  BY QuestionsCertain DEF AbsenceIsCertain
<1>2. ExistenceAgrees
  BY QuestionsAgree DEF ExistenceAgrees
<1>3. ErrorsNameTheRequest
  BY QuestionsNamed DEF ErrorsNameTheRequest
<1>4. OneBlockPerRequest
  BY BlocksAsked DEF OneBlockPerRequest
<1>5. StatusOrderSound
  BY StatusesOrdered DEF StatusOrderSound
<1> QED
  BY <1>1, <1>2, <1>3, <1>4, <1>5 DEF AnswersTheQuestion
-----------------------------------------------------------------------------
(* Keys: what is made is read back, what is read works. *)

\* Bytes cut or extended to a length.
Resized(b, n) == [b EXCEPT !.len = n]

\* Bytes of a length that stand for something and are valid.
IsBytes(b, len, what) ==
    /\ b.len = len /\ b.is = what /\ b.valid
    /\ Resized(b, len) = b

\* Bytes are as long as they are.
LEMMA SameLength ==
    ASSUME NEW len, NEW what, NEW valid
    PROVE  [ByteString(len, what, valid) EXCEPT !.len = len] = ByteString(len, what, valid)
BY DEF ByteString

\* Valid bytes stay valid when they are cut or extended.
LEMMA OtherLength ==
    ASSUME NEW len, NEW what, NEW n PROVE IsBytes(Resized(ByteString(len, what, TRUE), n), n, what)
BY DEF ByteString, Resized, IsBytes

\* The bytes the library makes.
LEMMA BytesMade == ASSUME NEW len, NEW what PROVE IsBytes(ByteString(len, what, TRUE), len, what)
<1>1. ByteString(len, what, TRUE).len = len /\ ByteString(len, what, TRUE).is = what /\ ByteString(len, what, TRUE).valid
  BY DEF ByteString
<1>2. [ByteString(len, what, TRUE) EXCEPT !.len = len] = ByteString(len, what, TRUE)
  BY SameLength, Zenon
<1> QED
  BY <1>1, <1>2, Zenon DEF IsBytes, Resized

\* A key by its parts.
LEMMA KeyParts == ASSUME NEW t, NEW b PROVE Key(t, b).type = t /\ Key(t, b).bytes = b
BY DEF Key

\* The text of a key by its parts.
LEMMA TextParts ==
    ASSUME NEW t, NEW b
    PROVE  Display(Key(t, b)).prefix = t /\ Display(Key(t, b)).base58 /\ Display(Key(t, b)).data = b
BY DEF Display, KeyText, Key

\* A secret is read from its text.
LEMMA SecretFromText ==
    ASSUME NEW type \in KeyTypes, NEW what, NEW len \in Nat, len = 32 \/ (type = "ml-dsa-65" /\ len = ML_DSA_65_SECRET_KEY_LENGTH),
           NEW b, IsBytes(b, len, what), NEW t, t.prefix = type, t.base58, t.data = b
    PROVE  SecretKeyFromStr(t) = Ok(Key(type, b))
<1>1. b.valid /\ b.len = len /\ [b EXCEPT !.len = len] = b
  BY DEF IsBytes, Resized
<1>2. len = 32 \/ (type = "ml-dsa-65" /\ len = 4032)
  BY DEF ML_DSA_65_SECRET_KEY_LENGTH
<1>5. CASE type = "ed25519"
  BY <1>1, <1>2, <1>5 DEF SecretKeyFromStr, KeyTypes
<1>6. CASE type = "secp256k1"
  BY <1>1, <1>2, <1>6 DEF SecretKeyFromStr, KeyTypes
<1>7. CASE type = "ml-dsa-65"
  BY <1>1, <1>2, <1>7 DEF SecretKeyFromStr, KeyTypes, ml_dsa65_from_expanded, ML_DSA_65_SECRET_KEY_LENGTH, ML_DSA_65_SEED_LENGTH
<1> QED
  BY <1>5, <1>6, <1>7 DEF KeyTypes

\* A public key is read from its text.
LEMMA PublicFromText ==
    ASSUME NEW type \in KeyTypes, NEW what, NEW b, IsBytes(b, public_key_len[type], what),
           NEW t, t.prefix = type, t.base58, t.data = b
    PROVE  PublicKeyFromStr(t) = Ok(Key(type, b))
<1>1. b.valid /\ b.len = public_key_len[type]
  BY DEF IsBytes
<1> QED
  BY <1>1 DEF PublicKeyFromStr, KeyTypes

\* A signature is read from its text.
LEMMA SignatureFromText ==
    ASSUME NEW type \in KeyTypes, NEW what, NEW b, IsBytes(b, signature_len[type], what),
           NEW t, t.prefix = type, t.base58, t.data = b
    PROVE  SignatureFromStr(t) = Ok(Key(type, b))
<1>1. b.len = signature_len[type]
  BY DEF IsBytes
<1> QED
  BY <1>1 DEF SignatureFromStr, KeyTypes

\* The type's byte tells the type.
LEMMA TypeBytes ==
    ASSUME NEW type \in KeyTypes
    PROVE  KeyTypeByte[type] \in 0 .. 2 /\ (CHOOSE t \in KeyTypes : KeyTypeByte[t] = KeyTypeByte[type]) = type
<1>1. \A t \in KeyTypes : KeyTypeByte[t] \in 0 .. 2 /\ (KeyTypeByte[t] = KeyTypeByte[type] => t = type)
  BY DEF KeyTypeByte, KeyTypes
<1>2. type \in KeyTypes /\ KeyTypeByte[type] = KeyTypeByte[type]
  OBVIOUS
<1> HIDE DEF KeyTypes
<1> QED
  BY <1>1, <1>2

\* What is behind the type's byte is read back.
LEMMA TaggedRead ==
    ASSUME NEW type \in KeyTypes, NEW lens, NEW checked, NEW b, b.len = lens[type], b.valid \/ type \notin checked
    PROVE  ReadTagged(BorshKey(Key(type, b)), lens, checked) = Ok(Key(type, b))
<1> DEFINE borsh == BorshKey(Key(type, b))
<1>1. borsh.tag = KeyTypeByte[type] /\ borsh.bytes = b
  BY KeyParts DEF BorshKey
<1>2. borsh.tag \in 0 .. 2 /\ (CHOOSE t \in KeyTypes : KeyTypeByte[t] = borsh.tag) = type
  BY <1>1, TypeBytes
<1> QED
  BY <1>1, <1>2 DEF ReadTagged

\* A public key by its parts.
LEMMA PublicParts ==
    ASSUME NEW type, NEW b
    PROVE  public_key(Key(type, b)) = Key(type, ByteString(public_key_len[type], b.is, TRUE))
BY KeyParts, Zenon DEF public_key

\* A signature by its parts.
LEMMA SignParts ==
    ASSUME NEW type, NEW b, NEW m
    PROVE  sign(Key(type, b), m) = Key(type, ByteString(signature_len[type], <<type, b.is[2], m>>, TRUE))
BY KeyParts, Zenon DEF sign, Key

\* A full key is read as a handle from its text.
LEMMA HandleFromText ==
    ASSUME NEW type \in KeyTypes, NEW what, NEW b, IsBytes(b, public_key_len[type], what),
           NEW t, t.prefix = type, t.base58, t.data = b
    PROVE  HandleFromStr(t) = Ok(Full(Key(type, b)))
<1>1. PublicKeyFromStr(t) = Ok(Key(type, b))
  BY PublicFromText, Zenon
<1>2. PublicKeyFromStr(t).ok /\ PublicKeyFromStr(t).value = Key(type, b)
  BY <1>1 DEF Ok
<1>3. t.prefix # "ml-dsa-65-hash"
  BY DEF KeyTypes
<1> QED
  BY <1>2, <1>3 DEF HandleFromStr

\* The hash of a key is read as a handle from its text.
LEMMA HashFromText ==
    ASSUME NEW b, b.len = 32, NEW t, t.prefix = "ml-dsa-65-hash", t.base58, t.data = b
    PROVE  HandleFromStr(t) = Ok([handle |-> "hash", key |-> Key("ml-dsa-65-hash", b)])
BY DEF HandleFromStr

\* A handle of a hash.
LEMMA HashHandle == ASSUME NEW k PROVE [handle |-> "hash", key |-> k].key = k
OBVIOUS

\* How the chain lists a key that was made of a secret.
LEMMA ListedReadBack ==
    ASSUME NEW type \in KeyTypes, NEW what
    PROVE  LET key == Key(type, ByteString(public_key_len[type], what, TRUE))
           IN  HandleFromStr(Display(Listed(key).key)) = Ok(Listed(key))
<1> DEFINE b == ByteString(public_key_len[type], what, TRUE)
<1> DEFINE h == ByteString(32, what, TRUE)
<1> DEFINE key == Key(type, b)
<1>1. key.type = type /\ key.bytes = b
  BY KeyParts, Zenon
<1>2. IsBytes(b, public_key_len[type], what) /\ IsBytes(h, 32, what)
  BY BytesMade, Zenon
<1>3. b.is = what
  BY <1>2 DEF IsBytes
<1>4. CASE type = "ml-dsa-65"
  <2> DEFINE hash == Key("ml-dsa-65-hash", h)
  <2>0. key.bytes.is = what
    BY <1>1, <1>3, Zenon
  <2>1. Listed(key) = [handle |-> "hash", key |-> hash]
    BY <1>1, <2>0, <1>4, Zenon DEF Listed, to_ml_dsa65_hash
  <2>2. Listed(key).key = hash
    BY <2>1, HashHandle, Zenon
  <2>3. Display(hash).prefix = "ml-dsa-65-hash" /\ Display(hash).base58 /\ Display(hash).data = h
    <3>1. ASSUME NEW x, NEW k, k = Key("ml-dsa-65-hash", x)
          PROVE  Display(k).prefix = "ml-dsa-65-hash" /\ Display(k).base58 /\ Display(k).data = x
      BY <3>1, TextParts
    <3> QED
      BY <3>1, Zenon
  <2>4. h.len = 32
    BY <1>2 DEF IsBytes
  <2>5. HandleFromStr(Display(hash)) = Ok([handle |-> "hash", key |-> hash])
    BY <2>3, <2>4, HashFromText, Zenon
  <2> QED
    BY <2>1, <2>2, <2>5, Zenon
<1>5. CASE type # "ml-dsa-65"
  <2>1. Listed(key) = Full(key)
    BY <1>1, <1>5, Zenon DEF Listed
  <2>2. Full(key).key = key
    BY DEF Full
  <2>3. Display(key).prefix = type /\ Display(key).base58 /\ Display(key).data = b
    BY TextParts, ZenonT(30)
  <2>4. HandleFromStr(Display(key)) = Ok(Full(key))
    BY <1>2, <2>3, HandleFromText, Zenon
  <2> QED
    BY <2>1, <2>2, <2>4, Zenon
<1> QED
  BY <1>4, <1>5, Zenon

\* The forms a secret can be held in.
LEMMA SecretForms ==
    ASSUME NEW type \in KeyTypes, NEW name, NEW s \in Forms(SecretKey(type, name))
    PROVE  \E b, len : /\ s = Key(type, b) /\ IsBytes(b, len, <<type, name>>)
                       /\ len \in Nat /\ (len = 32 \/ (type = "ml-dsa-65" /\ len = ML_DSA_65_SECRET_KEY_LENGTH))
<1> DEFINE b == ByteString(32, <<type, name>>, TRUE)
<1> DEFINE c == Resized(b, ML_DSA_65_SECRET_KEY_LENGTH)
<1> DEFINE k == Key(type, b)
<1>1. SecretKey(type, name) = k
  BY Zenon DEF SecretKey
<1>2. k.type = type /\ k.bytes = b
  BY KeyParts, Zenon
<1>3. IsBytes(b, 32, <<type, name>>) /\ IsBytes(c, ML_DSA_65_SECRET_KEY_LENGTH, <<type, name>>)
  BY BytesMade, OtherLength, Zenon
<1>4. Resized(k.bytes, ML_DSA_65_SECRET_KEY_LENGTH) = c
  BY <1>2, Zenon
<1>5. to_ml_dsa65_expanded(k) = IF type = "ml-dsa-65" THEN Ok(Key(type, c)) ELSE Fail("None")
  BY <1>2, <1>4, Zenon DEF to_ml_dsa65_expanded, Resized
<1>6. type # "ml-dsa-65" => ~to_ml_dsa65_expanded(k).ok
  BY <1>5, Outcomes, Zenon
<1>7. s = k \/ (type = "ml-dsa-65" /\ s = Key(type, c))
  <2> HIDE DEF k, c
  <2>1. s \in Forms(k)
    BY <1>1, Zenon
  <2>2. s = k \/ (to_ml_dsa65_expanded(k).ok /\ s = to_ml_dsa65_expanded(k).value)
    BY <2>1, Zenon DEF Forms
  <2>3. CASE type = "ml-dsa-65"
    <3>1. to_ml_dsa65_expanded(k) = Ok(Key(type, c))
      BY <1>5, <2>3, Zenon
    <3>2. to_ml_dsa65_expanded(k).value = Key(type, c)
      BY <3>1, Outcomes, Zenon
    <3> QED
      BY <2>2, <2>3, <3>2, Zenon
  <2>4. CASE type # "ml-dsa-65"
    BY <1>6, <2>2, <2>4, Zenon
  <2> QED
    BY <2>3, <2>4, Zenon
<1>8. 32 \in Nat /\ ML_DSA_65_SECRET_KEY_LENGTH \in Nat
  BY DEF ML_DSA_65_SECRET_KEY_LENGTH
<1> QED
  BY <1>3, <1>7, <1>8, Zenon

\* What a secret and its signatures are read back as.
ReadBack(secret, message) ==
    /\ SecretKeyFromStr(Display(secret)) = Ok(secret)
    /\ PublicKeyFromStr(Display(public_key(secret))) = Ok(public_key(secret))
    /\ PublicKeyFromBorsh(BorshKey(public_key(secret))) = Ok(public_key(secret))
    /\ HandleFromStr(Display(Listed(public_key(secret)).key)) = Ok(Listed(public_key(secret)))
    /\ SignatureFromStr(Display(sign(secret, message))) = Ok(sign(secret, message))
    /\ SignatureFromBorsh(BorshKey(sign(secret, message))) = Ok(sign(secret, message))

\* A public key of valid bytes is read back as it is.
LEMMA PublicReadsBack ==
    ASSUME NEW type \in KeyTypes, NEW what, NEW b, IsBytes(b, public_key_len[type], what)
    PROVE  /\ PublicKeyFromStr(Display(Key(type, b))) = Ok(Key(type, b))
           /\ PublicKeyFromBorsh(BorshKey(Key(type, b))) = Ok(Key(type, b))
<1>1. PublicKeyFromStr(Display(Key(type, b))) = Ok(Key(type, b))
  BY TextParts, PublicFromText
<1>2. b.len = public_key_len[type] /\ b.valid
  BY DEF IsBytes
<1>3. PublicKeyFromBorsh(BorshKey(Key(type, b))) = Ok(Key(type, b))
  BY <1>2, TaggedRead DEF PublicKeyFromBorsh
<1> QED
  BY <1>1, <1>3

\* And so is a signature.
LEMMA SignatureReadsBack ==
    ASSUME NEW type \in KeyTypes, NEW what, NEW b, IsBytes(b, signature_len[type], what)
    PROVE  /\ SignatureFromStr(Display(Key(type, b))) = Ok(Key(type, b))
           /\ SignatureFromBorsh(BorshKey(Key(type, b))) = Ok(Key(type, b))
<1>1. SignatureFromStr(Display(Key(type, b))) = Ok(Key(type, b))
  BY TextParts, SignatureFromText
<1>2. b.len = signature_len[type] /\ b.valid
  BY DEF IsBytes
<1>3. SignatureFromBorsh(BorshKey(Key(type, b))) = Ok(Key(type, b))
  BY <1>2, TaggedRead DEF SignatureFromBorsh
<1> QED
  BY <1>1, <1>3

\* They are read back as they are.
LEMMA SecretsReadBack ==
    ASSUME NEW type \in KeyTypes, NEW what, NEW len \in Nat, len = 32 \/ (type = "ml-dsa-65" /\ len = ML_DSA_65_SECRET_KEY_LENGTH),
           NEW b, IsBytes(b, len, what), NEW message
    PROVE  ReadBack(Key(type, b), message)
<1> DEFINE secret == Key(type, b)
<1> DEFINE c == ByteString(public_key_len[type], what, TRUE)
<1> DEFINE d == ByteString(signature_len[type], <<type, b.is[2], message>>, TRUE)
<1>1. b.is = what
  BY DEF IsBytes
<1>2. public_key(secret) = Key(type, c) /\ sign(secret, message) = Key(type, d)
  BY <1>1, PublicParts, SignParts, Zenon
<1>3. IsBytes(c, public_key_len[type], what) /\ IsBytes(d, signature_len[type], <<type, b.is[2], message>>)
  BY BytesMade, Zenon
<1>4. SecretKeyFromStr(Display(secret)) = Ok(secret)
  BY TextParts, SecretFromText
<1>5. /\ PublicKeyFromStr(Display(Key(type, c))) = Ok(Key(type, c))
      /\ PublicKeyFromBorsh(BorshKey(Key(type, c))) = Ok(Key(type, c))
  BY <1>3, PublicReadsBack, Zenon
<1>6. /\ SignatureFromStr(Display(Key(type, d))) = Ok(Key(type, d))
      /\ SignatureFromBorsh(BorshKey(Key(type, d))) = Ok(Key(type, d))
  BY <1>3, SignatureReadsBack, Zenon
<1>7. HandleFromStr(Display(Listed(Key(type, c)).key)) = Ok(Listed(Key(type, c)))
  BY ListedReadBack, Zenon
<1> QED
  BY <1>2, <1>4, <1>5, <1>6, <1>7, Zenon DEF ReadBack

\* The keys an input is about.
KeyGiven(type, other, name, message) ==
    input = [of |-> "key", secret |-> SecretKey(type, name), other |-> SecretKey(other, "k1"), message |-> message]

\* Every key is read back as itself.
LEMMA KeysRead ==
    ASSUME NEW type \in KeyTypes, NEW other \in KeyTypes, NEW name, NEW message, KeyGiven(type, other, name, message)
    PROVE  KeysReadBack
<1>1. input.secret = SecretKey(type, name) /\ input.message = message
  BY DEF KeyGiven
<1>2. ASSUME NEW secret \in Forms(SecretKey(type, name)) PROVE ReadBack(secret, message)
  <2>1. PICK b, len : /\ secret = Key(type, b) /\ IsBytes(b, len, <<type, name>>)
                      /\ len \in Nat /\ (len = 32 \/ (type = "ml-dsa-65" /\ len = ML_DSA_65_SECRET_KEY_LENGTH))
    BY SecretForms, Zenon
  <2> QED
    BY <2>1, SecretsReadBack, Zenon
<1> QED
  BY <1>1, <1>2, Zenon DEF KeysReadBack, ReadBack

\* A public key and a signature of a secret.
PublicIs(p, type, name) == p.type = type /\ p.bytes.is = <<type, name>>
SignIs(s, type, name, m) == s.type = type /\ s.bytes.is = <<type, name, m>> /\ s.bytes.valid

\* What a public key stands for.
LEMMA PublicKeyIs ==
    ASSUME NEW type \in KeyTypes, NEW name
    PROVE  PublicIs(public_key(SecretKey(type, name)), type, name)
<1> DEFINE b == ByteString(32, <<type, name>>, TRUE)
<1> DEFINE c == ByteString(public_key_len[type], <<type, name>>, TRUE)
<1>1. IsBytes(b, 32, <<type, name>>) /\ IsBytes(c, public_key_len[type], <<type, name>>)
  BY BytesMade, Zenon
<1>2. b.is = <<type, name>> /\ c.is = <<type, name>>
  BY <1>1, Zenon DEF IsBytes
<1>3. public_key(SecretKey(type, name)) = Key(type, c)
  BY <1>2, PublicParts, Zenon DEF SecretKey
<1>4. Key(type, c).type = type /\ Key(type, c).bytes = c
  BY KeyParts, Zenon
<1> QED
  BY <1>2, <1>3, <1>4, Zenon DEF PublicIs

\* What a signature stands for, whatever form the secret is held in.
LEMMA SignOf ==
    ASSUME NEW type \in KeyTypes, NEW name, NEW secret \in Forms(SecretKey(type, name)), NEW m
    PROVE  SignIs(sign(secret, m), type, name, m)
<1>1. PICK b, len : secret = Key(type, b) /\ IsBytes(b, len, <<type, name>>)
  BY SecretForms, Zenon
<1>2. b.is[2] = name
  <2>1. b.is = <<type, name>>
    BY <1>1 DEF IsBytes
  <2> QED
    BY <2>1
<1> DEFINE d == ByteString(signature_len[type], <<type, name, m>>, TRUE)
<1>3. sign(secret, m) = Key(type, d)
  BY <1>1, <1>2, SignParts, Zenon
<1>4. IsBytes(d, signature_len[type], <<type, name, m>>)
  BY BytesMade, Zenon
<1>5. d.is = <<type, name, m>> /\ d.valid
  BY <1>4, Zenon DEF IsBytes
<1>6. Key(type, d).type = type /\ Key(type, d).bytes = d
  BY KeyParts, Zenon
<1> QED
  BY <1>3, <1>5, <1>6, Zenon DEF SignIs

\* Two public keys are the same only if their secrets are.
LEMMA SamePublic ==
    ASSUME NEW type \in KeyTypes, NEW other \in KeyTypes, NEW name, NEW k
    PROVE  public_key(SecretKey(other, k)) = public_key(SecretKey(type, name)) <=> type = other /\ name = k
<1> DEFINE p == public_key(SecretKey(other, k))
<1> DEFINE q == public_key(SecretKey(type, name))
<1>1. PublicIs(p, other, k) /\ PublicIs(q, type, name)
  BY PublicKeyIs, Zenon
<1>2. p.bytes.is = <<other, k>> /\ q.bytes.is = <<type, name>>
  BY <1>1, Zenon DEF PublicIs
<1>3. <<other, k>> = <<type, name>> => type = other /\ name = k
  OBVIOUS
<1>4. ASSUME p = q PROVE type = other /\ name = k
  <2>1. p.bytes.is = q.bytes.is
    BY <1>4, Zenon
  <2> QED
    BY <1>2, <1>3, <2>1, Zenon
<1>5. ASSUME type = other, name = k PROVE p = q
  BY <1>5, Zenon
<1> QED
  BY <1>4, <1>5, Zenon

\* A signature verifies with its own key and message only.
LEMMA KeysVerify ==
    ASSUME NEW type \in KeyTypes, NEW other \in KeyTypes, NEW name, NEW message, KeyGiven(type, other, name, message)
    PROVE  VerifiesOwnOnly
<1> DEFINE p == public_key(SecretKey(other, "k1"))
<1> DEFINE q == public_key(SecretKey(type, name))
<1>1. input.secret = SecretKey(type, name) /\ input.other = SecretKey(other, "k1") /\ input.message = message
  BY DEF KeyGiven
<1>2. p = q <=> type = other /\ name = "k1"
  BY SamePublic
<1>3. ASSUME NEW secret \in Forms(SecretKey(type, name)), NEW m
      PROVE  verify_key(sign(secret, message), m, p) <=> m = message /\ p = q
  <2> DEFINE s == sign(secret, message)
  <2>1. SignIs(s, type, name, message) /\ PublicIs(p, other, "k1")
    BY SignOf, PublicKeyIs, Zenon
  <2>2. s.type = type /\ s.bytes.is = <<type, name, message>> /\ s.bytes.valid
    BY <2>1, Zenon DEF SignIs
  <2>3. p.type = other /\ p.bytes.is[2] = "k1"
    BY <2>1 DEF PublicIs
  <2>4. verify_key(s, m, p) <=> type = other /\ <<type, name, message>> = <<other, "k1", m>>
    BY <2>2, <2>3, Zenon DEF verify_key
  <2>5. <<type, name, message>> = <<other, "k1", m>> <=> type = other /\ name = "k1" /\ message = m
    OBVIOUS
  <2> QED
    BY <1>2, <2>4, <2>5
<1> QED
  BY <1>1, <1>3 DEF VerifiesOwnOnly

\* Handles tell what they are of.
LEMMA HandlesTell ==
    ASSUME NEW k, NEW l
    PROVE  /\ Full(k) = Full(l) => k = l
           /\ Full(k).handle = "full" /\ to_ml_dsa65_hash(k).handle = "hash"
           /\ to_ml_dsa65_hash(k) = to_ml_dsa65_hash(l) => k.bytes.is = l.bytes.is
<1>1. Full(k) = Full(l) => k = l
  BY DEF Full
<1>2. Full(k).handle = "full" /\ to_ml_dsa65_hash(k).handle = "hash"
  BY DEF Full, to_ml_dsa65_hash
<1>3. ASSUME NEW x PROVE to_ml_dsa65_hash(x).key.bytes.is = x.bytes.is
  BY DEF to_ml_dsa65_hash, Key, ByteString
<1> QED
  BY <1>1, <1>2, <1>3, Zenon

\* A key is found in the list of the chain, and no other is.
LEMMA KeysFound ==
    ASSUME NEW type \in KeyTypes, NEW other \in KeyTypes, NEW name, NEW message, KeyGiven(type, other, name, message)
    PROVE  FindsItsKey
<1> DEFINE p == public_key(SecretKey(other, "k1"))
<1> DEFINE q == public_key(SecretKey(type, name))
<1>1. input.secret = SecretKey(type, name) /\ input.other = SecretKey(other, "k1")
  BY DEF KeyGiven
<1>2. PublicIs(p, other, "k1") /\ PublicIs(q, type, name)
  BY PublicKeyIs, Zenon
<1>3. p.type = other /\ p.bytes.is = <<other, "k1">> /\ q.type = type /\ q.bytes.is = <<type, name>>
  BY <1>2, Zenon DEF PublicIs
<1>4. <<other, "k1">> = <<type, name>> => other = type /\ name = "k1"
  OBVIOUS
<1>5. p = q <=> type = other /\ name = "k1"
  BY SamePublic
<1>6. "full" # "hash"
  OBVIOUS
<1> HIDE DEF p, q
<1>7. ASSUME other = "ml-dsa-65" PROVE refers_to(Listed(p), q) <=> p = q
  <2>1. Listed(p) = to_ml_dsa65_hash(p)
    BY <1>3, <1>7, Zenon DEF Listed
  <2>2. Listed(p) # Full(q) /\ Listed(p).handle = "hash"
    BY <1>6, <2>1, HandlesTell, Zenon
  <2>3. to_ml_dsa65_hash(p) = to_ml_dsa65_hash(q) => p = q
    BY <1>3, <1>4, <1>5, HandlesTell, Zenon
  <2>4. refers_to(Listed(p), q) <=> q.type = "ml-dsa-65" /\ to_ml_dsa65_hash(p) = to_ml_dsa65_hash(q)
    BY <2>1, <2>2 DEF refers_to
  <2>5. p = q => q.type = "ml-dsa-65" /\ to_ml_dsa65_hash(p) = to_ml_dsa65_hash(q)
    BY <1>3, <1>7, Zenon
  <2> QED
    BY <2>3, <2>4, <2>5
<1>8. ASSUME other # "ml-dsa-65" PROVE refers_to(Listed(p), q) <=> p = q
  <2>1. Listed(p) = Full(p)
    BY <1>3, <1>8, Zenon DEF Listed
  <2>2. Listed(p).handle # "hash"
    BY <1>6, <2>1, HandlesTell, Zenon
  <2>3. refers_to(Listed(p), q) <=> Full(p) = Full(q)
    BY <2>1, <2>2 DEF refers_to
  <2>4. Full(p) = Full(q) <=> p = q
    BY DEF Full
  <2> QED
    BY <2>3, <2>4
<1>9. refers_to(Listed(p), q) <=> p = q
  BY <1>7, <1>8
<1> QED
  BY <1>1, <1>9, Zenon DEF FindsItsKey, p, q

\* The text a secret is accepted from, and the secret.
SecretAccepted(t, s) ==
    /\ t.prefix \in KeyTypes
    /\ \/ t.prefix = "ml-dsa-65" /\ t.data.len = 32 /\ s = Key(t.prefix, t.data)
       \/ t.prefix = "ml-dsa-65" /\ t.data.len = ML_DSA_65_SECRET_KEY_LENGTH /\ t.data.valid /\ s = Key(t.prefix, t.data)
       \/ t.prefix = "secp256k1" /\ t.data.len = 32 /\ t.data.valid /\ s = Key(t.prefix, t.data)
       \/ t.prefix = "ed25519" /\ s = Key(t.prefix, Resized(t.data, 32))

\* A text that is accepted as a secret is one of these.
LEMMA AcceptedSecrets ==
    ASSUME NEW t, t.prefix \in KeyTypes \cup {"no colon", "ml-dsa-65-hash", "other"}, SecretKeyFromStr(t).ok
    PROVE  \E s : SecretAccepted(t, s) /\ SecretKeyFromStr(t) = Ok(s)
<1>1. t.prefix \in KeyTypes /\ t.base58
  <2>1. \A e : ~Fail(e).ok
    BY DEF Fail
  <2>2. t.prefix = "no colon" => SecretKeyFromStr(t) = Fail("InvalidFormat")
    BY DEF SecretKeyFromStr, KeyTypes
  <2>3. t.prefix \in {"ml-dsa-65-hash", "other"} => SecretKeyFromStr(t) = Fail("UnknownKeyType")
    BY DEF SecretKeyFromStr, KeyTypes
  <2>4. t.prefix \in KeyTypes /\ ~t.base58 => SecretKeyFromStr(t) = Fail("InvalidBase58")
    BY DEF SecretKeyFromStr, KeyTypes
  <2> QED
    BY <2>1, <2>2, <2>3, <2>4
<1>2. CASE t.prefix = "ed25519"
  <2>1. SecretKeyFromStr(t) = IF t.data.len \in {32, 64} THEN Ok(Key("ed25519", Resized(t.data, 32))) ELSE Fail("InvalidLength")
    BY <1>1, <1>2 DEF SecretKeyFromStr, KeyTypes, Resized
  <2>2. SecretKeyFromStr(t) = Ok(Key(t.prefix, Resized(t.data, 32)))
    BY <1>2, <2>1, Outcomes
  <2> QED
    BY <1>1, <1>2, <2>2, Zenon DEF SecretAccepted
<1>3. CASE t.prefix = "secp256k1"
  <2>1. SecretKeyFromStr(t) = CASE t.data.len # 32 -> Fail("InvalidLength")
              [] t.data.len = 32 /\ ~t.data.valid -> Fail("InvalidScalar")
              [] OTHER -> Ok(Key("secp256k1", t.data))
    BY <1>1, <1>3 DEF SecretKeyFromStr, KeyTypes
  <2>2. SecretKeyFromStr(t) = Ok(Key(t.prefix, t.data)) /\ t.data.len = 32 /\ t.data.valid
    BY <1>3, <2>1, Outcomes
  <2> QED
    BY <1>1, <1>3, <2>2, Zenon DEF SecretAccepted
<1>4. CASE t.prefix = "ml-dsa-65"
  <2>1. SecretKeyFromStr(t) =
            CASE t.data.len = ML_DSA_65_SEED_LENGTH -> Ok(Key("ml-dsa-65", t.data))
              [] t.data.len = ML_DSA_65_SECRET_KEY_LENGTH -> ml_dsa65_from_expanded(t.data)
              [] OTHER -> Fail("InvalidLength")
    BY <1>1, <1>4 DEF SecretKeyFromStr, KeyTypes
  <2>2. /\ SecretKeyFromStr(t) = Ok(Key(t.prefix, t.data))
        /\ t.data.len = 32 \/ (t.data.len = ML_DSA_65_SECRET_KEY_LENGTH /\ t.data.valid)
    BY <1>4, <2>1, Outcomes DEF ml_dsa65_from_expanded, ML_DSA_65_SEED_LENGTH, ML_DSA_65_SECRET_KEY_LENGTH
  <2> QED
    BY <1>1, <1>4, <2>2, Zenon DEF SecretAccepted
<1> QED
  BY <1>1, <1>2, <1>3, <1>4 DEF KeyTypes

\* A secret that was accepted can be used.
LEMMA AcceptedUsable ==
    ASSUME NEW t, NEW s, SecretAccepted(t, s), "len" \in DOMAIN t.data
    PROVE  ~UsePanics(s)
<1>1. \A b : Key(t.prefix, b).type = t.prefix /\ Key(t.prefix, b).bytes = b
  BY KeyParts
<1>2. Resized(t.data, 32).len = 32
  BY DEF Resized
<1> QED
  BY <1>1, <1>2 DEF SecretAccepted, UsePanics, ML_DSA_65_SECRET_KEY_LENGTH, KeyTypes

\* And is read back as itself.
LEMMA AcceptedAgain ==
    ASSUME NEW t, NEW s, SecretAccepted(t, s), "len" \in DOMAIN t.data
    PROVE  SecretKeyFromStr(Display(s)) = Ok(s)
<1>1. PICK b : s = Key(t.prefix, b) /\ b \in {t.data, Resized(t.data, 32)}
  BY DEF SecretAccepted
<1>2. Display(s).prefix = t.prefix /\ Display(s).base58 /\ Display(s).data = b
  BY <1>1, TextParts
<1>3. CASE t.prefix = "ed25519"
  <2>1. s = Key("ed25519", Resized(t.data, 32)) /\ b = Resized(t.data, 32)
    BY <1>1, <1>3, KeyParts DEF SecretAccepted
  <2>2. b.len = 32 /\ [b EXCEPT !.len = 32] = b
    BY <2>1 DEF Resized
  <2> QED
    BY <1>2, <1>3, <2>1, <2>2 DEF SecretKeyFromStr, KeyTypes
<1>4. CASE t.prefix = "secp256k1"
  <2>1. s = Key("secp256k1", t.data) /\ b = t.data /\ b.len = 32 /\ b.valid
    BY <1>1, <1>4, KeyParts DEF SecretAccepted
  <2> QED
    BY <1>2, <1>4, <2>1 DEF SecretKeyFromStr, KeyTypes
<1>5. CASE t.prefix = "ml-dsa-65"
  <2>1. /\ s = Key("ml-dsa-65", t.data) /\ b = t.data
        /\ b.len = 32 \/ (b.len = ML_DSA_65_SECRET_KEY_LENGTH /\ b.valid)
    BY <1>1, <1>5, KeyParts DEF SecretAccepted
  <2> QED
    BY <1>2, <1>5, <2>1 DEF SecretKeyFromStr, KeyTypes, ml_dsa65_from_expanded, ML_DSA_65_SEED_LENGTH, ML_DSA_65_SECRET_KEY_LENGTH
<1> QED
  BY <1>3, <1>4, <1>5 DEF SecretAccepted, KeyTypes

\* What is known of a public key that was accepted.
LEMMA AcceptedPublic ==
    ASSUME NEW t, t.prefix \in KeyTypes \cup {"no colon", "ml-dsa-65-hash", "other"}, PublicKeyFromStr(t).ok
    PROVE  /\ t.prefix \in KeyTypes /\ t.base58 /\ t.data.len = public_key_len[t.prefix]
           /\ t.data.valid \/ t.prefix = "ml-dsa-65"
           /\ PublicKeyFromStr(t) = Ok(Key(t.prefix, t.data))
<1>1. t.prefix \in KeyTypes /\ t.base58
  <2>1. \A e : ~Fail(e).ok
    BY DEF Fail
  <2>2. t.prefix \notin KeyTypes \/ ~t.base58 => \E e : PublicKeyFromStr(t) = Fail(e)
    BY DEF PublicKeyFromStr, KeyTypes
  <2> QED
    BY <2>1, <2>2
<1>2. PublicKeyFromStr(t) =
            CASE t.data.len # public_key_len[t.prefix] -> Fail("InvalidLength")
              [] t.data.len = public_key_len[t.prefix] /\ ~t.data.valid /\ t.prefix # "ml-dsa-65" ->
                    Fail("InvalidCurvePoint")
              [] OTHER -> Ok(Key(t.prefix, t.data))
  BY <1>1 DEF PublicKeyFromStr, KeyTypes
<1> QED
  BY <1>1, <1>2, Outcomes

\* The text an input is about.
TextGiven(prefix, base58, len, valid) ==
    input = [of |-> "text", text |-> KeyText(prefix, base58, ByteString(len, <<prefix, "k1">>, valid))]

\* The prefix of a text.
LEMMA TextPrefix == ASSUME NEW p, NEW b, NEW d PROVE KeyText(p, b, d).prefix = p
BY DEF KeyText

\* The bytes of a text.
LEMMA TextData == ASSUME NEW p, NEW b, NEW d PROVE KeyText(p, b, d).data = d
BY DEF KeyText

\* A text that is base58.
LEMMA TextBase58 == ASSUME NEW p, NEW b, NEW d, KeyText(p, b, d).base58 PROVE b
BY DEF KeyText

\* Bytes have a length.
LEMMA BytesLength == ASSUME NEW len, NEW what, NEW valid PROVE "len" \in DOMAIN ByteString(len, what, valid)
BY DEF ByteString

\* A public key that was accepted is written as it was read.
LEMMA AcceptedWritten ==
    ASSUME NEW prefix, NEW base58 \in BOOLEAN, NEW d, base58
    PROVE  Display(Key(prefix, d)) = KeyText(prefix, base58, d)
<1>1. base58 = TRUE
  BY Zenon
<1>2. Display(Key(prefix, d)) = KeyText(prefix, TRUE, d)
  BY KeyParts, Zenon DEF Display
<1> QED
  BY <1>1, <1>2, Zenon

\* A public key that was accepted is read from borsh.
LEMMA AcceptedBorsh ==
    ASSUME NEW type \in KeyTypes, NEW b, b.len = public_key_len[type], b.valid \/ type = "ml-dsa-65"
    PROVE  PublicKeyFromBorsh(BorshKey(Key(type, b))) = Ok(Key(type, b))
<1>1. b.valid \/ type \notin {"ed25519", "secp256k1"}
  OBVIOUS
<1>2. ReadTagged(BorshKey(Key(type, b)), public_key_len, {"ed25519", "secp256k1"}) = Ok(Key(type, b))
  BY <1>1, TaggedRead
<1> QED
  BY <1>2 DEF PublicKeyFromBorsh

\* A public key that was accepted is the same as a handle and as borsh.
LEMMA AcceptedElsewhere ==
    ASSUME NEW t, t.prefix \in KeyTypes \cup {"no colon", "ml-dsa-65-hash", "other"}, PublicKeyFromStr(t).ok
    PROVE  /\ PublicKeyFromStr(t).value = Key(t.prefix, t.data)
           /\ HandleFromStr(t) = Ok(Full(PublicKeyFromStr(t).value))
           /\ PublicKeyFromBorsh(BorshKey(PublicKeyFromStr(t).value)) = PublicKeyFromStr(t)
<1>1. /\ t.prefix \in KeyTypes /\ t.base58 /\ t.data.len = public_key_len[t.prefix]
      /\ t.data.valid \/ t.prefix = "ml-dsa-65"
      /\ PublicKeyFromStr(t) = Ok(Key(t.prefix, t.data))
  BY AcceptedPublic
<1>2. PublicKeyFromStr(t).value = Key(t.prefix, t.data)
  BY <1>1, Outcomes
<1>3. t.prefix # "ml-dsa-65-hash"
  BY <1>1 DEF KeyTypes
<1>4. HandleFromStr(t) = Ok(Full(PublicKeyFromStr(t).value))
  BY <1>3 DEF HandleFromStr
<1>5. PublicKeyFromBorsh(BorshKey(Key(t.prefix, t.data))) = Ok(Key(t.prefix, t.data))
  BY <1>1, AcceptedBorsh
<1> QED
  BY <1>1, <1>2, <1>4, <1>5

\* What a text that is accepted has to do.
Works(t) ==
    /\ SecretKeyFromStr(t).ok => /\ ~UsePanics(SecretKeyFromStr(t).value)
                                 /\ SecretKeyFromStr(Display(SecretKeyFromStr(t).value)) = SecretKeyFromStr(t)
    /\ PublicKeyFromStr(t).ok => /\ Display(PublicKeyFromStr(t).value) = t
                                 /\ HandleFromStr(t) = Ok(Full(PublicKeyFromStr(t).value))
                                 /\ PublicKeyFromBorsh(BorshKey(PublicKeyFromStr(t).value)) = PublicKeyFromStr(t)

\* Every text that is accepted is a key that works.
LEMMA TextWorks ==
    ASSUME NEW prefix \in KeyTypes \cup {"no colon", "ml-dsa-65-hash", "other"}, NEW base58 \in BOOLEAN,
           NEW d, "len" \in DOMAIN d, NEW t, t = KeyText(prefix, base58, d)
    PROVE  Works(t)
<1>1. t.prefix = prefix /\ t.data = d
  BY TextPrefix, TextData, ZenonT(30)
<1>2. t.base58 => base58
  BY TextBase58, Zenon
<1>3. "len" \in DOMAIN t.data
  BY <1>1, Zenon
<1>4. t.prefix \in KeyTypes \cup {"no colon", "ml-dsa-65-hash", "other"}
  BY <1>1, Zenon
<1>5. ASSUME SecretKeyFromStr(t).ok
      PROVE  /\ ~UsePanics(SecretKeyFromStr(t).value)
             /\ SecretKeyFromStr(Display(SecretKeyFromStr(t).value)) = SecretKeyFromStr(t)
  <2>1. PICK s : SecretAccepted(t, s) /\ SecretKeyFromStr(t) = Ok(s)
    BY <1>4, <1>5, AcceptedSecrets, Zenon
  <2>2. SecretKeyFromStr(t).value = s
    BY <2>1, Outcomes, Zenon
  <2> QED
    BY <1>3, <2>1, <2>2, AcceptedUsable, AcceptedAgain, Zenon
<1>6. ASSUME PublicKeyFromStr(t).ok
      PROVE  /\ Display(PublicKeyFromStr(t).value) = t
             /\ HandleFromStr(t) = Ok(Full(PublicKeyFromStr(t).value))
             /\ PublicKeyFromBorsh(BorshKey(PublicKeyFromStr(t).value)) = PublicKeyFromStr(t)
  <2>1. /\ PublicKeyFromStr(t).value = Key(t.prefix, t.data)
        /\ HandleFromStr(t) = Ok(Full(PublicKeyFromStr(t).value))
        /\ PublicKeyFromBorsh(BorshKey(PublicKeyFromStr(t).value)) = PublicKeyFromStr(t)
    BY <1>4, <1>6, AcceptedElsewhere, Zenon
  <2>2. t.base58
    BY <1>4, <1>6, AcceptedPublic, Zenon
  <2>3. Display(Key(prefix, d)) = KeyText(prefix, base58, d)
    BY <1>2, <2>2, AcceptedWritten, Zenon
  <2>4. Display(PublicKeyFromStr(t).value) = t
    BY <1>1, <2>1, <2>3, Zenon
  <2> QED
    BY <2>1, <2>4, Zenon
<1> QED
  BY <1>5, <1>6, Zenon DEF Works

\* Every text the exercise gives is of that kind.
LEMMA TextsWork ==
    ASSUME NEW prefix \in KeyTypes \cup {"no colon", "ml-dsa-65-hash", "other"}, NEW base58 \in BOOLEAN, NEW len,
           NEW valid \in BOOLEAN, TextGiven(prefix, base58, len, valid)
    PROVE  AcceptedKeysWork
<1>1. PICK d : d = ByteString(len, <<prefix, "k1">>, valid)
  BY Zenon
<1>2. input.text = KeyText(prefix, base58, d)
  BY <1>1 DEF TextGiven
<1>3. "len" \in DOMAIN d
  BY <1>1, BytesLength, Zenon
<1> QED
  <2>1. Works(input.text)
    BY <1>2, <1>3, TextWorks, Zenon
  <2> QED
    BY <2>1, Zenon DEF AcceptedKeysWork, Works
-----------------------------------------------------------------------------
(* Keys: seed phrases. *)

\* What a phrase is after it is read.
SeedOf(phrase, passphrase) ==
    <<[phrase EXCEPT !.spelling = "plain"], IF passphrase = "none" THEN "" ELSE passphrase>>

\* A key of a phrase.
KeyOf(type, phrase, path, passphrase) ==
    SecretKey(type, <<type, SeedOf(phrase, passphrase), parse_hd_path(path).value>>)

\* What a phrase is turned into.
LEMMA FromPhrase ==
    ASSUME NEW type, NEW phrase, NEW path, NEW passphrase
    PROVE  /\ from_seed_phrase(type, phrase, path, passphrase).ok <=> phrase.words \in WordCounts /\ parse_hd_path(path).ok
           /\ from_seed_phrase(type, phrase, path, passphrase).ok =>
                 from_seed_phrase(type, phrase, path, passphrase) = Ok(KeyOf(type, phrase, path, passphrase))
<1> DEFINE seed == mnemonic_to_seed(phrase, passphrase)
<1> DEFINE made == from_seed_phrase(type, phrase, path, passphrase)
<1>1. CASE phrase.words \in WordCounts
  <2>1. seed = Ok(SeedOf(phrase, passphrase))
    BY <1>1, Zenon DEF mnemonic_to_seed, SeedOf
  <2>2. seed.ok /\ seed.value = SeedOf(phrase, passphrase)
    BY <2>1, Outcomes, Zenon
  <2>3. CASE parse_hd_path(path).ok
    <3>1. made = Ok(KeyOf(type, phrase, path, passphrase))
      BY <2>2, <2>3 DEF from_seed_phrase, KeyOf, derive_slip10
    <3> QED
      BY <1>1, <2>3, <3>1, Outcomes
  <2>4. CASE ~parse_hd_path(path).ok
    <3>1. made = Fail("KeyDerivationFailed")
      BY <2>2, <2>4 DEF from_seed_phrase
    <3> QED
      BY <2>4, <3>1, Outcomes
  <2> QED
    BY <2>3, <2>4
<1>2. CASE phrase.words \notin WordCounts
  <2>1. seed = Fail("InvalidSeedPhrase")
    BY <1>2, Zenon DEF mnemonic_to_seed
  <2>2. made = seed
    BY <2>1, Outcomes DEF from_seed_phrase
  <2> QED
    BY <1>2, <2>1, <2>2, Outcomes
<1> QED
  BY <1>1, <1>2

\* What a secret stands for.
LEMMA SecretIs == ASSUME NEW type, NEW name PROVE SecretKey(type, name).bytes.is = <<type, name>>
BY DEF SecretKey, Key, ByteString

\* Two keys of phrases are the same only if all they are made of is.
LEMMA SameDerived ==
    ASSUME NEW type, NEW seed, NEW other, NEW x
    PROVE  SecretKey(type, <<type, seed, x>>) = SecretKey(type, <<type, other, x>>) => seed = other
<1>1. /\ SecretKey(type, <<type, seed, x>>).bytes.is = <<type, <<type, seed, x>>>>
      /\ SecretKey(type, <<type, other, x>>).bytes.is = <<type, <<type, other, x>>>>
  BY SecretIs
<1>2. <<type, <<type, seed, x>>>> = <<type, <<type, other, x>>>> => seed = other
  OBVIOUS
<1> QED
  BY <1>1, <1>2, Zenon

\* The keys of both branches differ.
LEMMA ApartDerived ==
    ASSUME NEW type, NEW type2, NEW seed, NEW x, type # type2
    PROVE  SecretKey(type2, <<type2, seed, x>>).bytes # SecretKey(type, <<type, seed, x>>).bytes
<1>1. /\ SecretKey(type, <<type, seed, x>>).bytes.is = <<type, <<type, seed, x>>>>
      /\ SecretKey(type2, <<type2, seed, x>>).bytes.is = <<type2, <<type2, seed, x>>>>
  BY SecretIs
<1>2. <<type, <<type, seed, x>>>> = <<type2, <<type2, seed, x>>>> => type = type2
  OBVIOUS
<1> QED
  BY <1>1, <1>2, Zenon

\* A phrase that was generated, and another spelling of it.
Phrase(words, spelling) == [words |-> words, entropy |-> "e", spelling |-> spelling]

\* A phrase by its parts.
LEMMA Spellings ==
    ASSUME NEW words, NEW x, NEW y
    PROVE  Phrase(words, x).words = words /\ [Phrase(words, x) EXCEPT !.spelling = y] = Phrase(words, y)
BY DEF Phrase

\* A phrase and a path that are accepted make a key.
LEMMA FromGoodPhrase ==
    ASSUME NEW type, NEW words \in WordCounts, NEW spelling, NEW path, parse_hd_path(path).ok, NEW passphrase
    PROVE  from_seed_phrase(type, Phrase(words, spelling), path, passphrase) =
               Ok(KeyOf(type, Phrase(words, "plain"), path, passphrase))
<1>1. Phrase(words, spelling).words \in WordCounts
  BY Spellings
<1>2. from_seed_phrase(type, Phrase(words, spelling), path, passphrase) =
          Ok(KeyOf(type, Phrase(words, spelling), path, passphrase))
  BY <1>1, FromPhrase
<1>3. SeedOf(Phrase(words, spelling), passphrase) = SeedOf(Phrase(words, "plain"), passphrase)
  BY Spellings DEF SeedOf
<1> QED
  BY <1>2, <1>3, Zenon DEF KeyOf

\* What generating a phrase makes.
LEMMA PhraseGenerated ==
    ASSUME NEW type, NEW words \in Nat, NEW path, NEW passphrase,
           generate_with_seed_phrase(type, words, "e", path, passphrase).ok
    PROVE  /\ words \in WordCounts /\ parse_hd_path(path).ok
           /\ generate_with_seed_phrase(type, words, "e", path, passphrase).value =
                  <<Phrase(words, "plain"), KeyOf(type, Phrase(words, "plain"), path, passphrase)>>
<1> DEFINE p == Phrase(words, "plain")
<1> DEFINE made == generate_with_seed_phrase(type, words, "e", path, passphrase)
<1> DEFINE key == from_seed_phrase(type, p, path, passphrase)
<1>1. ~(type = "ml-dsa-65" /\ words < MIN_ML_DSA_65_WORD_COUNT)
  <2>1. type = "ml-dsa-65" /\ words < MIN_ML_DSA_65_WORD_COUNT => made = Fail("KeyDerivationFailed")
    BY DEF generate_with_seed_phrase
  <2> QED
    BY <2>1, Outcomes
<1>2. words \in WordCounts
  <2>1. words \notin WordCounts => generate_seed_phrase(words, "e") = Fail("KeyDerivationFailed")
    BY DEF generate_seed_phrase
  <2>2. words \notin WordCounts => made = Fail("KeyDerivationFailed")
    BY <1>1, <2>1, Outcomes DEF generate_with_seed_phrase
  <2> QED
    BY <2>2, Outcomes
<1>3. generate_seed_phrase(words, "e") = Ok(p)
  BY <1>2, Zenon DEF generate_seed_phrase, Phrase
<1>4. generate_seed_phrase(words, "e").ok /\ generate_seed_phrase(words, "e").value = p
  BY <1>3, Outcomes, Zenon
<1>5. made = IF key.ok THEN Ok(<<p, key.value>>) ELSE key
  BY <1>1, <1>4 DEF generate_with_seed_phrase
<1>6. key.ok
  BY <1>5
<1>7. parse_hd_path(path).ok /\ key = Ok(KeyOf(type, p, path, passphrase))
  BY <1>6, FromPhrase, Zenon
<1>8. made.value = <<p, key.value>> /\ key.value = KeyOf(type, p, path, passphrase)
  BY <1>5, <1>6, <1>7, Outcomes, Zenon
<1> QED
  BY <1>2, <1>7, <1>8, Zenon

\* A passphrase as it is used, and what two of them have in common.
Normal(x) == IF x = "none" THEN "" ELSE x
SamePass(x, y) == x \in {"none", ""} <=> y \in {"none", ""}

\* Without a passphrase is with an empty one.
LEMMA NormalSame ==
    ASSUME NEW x \in {"none", "", "p"}, NEW y \in {"none", "", "p"}
    PROVE  Normal(y) = Normal(x) <=> SamePass(x, y)
<1>1. "p" # "" /\ "p" # "none" /\ "none" # ""
  OBVIOUS
<1>2. CASE x \in {"none", ""} /\ y \in {"none", ""}
  <2>1. Normal(y) = "" /\ Normal(x) = ""
    BY <1>2 DEF Normal
  <2>2. SamePass(x, y)
    BY <1>2 DEF SamePass
  <2> QED
    BY <2>1, <2>2
<1>3. CASE x = "p" /\ y = "p"
  BY <1>3, Zenon DEF SamePass
<1>4. CASE x \in {"none", ""} /\ y = "p"
  <2>1. Normal(x) = "" /\ Normal(y) = "p"
    BY <1>4 DEF Normal
  <2>2. ~SamePass(x, y)
    BY <1>1, <1>4, Zenon DEF SamePass
  <2> QED
    BY <1>1, <2>1, <2>2
<1>5. CASE x = "p" /\ y \in {"none", ""}
  <2>1. Normal(x) = "p" /\ Normal(y) = ""
    BY <1>5 DEF Normal
  <2>2. ~SamePass(x, y)
    BY <1>1, <1>5, Zenon DEF SamePass
  <2> QED
    BY <1>1, <2>1, <2>2
<1> QED
  BY <1>2, <1>3, <1>4, <1>5

\* A key of a phrase, as it is derived.
LEMMA Derived ==
    ASSUME NEW type, NEW words, NEW path, NEW x
    PROVE  KeyOf(type, Phrase(words, "plain"), path, x) =
               SecretKey(type, <<type, <<Phrase(words, "plain"), Normal(x)>>, parse_hd_path(path).value>>)
<1>1. SeedOf(Phrase(words, "plain"), x) = <<Phrase(words, "plain"), Normal(x)>>
  BY Spellings DEF SeedOf, Normal
<1> QED
  BY <1>1, Zenon DEF KeyOf

\* Keys of a phrase with two passphrases.
LEMMA DerivedSame ==
    ASSUME NEW type, NEW words, NEW path, NEW x \in {"none", "", "p"}, NEW y \in {"none", "", "p"}
    PROVE  KeyOf(type, Phrase(words, "plain"), path, y) = KeyOf(type, Phrase(words, "plain"), path, x) <=> SamePass(x, y)
<1> DEFINE p == Phrase(words, "plain")
<1> DEFINE r == parse_hd_path(path).value
<1>1. /\ KeyOf(type, p, path, y) = SecretKey(type, <<type, <<p, Normal(y)>>, r>>)
      /\ KeyOf(type, p, path, x) = SecretKey(type, <<type, <<p, Normal(x)>>, r>>)
  BY Derived, Zenon
<1>2. SecretKey(type, <<type, <<p, Normal(y)>>, r>>) = SecretKey(type, <<type, <<p, Normal(x)>>, r>>)
          <=> <<p, Normal(y)>> = <<p, Normal(x)>>
  <2>1. SecretKey(type, <<type, <<p, Normal(y)>>, r>>) = SecretKey(type, <<type, <<p, Normal(x)>>, r>>)
            => <<p, Normal(y)>> = <<p, Normal(x)>>
    BY SameDerived, Zenon
  <2> QED
    BY <2>1, Zenon
<1>3. <<p, Normal(y)>> = <<p, Normal(x)>> <=> Normal(y) = Normal(x)
  <2> HIDE DEF p
  <2> QED
    OBVIOUS
<1>4. Normal(y) = Normal(x) <=> SamePass(x, y)
  BY NormalSame
<1> QED
  BY <1>1, <1>2, <1>3, <1>4

\* Keys of both branches.
LEMMA DerivedApart ==
    ASSUME NEW type, NEW words, NEW path, NEW x, NEW type2, type2 # type
    PROVE  KeyOf(type2, Phrase(words, "plain"), path, x).bytes # KeyOf(type, Phrase(words, "plain"), path, x).bytes
<1> DEFINE p == Phrase(words, "plain")
<1> DEFINE r == parse_hd_path(path).value
<1>1. /\ KeyOf(type, p, path, x) = SecretKey(type, <<type, <<p, Normal(x)>>, r>>)
      /\ KeyOf(type2, p, path, x) = SecretKey(type2, <<type2, <<p, Normal(x)>>, r>>)
  BY Derived, Zenon
<1>2. SecretKey(type2, <<type2, <<p, Normal(x)>>, r>>).bytes # SecretKey(type, <<type, <<p, Normal(x)>>, r>>).bytes
  <2> HIDE DEF p, r
  <2> QED
    BY ApartDerived
<1> QED
  BY <1>1, <1>2, Zenon

\* A generated key is recovered from its phrase, and with nothing else.
LEMMA PhrasesRecover == ASSUME input \in Phrases PROVE RecoverableFromPhrase
<1> DEFINE made == generate_with_seed_phrase(input.type, input.words, "e", input.path, input.passphrase)
<1> DEFINE p == Phrase(input.words, "plain")
<1> DEFINE q == Phrase(input.words, input.spelling)
<1>1. ASSUME made.ok
      PROVE  /\ [made.value[1] EXCEPT !.spelling = input.spelling] = q
             /\ from_seed_phrase(input.type, q, input.path, input.other) = Ok(made.value[2])
                    <=> SamePass(input.passphrase, input.other)
             /\ \A type \in {"ed25519", "ml-dsa-65"} \ {input.type} :
                   from_seed_phrase(type, q, input.path, input.passphrase).value.bytes # made.value[2].bytes
  <2>1. input.words \in WordCounts \cup {0, 13, 27}
    BY DEF Phrases
  <2>2. input.passphrase \in {"none", "", "p"} /\ input.other \in {"none", "", "p"}
    BY DEF Phrases
  <2>3. input.words \in Nat
    BY <2>1 DEF WordCounts
  <2>4. /\ input.words \in WordCounts /\ parse_hd_path(input.path).ok
        /\ made.value = <<p, KeyOf(input.type, p, input.path, input.passphrase)>>
    BY <1>1, <2>3, PhraseGenerated
  <2>5. made.value[1] = p /\ made.value[2] = KeyOf(input.type, p, input.path, input.passphrase)
    BY <2>4
  <2>6. [made.value[1] EXCEPT !.spelling = input.spelling] = q
    BY <2>5, Spellings
  <2>7. \A type, x : from_seed_phrase(type, q, input.path, x) = Ok(KeyOf(type, p, input.path, x))
    BY <2>4, FromGoodPhrase
  <2>8. \A x, y : Ok(x) = Ok(y) <=> x = y
    BY DEF Ok
  <2>9. from_seed_phrase(input.type, q, input.path, input.other) = Ok(made.value[2])
           <=> KeyOf(input.type, p, input.path, input.other) = KeyOf(input.type, p, input.path, input.passphrase)
    BY <2>5, <2>7, <2>8
  <2>10. ASSUME NEW type \in {"ed25519", "ml-dsa-65"} \ {input.type}
         PROVE  from_seed_phrase(type, q, input.path, input.passphrase).value.bytes # made.value[2].bytes
    <3>1. from_seed_phrase(type, q, input.path, input.passphrase).value = KeyOf(type, p, input.path, input.passphrase)
      BY <2>7, Outcomes
    <3> QED
      BY <2>5, <3>1, DerivedApart
  <2>11. KeyOf(input.type, p, input.path, input.other) = KeyOf(input.type, p, input.path, input.passphrase)
            <=> SamePass(input.passphrase, input.other)
    BY <2>2, DerivedSame
  <2> QED
    BY <2>6, <2>9, <2>10, <2>11
<1> QED
  BY <1>1, Zenon DEF RecoverableFromPhrase, SamePass
-----------------------------------------------------------------------------
(* Keys: derivation paths. *)

\* The end behind i, whatever i is.
EndAfter(body, i) == IF i <= Len(body) THEN SegmentEnd(body, i) ELSE i

\* f has the ends of the first n segments.
Ending(body, n, f) ==
    /\ DOMAIN f = 0 .. n
    /\ f[0] = 0
    /\ \A i \in 1 .. n : f[i] = EndAfter(body, f[i - 1])

\* The recursion of SegmentEnds can be carried through any path.
LEMMA EndsExist ==
    ASSUME NEW body
    PROVE  \A n \in Nat : \E f : Ending(body, n, f)
<1> DEFINE Bad == {n \in Nat : ~ \E f : Ending(body, n, f)}
<1> SUFFICES ASSUME Bad # {} PROVE FALSE
  OBVIOUS
<1>1. PICK n \in Bad : \A m \in Bad : n <= m
  BY LeastNat, Bad \subseteq Nat
<1>2. n # 0
  <2>1. Ending(body, 0, [i \in 0 .. 0 |-> 0])
    BY DEF Ending
  <2> QED
    BY <1>1, <2>1
<1>3. n - 1 \in Nat /\ n - 1 \notin Bad
  BY <1>1, <1>2
<1>4. PICK f : Ending(body, n - 1, f)
  BY <1>3
<1> DEFINE g == [i \in 0 .. n |-> IF i = n THEN EndAfter(body, f[n - 1]) ELSE f[i]]
<1>5. Ending(body, n, g)
  <2>1. n \in Nat /\ n >= 1 /\ DOMAIN f = 0 .. n - 1 /\ f[0] = 0
        /\ \A i \in 1 .. n - 1 : f[i] = EndAfter(body, f[i - 1])
    BY <1>1, <1>2, <1>4 DEF Ending
  <2>2. g[0] = 0 /\ DOMAIN g = 0 .. n
    BY <2>1
  <2>3. ASSUME NEW i \in 1 .. n PROVE g[i] = EndAfter(body, g[i - 1])
    <3>1. g[i - 1] = f[i - 1]
      BY <2>1
    <3> QED
      BY <2>1, <3>1
  <2> HIDE DEF g
  <2> QED
    BY <2>2, <2>3 DEF Ending
<1> QED
  BY <1>1, <1>5

\* SegmentEnds has the ends of all segments.
LEMMA EndsAre ==
    ASSUME NEW body, Len(body) \in Nat
    PROVE  Ending(body, Len(body) + 1, SegmentEnds(body))
<1> DEFINE N == Len(body) + 1
<1> DEFINE Def(f) == [n \in 0 .. N |-> IF n = 0 THEN 0 ELSE IF f[n - 1] <= Len(body) THEN SegmentEnd(body, f[n - 1]) ELSE f[n - 1]]
<1> DEFINE end == CHOOSE f : f = Def(f)
<1>1. SegmentEnds(body) = end
  BY DEF SegmentEnds
<1>2. PICK f : Ending(body, N, f)
  <2>1. N \in Nat
    OBVIOUS
  <2> QED
    BY <2>1, EndsExist, Zenon
<1> DEFINE g == [i \in 0 .. N |-> f[i]]
<1>3. g = Def(g)
  <2>1. ASSUME NEW n \in 0 .. N PROVE g[n] = Def(g)[n]
    <3>1. CASE n = 0
      BY <1>2, <3>1 DEF Ending
    <3>2. CASE n # 0
      <4>1. n \in 1 .. N /\ n - 1 \in 0 .. N
        BY <3>2
      <4>2. f[n] = EndAfter(body, f[n - 1])
        BY <1>2, <4>1 DEF Ending
      <4> QED
        BY <3>2, <4>1, <4>2 DEF EndAfter
    <3> QED
      BY <3>1, <3>2
  <2> QED
    BY <2>1
<1>4. end = Def(end)
  <2> HIDE DEF Def, g
  <2> QED
    BY <1>3
<1> HIDE DEF end
<1>5. Ending(body, N, end)
  <2>1. DOMAIN end = 0 .. N
    BY <1>4
  <2>2. \A n \in 0 .. N : end[n] = IF n = 0 THEN 0 ELSE EndAfter(body, end[n - 1])
    <3> SUFFICES ASSUME NEW n \in 0 .. N PROVE end[n] = Def(end)[n]
      BY DEF EndAfter
    <3> HIDE DEF Def
    <3> QED
      BY <1>4
  <2> QED
    BY <2>1, <2>2 DEF Ending
<1> QED
  BY <1>1, <1>5

\* Where the segment behind a position ends.
LEMMA EndFacts ==
    ASSUME NEW body \in Seq(PathTokens), NEW i \in 0 .. Len(body)
    PROVE  LET j == SegmentEnd(body, i)
           IN  /\ j \in i + 1 .. Len(body) + 1
               /\ j = Len(body) + 1 \/ body[j] = "/"
<1> DEFINE T == {j \in i + 1 .. Len(body) + 1 : j = Len(body) + 1 \/ body[j] = "/"}
<1>1. Len(body) \in Nat /\ Len(body) + 1 \in T /\ T \subseteq Nat
  OBVIOUS
<1>2. PICK j \in T : \A k \in T : j <= k
  BY <1>1, LeastNat, Zenon
<1>3. ASSUME NEW k \in i + 1 .. j - 1 PROVE body[k] # "/"
  <2>1. k \in i + 1 .. Len(body) + 1 /\ ~(j <= k)
    BY <1>1, <1>2
  <2> QED
    BY <1>2, <2>1
<1>4. /\ j \in i + 1 .. Len(body) + 1 /\ (j = Len(body) + 1 \/ body[j] = "/")
      /\ \A k \in i + 1 .. j - 1 : body[k] # "/"
  BY <1>2, <1>3
<1>5. \E x \in i + 1 .. Len(body) + 1 : (x = Len(body) + 1 \/ body[x] = "/") /\ \A k \in i + 1 .. x - 1 : body[k] # "/"
  BY <1>4, Zenon
<1> QED
  BY <1>5 DEF SegmentEnd

\* The segments of a body, each accepted: one token and hardened.
AllGood(body) == \A n \in DOMAIN Split(body) : Len(Split(body)[n]) = 1 /\ Split(body)[n][1] \in Hardened

\* The segments lie between the ends.
LEMMA SplitIs ==
    ASSUME NEW body
    PROVE  /\ DOMAIN Split(body) = {m \in 1 .. Len(body) + 1 : SegmentEnds(body)[m - 1] <= Len(body)}
           /\ \A n \in DOMAIN Split(body) :
                 Split(body)[n] = SubSeq(body, SegmentEnds(body)[n - 1] + 1, SegmentEnds(body)[n] - 1)
BY DEF Split

\* Then tokens and slashes alternate.
LEMMA GoodEnds ==
    ASSUME NEW body \in Seq(PathTokens), AllGood(body)
    PROVE  LET end == SegmentEnds(body)
           IN  \A n \in 0 .. Len(body) + 1 :
                  /\ end[n] \in 0 .. Len(body) + 1
                  /\ end[n] = 2 * n \/ end[n] > Len(body)
<1> DEFINE L == Len(body)
<1> DEFINE end == SegmentEnds(body)
<1>1. L \in Nat
  OBVIOUS
<1>2. end[0] = 0 /\ \A i \in 1 .. L + 1 : end[i] = EndAfter(body, end[i - 1])
  BY <1>1, EndsAre DEF Ending
<1>3. DOMAIN Split(body) = {m \in 1 .. L + 1 : end[m - 1] <= L}
  BY SplitIs
<1>4. \A n \in DOMAIN Split(body) : Split(body)[n] = SubSeq(body, end[n - 1] + 1, end[n] - 1)
  BY SplitIs
<1> HIDE DEF end
<1> DEFINE Good(n) == end[n] \in 0 .. L + 1 /\ (end[n] = 2 * n \/ end[n] > L)
<1> DEFINE Bad == {n \in 0 .. L + 1 : ~Good(n)}
<1>5. ASSUME Bad # {} PROVE FALSE
  <2>1. Bad \subseteq Nat
    BY <1>1
  <2>2. PICK n \in Bad : \A m \in Bad : n <= m
    BY <1>5, <2>1, LeastNat, Zenon
  <2>3. n # 0
    BY <1>1, <1>2, <2>2
  <2>4. n \in 1 .. L + 1 /\ n - 1 \in 0 .. L + 1 /\ n - 1 \notin Bad
    BY <1>1, <2>2, <2>3
  <2>5. Good(n - 1)
    BY <2>4
  <2>6. end[n] = EndAfter(body, end[n - 1])
    BY <1>2, <2>4
  <2>7. CASE end[n - 1] > L
    <3>1. end[n] = end[n - 1]
      BY <1>1, <2>5, <2>6, <2>7 DEF EndAfter
    <3> QED
      BY <1>1, <2>2, <2>5, <2>7, <3>1
  <2>8. CASE ~(end[n - 1] > L)
    <3>1. end[n - 1] = 2 * (n - 1) /\ end[n - 1] \in 0 .. L
      BY <1>1, <2>4, <2>5, <2>8
    <3>2. end[n] = SegmentEnd(body, end[n - 1])
      BY <1>1, <2>6, <3>1 DEF EndAfter
    <3>3. end[n] \in end[n - 1] + 1 .. L + 1
      BY <3>1, <3>2, EndFacts, Zenon
    <3>4. n \in DOMAIN Split(body) /\ Split(body)[n] = SubSeq(body, end[n - 1] + 1, end[n] - 1)
      <4>1. n \in DOMAIN Split(body)
        BY <1>3, <2>4, <3>1
      <4> QED
        BY <1>4, <4>1
    <3>5. Len(SubSeq(body, end[n - 1] + 1, end[n] - 1)) = 1
      BY <3>4 DEF AllGood
    <3>6. Len(SubSeq(body, end[n - 1] + 1, end[n] - 1)) = end[n] - 1 - end[n - 1]
      <4>1. end[n - 1] + 1 \in 1 .. L + 1 /\ end[n] - 1 \in end[n - 1] .. L
        BY <1>1, <3>1, <3>3
      <4> QED
        BY <1>1, <3>1, <4>1
    <3>7. end[n] - 1 - end[n - 1] = 1
      BY <3>5, <3>6
    <3>8. end[n] = 2 * n
      <4>1. end[n] \in Int /\ end[n - 1] \in Int /\ n \in Int
        BY <1>1, <2>4, <3>1, <3>3
      <4>2. end[n] = end[n - 1] + 2
        BY <3>7, <4>1
      <4>3. end[n] = 2 * (n - 1) + 2
        BY <3>1, <4>2
      <4> QED
        BY <4>1, <4>3
    <3>9. end[n] \in 0 .. L + 1
      BY <1>1, <3>1, <3>3
    <3> QED
      BY <2>2, <3>8, <3>9
  <2> QED
    BY <2>7, <2>8
<1>6. \A n \in 0 .. L + 1 : Good(n)
  BY <1>5
<1> QED
  BY <1>6 DEF end

\* What the segments of such a body are.
Alternates(body, k) ==
    /\ k \in Nat \ {0} /\ Len(body) = 2 * k - 1
    /\ DOMAIN Split(body) = 1 .. k
    /\ \A n \in 1 .. k : Split(body)[n][1] = body[2 * n - 1] /\ body[2 * n - 1] \in Hardened
    /\ \A n \in 1 .. k - 1 : body[2 * n] = "/"

\* A body whose segments are all accepted alternates.
LEMMA GoodBody ==
    ASSUME NEW body \in Seq(PathTokens), body # <<>>, AllGood(body)
    PROVE  \E k : Alternates(body, k)
<1> DEFINE L == Len(body)
<1> DEFINE end == SegmentEnds(body)
<1>1. L \in Nat /\ L >= 1
  OBVIOUS
<1>2. end[0] = 0 /\ \A i \in 1 .. L + 1 : end[i] = EndAfter(body, end[i - 1])
  BY <1>1, EndsAre DEF Ending
<1>3. \A n \in 0 .. L + 1 : end[n] \in 0 .. L + 1 /\ (end[n] = 2 * n \/ end[n] > L)
  BY GoodEnds
<1>4. DOMAIN Split(body) = {m \in 1 .. L + 1 : end[m - 1] <= L}
  BY SplitIs
<1>5. \A n \in DOMAIN Split(body) : Split(body)[n] = SubSeq(body, end[n - 1] + 1, end[n] - 1)
  BY SplitIs
<1> HIDE DEF end
\* A segment is at 2n - 1.
<1>6. ASSUME NEW n \in DOMAIN Split(body)
      PROVE  /\ n \in 1 .. L + 1 /\ end[n - 1] = 2 * (n - 1) /\ end[n] = 2 * n /\ 2 * n <= L + 1
             /\ Split(body)[n][1] = body[2 * n - 1] /\ body[2 * n - 1] \in Hardened
             /\ 2 * n <= L => body[2 * n] = "/"
  <2>1. n \in 1 .. L + 1 /\ end[n - 1] <= L
    BY <1>4
  <2>2. end[n - 1] = 2 * (n - 1) /\ end[n - 1] \in 0 .. L
    BY <1>1, <1>3, <2>1
  <2>3. end[n] = SegmentEnd(body, end[n - 1])
    BY <1>2, <2>1 DEF EndAfter
  <2>4. end[n] \in end[n - 1] + 1 .. L + 1 /\ (end[n] = L + 1 \/ body[end[n]] = "/")
    BY <2>2, <2>3, EndFacts, Zenon
  <2>5. end[n - 1] + 1 \in 1 .. L + 1 /\ end[n] - 1 \in end[n - 1] .. L
    BY <1>1, <2>2, <2>4
  <2>6. Len(SubSeq(body, end[n - 1] + 1, end[n] - 1)) = end[n] - 1 - end[n - 1]
    BY <1>1, <2>2, <2>5
  <2>7. Len(Split(body)[n]) = 1 /\ Split(body)[n][1] \in Hardened
    BY DEF AllGood
  <2>8. end[n] = 2 * n
    <3>1. end[n] - 1 - end[n - 1] = 1
      BY <1>5, <2>6, <2>7
    <3>2. end[n] \in Int /\ end[n - 1] \in Int /\ n \in Int
      BY <1>1, <2>1, <2>2, <2>4
    <3>3. end[n] = end[n - 1] + 2
      BY <3>1, <3>2
    <3>4. end[n] = 2 * (n - 1) + 2
      BY <2>2, <3>3
    <3> QED
      BY <3>2, <3>4
  <2>9. Split(body)[n][1] = body[end[n - 1] + 1]
    <3>1. SubSeq(body, end[n - 1] + 1, end[n] - 1)[1] = body[end[n - 1] + 1]
      <4>1. end[n] - 1 = end[n - 1] + 1
        BY <2>1, <2>2, <2>8
      <4> QED
        BY <1>1, <2>2, <2>5, <4>1
    <3> QED
      BY <1>5, <3>1
  <2>10. end[n - 1] + 1 = 2 * n - 1
    BY <2>1, <2>2
  <2> QED
    BY <1>1, <2>1, <2>2, <2>4, <2>7, <2>8, <2>9, <2>10
\* There is one for every n up to the half.
<1> DEFINE Bad == {n \in Nat : 2 * n <= L + 1 /\ n >= 1 /\ n \notin DOMAIN Split(body)}
<1>7. Bad = {}
  <2> SUFFICES ASSUME Bad # {} PROVE FALSE
    OBVIOUS
  <2>1. PICK n \in Bad : \A m \in Bad : n <= m
    BY LeastNat, Bad \subseteq Nat
  <2>2. n \in 1 .. L + 1
    BY <1>1, <2>1
  <2>3. n # 1
    <3>1. 1 \in 1 .. L + 1 /\ 1 - 1 = 0 /\ end[1 - 1] <= L
      BY <1>1, <1>2
    <3> QED
      BY <1>4, <2>1, <3>1
  <2>4. n - 1 \in DOMAIN Split(body)
    BY <1>1, <2>1, <2>2, <2>3
  <2>5. end[n - 1] = 2 * (n - 1)
    BY <1>6, <2>4
  <2>6. end[n - 1] <= L
    BY <1>1, <2>1, <2>2, <2>5
  <2> QED
    BY <1>4, <2>1, <2>2, <2>6
\* The length is odd.
<1>8. PICK k \in Nat : L = 2 * k \/ L = 2 * k - 1
  <2>1. L \div 2 \in Nat /\ (L = 2 * (L \div 2) \/ L = 2 * (L \div 2 + 1) - 1)
    BY <1>1
  <2>2. CASE L = 2 * (L \div 2)
    BY <2>1, <2>2
  <2>3. CASE L = 2 * (L \div 2 + 1) - 1
    <3>1. L \div 2 + 1 \in Nat
      BY <2>1
    <3> QED
      BY <2>3, <3>1, Zenon
  <2> QED
    BY <2>1, <2>2, <2>3
<1>9. L = 2 * k - 1 /\ k >= 1
  <2>1. ASSUME L = 2 * k PROVE FALSE
    <3>1. k >= 1 /\ 2 * k <= L + 1 /\ k + 1 \in 1 .. L + 1
      BY <1>1, <1>8, <2>1
    <3>2. k \in DOMAIN Split(body)
      BY <1>7, <1>8, <3>1
    <3>3. end[k] = 2 * k
      BY <1>6, <3>2
    <3>4. (k + 1) - 1 = k
      BY <1>8
    <3>5. k + 1 \in DOMAIN Split(body)
      BY <1>4, <2>1, <3>1, <3>3, <3>4, <1>1
    <3>6. 2 * (k + 1) <= L + 1
      BY <1>6, <3>5
    <3> QED
      BY <1>1, <1>8, <2>1, <3>6
  <2> QED
    BY <1>1, <1>8, <2>1
<1>10. DOMAIN Split(body) = 1 .. k
  <2>1. ASSUME NEW n \in DOMAIN Split(body) PROVE n \in 1 .. k
    BY <1>1, <1>6, <1>8, <1>9
  <2>2. ASSUME NEW n \in 1 .. k PROVE n \in DOMAIN Split(body)
    BY <1>1, <1>7, <1>8, <1>9
  <2> QED
    BY <2>1, <2>2, Zenon
<1>11. ASSUME NEW n \in 1 .. k - 1 PROVE body[2 * n] = "/"
  <2>1. n \in 1 .. k /\ 2 * n <= L
    BY <1>1, <1>8, <1>9
  <2> QED
    BY <1>6, <1>10, <2>1
<1>12. \A n \in 1 .. k : Split(body)[n][1] = body[2 * n - 1] /\ body[2 * n - 1] \in Hardened
  BY <1>6, <1>10
<1>13. k \in Nat \ {0} /\ Len(body) = 2 * k - 1
  BY <1>8, <1>9
<1>14. Alternates(body, k)
  BY <1>10, <1>11, <1>12, <1>13, Zenon DEF Alternates
<1> QED
  BY <1>14, Zenon

\* The body of a path.
BodyOf(path) == StripLast(StripFirst(StripFirst(path, "m"), "/"), "/")

\* Stripping a token from the front.
LEMMA StrippedFirst ==
    ASSUME NEW S, NEW s \in Seq(S), NEW token
    PROVE  LET r == StripFirst(s, token)
           IN  /\ r \in Seq(S)
               /\ \/ r = s
                  \/ /\ Len(s) = Len(r) + 1 /\ s[1] = token
                     /\ \A i \in 1 .. Len(r) : r[i] = s[i + 1]
<1>1. CASE s # <<>> /\ s[1] = token
  <2>1. StripFirst(s, token) = Tail(s)
    BY <1>1 DEF StripFirst
  <2>2. Tail(s) \in Seq(S) /\ Len(s) = Len(Tail(s)) + 1 /\ \A i \in 1 .. Len(Tail(s)) : Tail(s)[i] = s[i + 1]
    BY <1>1
  <2> QED
    BY <1>1, <2>1, <2>2
<1>2. CASE ~(s # <<>> /\ s[1] = token)
  <2>1. StripFirst(s, token) = s
    BY <1>2 DEF StripFirst
  <2> QED
    BY <2>1
<1> QED
  BY <1>1, <1>2

\* And from the back.
LEMMA StrippedLast ==
    ASSUME NEW S, NEW s \in Seq(S), NEW token
    PROVE  LET r == StripLast(s, token)
           IN  /\ r \in Seq(S)
               /\ \/ r = s
                  \/ /\ Len(s) = Len(r) + 1 /\ s[Len(s)] = token
                     /\ \A i \in 1 .. Len(r) : r[i] = s[i]
<1>1. CASE s # <<>> /\ s[Len(s)] = token
  <2>1. StripLast(s, token) = SubSeq(s, 1, Len(s) - 1)
    BY <1>1 DEF StripLast
  <2>2. Len(s) - 1 \in 0 .. Len(s)
    BY <1>1
  <2>3. /\ SubSeq(s, 1, Len(s) - 1) \in Seq(S) /\ Len(SubSeq(s, 1, Len(s) - 1)) = Len(s) - 1
        /\ \A i \in 1 .. Len(s) - 1 : SubSeq(s, 1, Len(s) - 1)[i] = s[i]
    <3>1. \A i \in 1 .. Len(s) - 1 : s[i] \in S
      BY <2>2
    <3>2. 1 \in Int /\ Len(s) - 1 \in Int
      BY <2>2
    <3>3. /\ SubSeq(s, 1, Len(s) - 1) \in Seq(S)
          /\ Len(SubSeq(s, 1, Len(s) - 1)) = IF 1 <= Len(s) - 1 THEN Len(s) - 1 - 1 + 1 ELSE 0
          /\ \A i \in 1 .. Len(s) - 1 - 1 + 1 : SubSeq(s, 1, Len(s) - 1)[i] = s[1 + i - 1]
      BY <3>1, <3>2, SubSeqProperties
    <3>4. Len(SubSeq(s, 1, Len(s) - 1)) = Len(s) - 1
      <4> DEFINE m == Len(s) - 1
      <4>1. m \in Nat
        BY <2>2
      <4>2. Len(SubSeq(s, 1, m)) = IF 1 <= m THEN m - 1 + 1 ELSE 0
        BY <3>3, Zenon
      <4> HIDE DEF m
      <4>3. Len(SubSeq(s, 1, m)) = m
        BY <4>1, <4>2
      <4> QED
        BY <4>3 DEF m
    <3>5. \A i \in 1 .. Len(s) - 1 : SubSeq(s, 1, Len(s) - 1)[i] = s[i]
      BY <2>2, <3>3
    <3> QED
      BY <3>3, <3>4, <3>5
  <2> QED
    BY <1>1, <2>1, <2>2, <2>3
<1>2. CASE ~(s # <<>> /\ s[Len(s)] = token)
  <2>1. StripLast(s, token) = s
    BY <1>2 DEF StripLast
  <2> QED
    BY <2>1
<1> QED
  BY <1>1, <1>2

\* Where the body of a path is in it.
BodyAt(path, body, d) ==
    /\ body \in Seq(PathTokens)
    /\ d \in 0 .. 2
    /\ Len(path) \in d + Len(body) .. d + Len(body) + 1
    /\ \A i \in 1 .. Len(body) : body[i] = path[d + i]
    /\ \A i \in 1 .. Len(path) : i <= d \/ i > d + Len(body) => path[i] \in {"m", "/"}
    /\ d = 2 => path[1] = "m"

\* Every path has a body.
LEMMA PathBodies ==
    ASSUME NEW path \in Seq(PathTokens)
    PROVE  \E d : BodyAt(path, BodyOf(path), d)
<1> DEFINE a == StripFirst(path, "m")
<1> DEFINE b == StripFirst(a, "/")
<1> DEFINE c == StripLast(b, "/")
<1>1. /\ a \in Seq(PathTokens)
      /\ a = path \/ (Len(path) = Len(a) + 1 /\ path[1] = "m" /\ \A i \in 1 .. Len(a) : a[i] = path[i + 1])
  BY StrippedFirst
<1> HIDE DEF a
<1>2. /\ b \in Seq(PathTokens)
      /\ b = a \/ (Len(a) = Len(b) + 1 /\ a[1] = "/" /\ \A i \in 1 .. Len(b) : b[i] = a[i + 1])
  BY <1>1, StrippedFirst
<1> HIDE DEF b
<1>3. /\ c \in Seq(PathTokens)
      /\ c = b \/ (Len(b) = Len(c) + 1 /\ b[Len(b)] = "/" /\ \A i \in 1 .. Len(c) : c[i] = b[i])
  BY <1>2, StrippedLast
<1> HIDE DEF c
<1>4. Len(path) \in Nat /\ Len(a) \in Nat /\ Len(b) \in Nat /\ Len(c) \in Nat
  BY <1>1, <1>2, <1>3
\* b is path without its first d tokens.
<1>5. \E d \in 0 .. 2 : /\ Len(path) = d + Len(b)
                        /\ \A i \in 1 .. Len(b) : b[i] = path[d + i]
                        /\ \A i \in 1 .. d : path[i] \in {"m", "/"}
                        /\ d = 2 => path[1] = "m"
  <2>1. CASE a = path /\ b = a
    <3>1. \A i \in 1 .. Len(b) : b[i] = path[0 + i]
      BY <1>4, <2>1
    <3> QED
      BY <1>4, <2>1, <3>1
  <2>2. CASE a = path /\ b # a
    <3>1. Len(path) = 1 + Len(b) /\ path[1] = "/"
      BY <1>2, <1>4, <2>2
    <3>2. \A i \in 1 .. Len(b) : b[i] = path[1 + i]
      BY <1>2, <1>4, <2>2
    <3> QED
      BY <1>4, <3>1, <3>2
  <2>3. CASE a # path /\ b = a
    <3>1. Len(path) = 1 + Len(b) /\ path[1] = "m"
      BY <1>1, <1>4, <2>3
    <3>2. \A i \in 1 .. Len(b) : b[i] = path[1 + i]
      BY <1>1, <1>4, <2>3
    <3> QED
      BY <1>4, <3>1, <3>2
  <2>4. CASE a # path /\ b # a
    <3>1. Len(path) = 2 + Len(b) /\ path[1] = "m" /\ Len(a) >= 1
      BY <1>1, <1>2, <1>4, <2>4
    <3>2. path[2] = "/"
      BY <1>1, <1>2, <1>4, <2>4, <3>1
    <3>3. ASSUME NEW i \in 1 .. Len(b) PROVE b[i] = path[2 + i]
      <4>1. i + 1 \in 1 .. Len(a) /\ (i + 1) + 1 = 2 + i
        BY <1>2, <1>4, <2>4
      <4>2. b[i] = a[i + 1]
        BY <1>2, <2>4
      <4> QED
        BY <1>1, <2>4, <4>1, <4>2
    <3>4. \A i \in 1 .. 2 : path[i] \in {"m", "/"}
      BY <3>1, <3>2
    <3> QED
      BY <3>1, <3>3, <3>4
  <2> QED
    BY <2>1, <2>2, <2>3, <2>4
<1>6. PICK d \in 0 .. 2 : /\ Len(path) = d + Len(b)
                          /\ \A i \in 1 .. Len(b) : b[i] = path[d + i]
                          /\ \A i \in 1 .. d : path[i] \in {"m", "/"}
                          /\ d = 2 => path[1] = "m"
  BY <1>5
<1>7. Len(b) \in Len(c) .. Len(c) + 1 /\ \A i \in 1 .. Len(c) : c[i] = b[i]
  BY <1>3, <1>4
<1>8. Len(path) \in d + Len(c) .. d + Len(c) + 1
  BY <1>4, <1>6, <1>7
<1>9. ASSUME NEW i \in 1 .. Len(c) PROVE c[i] = path[d + i]
  BY <1>4, <1>6, <1>7
<1>10. ASSUME NEW i \in 1 .. Len(path), i > d + Len(c) PROVE path[i] = "/"
  <2>1. Len(b) = Len(c) + 1 /\ i = d + Len(b)
    BY <1>4, <1>6, <1>7, <1>10
  <2>2. b[Len(b)] = "/"
    BY <1>3, <1>4, <2>1
  <2>3. Len(b) \in 1 .. Len(b)
    BY <1>4, <2>1
  <2> QED
    BY <1>6, <2>1, <2>2, <2>3
<1>11. ASSUME NEW i \in 1 .. Len(path), i <= d \/ i > d + Len(c) PROVE path[i] \in {"m", "/"}
  BY <1>4, <1>6, <1>10, <1>11
<1>12. BodyAt(path, c, d)
  BY <1>3, <1>6, <1>8, <1>9, <1>11 DEF BodyAt
<1> QED
  BY <1>12 DEF BodyOf, a, b, c

\* A segment that is accepted.
LEMMA SegmentAccepted ==
    ASSUME NEW seg \in Seq(PathTokens), ParseSegment(seg).ok
    PROVE  Len(seg) = 1 /\ seg[1] \in Hardened /\ ParseSegment(seg).value = seg[1]
<1>1. seg # <<>>
  <2>1. seg = <<>> => ParseSegment(seg) = Fail("EmptySegment")
    BY DEF ParseSegment
  <2> QED
    BY <2>1, Outcomes
<1>2. Len(seg) = 1
  <2>1. Len(seg) # 1 => ParseSegment(seg) = Fail("InvalidIndex")
    BY <1>1 DEF ParseSegment
  <2> QED
    BY <2>1, Outcomes
<1>3. seg[1] \in Hardened
  <2>1. seg[1] \notin Hardened => ParseSegment(seg) = Fail(PathError[seg[1]])
    BY <1>1, <1>2 DEF ParseSegment
  <2> QED
    BY <2>1, Outcomes
<1>4. ParseSegment(seg) = Ok(seg[1])
  BY <1>1, <1>2, <1>3 DEF ParseSegment
<1> QED
  BY <1>2, <1>3, <1>4, Outcomes

\* Where a segment of a body is.
LEMMA SegmentsTyped ==
    ASSUME NEW body \in Seq(PathTokens), NEW n \in DOMAIN Split(body)
    PROVE  Split(body)[n] \in Seq(PathTokens)
<1> DEFINE L == Len(body)
<1> DEFINE end == SegmentEnds(body)
<1> DEFINE Bad == {i \in 0 .. L + 1 : end[i] \notin 0 .. L + 1}
<1>1. L \in Nat
  OBVIOUS
<1>2. end[0] = 0 /\ \A i \in 1 .. L + 1 : end[i] = EndAfter(body, end[i - 1])
  BY <1>1, EndsAre DEF Ending
<1>3. n \in 1 .. L + 1 /\ end[n - 1] <= L /\ Split(body)[n] = SubSeq(body, end[n - 1] + 1, end[n] - 1)
  BY SplitIs
<1> HIDE DEF end
<1>4. ASSUME Bad # {} PROVE FALSE
  <2>1. Bad \subseteq Nat
    BY <1>1
  <2>2. PICK i \in Bad : \A m \in Bad : i <= m
    BY <1>4, <2>1, LeastNat, Zenon
  <2>3. i # 0
    BY <1>1, <1>2, <2>2
  <2>4. i \in 1 .. L + 1 /\ end[i - 1] \in 0 .. L + 1
    BY <1>1, <2>2, <2>3
  <2>5. CASE end[i - 1] <= L
    <3>1. end[i - 1] \in 0 .. L /\ end[i] = SegmentEnd(body, end[i - 1])
      BY <1>1, <1>2, <2>4, <2>5 DEF EndAfter
    <3>2. end[i] \in end[i - 1] + 1 .. L + 1
      BY <3>1, EndFacts, Zenon
    <3> QED
      BY <1>1, <2>2, <3>1, <3>2
  <2>6. CASE ~(end[i - 1] <= L)
    BY <1>2, <2>2, <2>4, <2>6 DEF EndAfter
  <2> QED
    BY <2>5, <2>6
<1>5. end[n - 1] \in 0 .. L + 1 /\ end[n] \in 0 .. L + 1
  BY <1>1, <1>3, <1>4, SMTT(30)
<1>6. end[n - 1] + 1 \in Int /\ end[n] - 1 \in Int /\ \A i \in end[n - 1] + 1 .. end[n] - 1 : body[i] \in PathTokens
  BY <1>1, <1>5
<1>7. SubSeq(body, end[n - 1] + 1, end[n] - 1) \in Seq(PathTokens)
  BY <1>6, SubSeqProperties, Zenon
<1> QED
  BY <1>3, <1>7

\* A path that is accepted: it has no body, or one that alternates.
LEMMA PathAccepted ==
    ASSUME NEW path \in Seq(PathTokens), parse_hd_path(path).ok
    PROVE  \/ BodyOf(path) = <<>> /\ parse_hd_path(path).value = <<>>
           \/ \E k : /\ Alternates(BodyOf(path), k)
                     /\ parse_hd_path(path).value = [n \in 1 .. k |-> BodyOf(path)[2 * n - 1]]
<1> DEFINE body == BodyOf(path)
<1> DEFINE parsed == [n \in DOMAIN Split(body) |-> ParseSegment(Split(body)[n])]
<1> DEFINE bad == {n \in DOMAIN parsed : ~parsed[n].ok}
<1>1. parse_hd_path(path) =
          CASE body = <<>> -> Ok(<<>>)
            [] body # <<>> /\ bad # {} -> parsed[CHOOSE n \in bad : \A k \in bad : n <= k]
            [] OTHER -> Ok([n \in DOMAIN parsed |-> parsed[n].value])
  BY DEF parse_hd_path, BodyOf
<1>2. CASE body = <<>>
  <2>1. parse_hd_path(path) = Ok(<<>>)
    BY <1>1, <1>2
  <2> QED
    BY <1>2, <2>1, Outcomes
<1>3. CASE body # <<>>
  <2>1. body \in Seq(PathTokens)
    <3>1. PICK d : BodyAt(path, body, d)
      BY PathBodies
    <3> QED
      BY <3>1 DEF BodyAt
  <2>2. bad \subseteq Nat /\ DOMAIN parsed = DOMAIN Split(body)
    <3>1. DOMAIN parsed = DOMAIN Split(body) /\ bad \subseteq DOMAIN Split(body)
      OBVIOUS
    <3>2. DOMAIN Split(body) = {m \in 1 .. Len(body) + 1 : SegmentEnds(body)[m - 1] <= Len(body)}
      BY SplitIs, Zenon
    <3>3. Len(body) \in Nat
      BY <2>1
    <3> HIDE DEF bad, parsed, body
    <3> QED
      BY <3>1, <3>2, <3>3
  <2>3. bad = {}
    <3> SUFFICES ASSUME bad # {} PROVE FALSE
      OBVIOUS
    <3>1. PICK n \in bad : \A k \in bad : n <= k
      BY <2>2, LeastNat, Zenon
    <3> DEFINE c == CHOOSE x \in bad : \A k \in bad : x <= k
    <3> HIDE DEF bad
    <3>2. c \in bad
      BY <3>1
    <3>3. parse_hd_path(path) = parsed[c]
      BY <1>1, <1>3
    <3> HIDE DEF c, parsed
    <3>4. ~parsed[c].ok
      BY <3>2 DEF bad
    <3> QED
      BY <3>3, <3>4
  <2>4. parse_hd_path(path).value = [n \in DOMAIN parsed |-> parsed[n].value]
    <3>1. parse_hd_path(path) = Ok([n \in DOMAIN parsed |-> parsed[n].value])
      BY <1>1, <1>3, <2>3
    <3> QED
      BY <3>1, Outcomes
  <2>5. ASSUME NEW n \in DOMAIN Split(body)
        PROVE  /\ Len(Split(body)[n]) = 1 /\ Split(body)[n][1] \in Hardened
               /\ parsed[n].value = Split(body)[n][1]
    <3>1. parsed[n].ok /\ parsed[n] = ParseSegment(Split(body)[n])
      BY <2>3
    <3>2. Split(body)[n] \in Seq(PathTokens)
      BY <2>1, SegmentsTyped
    <3> HIDE DEF parsed
    <3> QED
      BY <3>1, <3>2, SegmentAccepted
  <2>6. AllGood(body)
    BY <2>5 DEF AllGood
  <2>7. PICK k : Alternates(body, k)
    BY <1>3, <2>1, <2>6, GoodBody
  <2>8. DOMAIN Split(body) = 1 .. k /\ \A n \in 1 .. k : Split(body)[n][1] = body[2 * n - 1]
    BY <2>7 DEF Alternates
  <2>9. [n \in DOMAIN parsed |-> parsed[n].value] = [n \in 1 .. k |-> body[2 * n - 1]]
    <3>1. \A n \in 1 .. k : parsed[n].value = body[2 * n - 1]
      BY <2>5, <2>8
    <3> HIDE DEF body
    <3> QED
      BY <2>2, <2>8, <3>1
  <2> QED
    BY <2>4, <2>7, <2>9
<1> QED
  BY <1>2, <1>3

\* The paths of the exercise.
Paths == [of : {"path"}, path : Seq(PathTokens)]

\* A path keeps every segment.
LEMMA PathsKeep == ASSUME input \in Paths PROVE PathsKeepEverySegment
<1> DEFINE path == input.path
<1> DEFINE written == {i \in DOMAIN path : path[i] \notin {"m", "/"}}
<1> DEFINE parsed == parse_hd_path(path)
<1> DEFINE doubled == \E i \in 1 .. Len(path) - 1 : path[i] = "/" /\ path[i + 1] = "/"
<1> DEFINE Kept(place) == /\ \A m, n \in DOMAIN place : m < n => place[m] < place[n]
                          /\ \A i \in written : \E n \in DOMAIN place : place[n] = i
                          /\ parsed.value = [n \in DOMAIN place |-> path[place[n]]]
<1> SUFFICES ASSUME parsed.ok
             PROVE  /\ \E place \in [1 .. Len(parsed.value) -> written] : Kept(place)
                    /\ \A i \in written : path[i] \in Hardened
                    /\ doubled => written = {}
  BY DEF PathsKeepEverySegment
<1>1. path \in Seq(PathTokens)
  BY DEF Paths
<1>2. PICK d : BodyAt(path, BodyOf(path), d)
  BY <1>1, PathBodies
<1> DEFINE body == BodyOf(path)
<1> DEFINE L == Len(body)
<1>3. /\ body \in Seq(PathTokens) /\ L \in Nat /\ d \in 0 .. 2 /\ Len(path) \in Nat /\ DOMAIN path = 1 .. Len(path)
      /\ Len(path) \in d + L .. d + L + 1
      /\ \A i \in 1 .. L : body[i] = path[d + i]
      /\ \A i \in 1 .. Len(path) : i <= d \/ i > d + L => path[i] \in {"m", "/"}
      /\ d = 2 => path[1] = "m"
  BY <1>1, <1>2 DEF BodyAt
<1>4. \/ body = <<>> /\ parsed.value = <<>>
      \/ \E k : Alternates(body, k) /\ parsed.value = [n \in 1 .. k |-> body[2 * n - 1]]
  BY <1>1, PathAccepted
<1> HIDE DEF body, parsed, path
<1>5. CASE body = <<>> /\ parsed.value = <<>>
  <2>1. L = 0
    BY <1>5
  <2>2. written = {}
    BY <1>3, <2>1
  <2>3. Len(parsed.value) = 0 /\ 1 .. 0 = {}
    BY <1>5
  <2> DEFINE none == [n \in 1 .. 0 |-> 0]
  <2>4. none \in [1 .. Len(parsed.value) -> written] /\ DOMAIN none = {}
    BY <2>3
  <2>5. parsed.value = [n \in DOMAIN none |-> path[none[n]]]
    BY <1>5, <2>4
  <2>6. Kept(none)
    BY <2>2, <2>4, <2>5
  <2> QED
    BY <2>2, <2>4, <2>6
<1>6. CASE \E k : Alternates(body, k) /\ parsed.value = [n \in 1 .. k |-> body[2 * n - 1]]
  <2>1. PICK k : Alternates(body, k) /\ parsed.value = [n \in 1 .. k |-> body[2 * n - 1]]
    BY <1>6
  <2>2. /\ k \in Nat /\ k >= 1 /\ L = 2 * k - 1
        /\ \A n \in 1 .. k : body[2 * n - 1] \in Hardened
        /\ \A n \in 1 .. k - 1 : body[2 * n] = "/"
    <3>1. /\ k \in Nat \ {0} /\ L = 2 * k - 1
          /\ \A n \in 1 .. k : body[2 * n - 1] \in Hardened
          /\ \A n \in 1 .. k - 1 : body[2 * n] = "/"
      BY <2>1, Zenon DEF Alternates
    <3>2. k \in Nat /\ k >= 1
      BY <3>1
    <3> QED
      BY <3>1, <3>2, Zenon
  <2>3. Len(parsed.value) = k
    BY <2>1, <2>2
  <2>4. "m" \notin Hardened /\ "/" \notin Hardened
    BY DEF Hardened
  \* A written token is at an odd place of the body.
  <2>5. ASSUME NEW n \in 1 .. k
        PROVE  /\ d + 2 * n - 1 \in written
               /\ path[d + 2 * n - 1] = body[2 * n - 1] /\ path[d + 2 * n - 1] \in Hardened
    <3>1. 2 * n - 1 \in 1 .. L /\ d + (2 * n - 1) = d + 2 * n - 1 /\ d + 2 * n - 1 \in 1 .. Len(path)
      BY <1>3, <2>2
    <3>2. path[d + 2 * n - 1] = body[2 * n - 1]
      BY <1>3, <3>1
    <3>3. body[2 * n - 1] \in Hardened
      BY <2>2
    <3> QED
      BY <1>3, <2>4, <3>1, <3>2, <3>3
  <2>6. ASSUME NEW i \in 1 .. L PROVE (\E n \in 1 .. k : i = 2 * n - 1) \/ (\E n \in 1 .. k - 1 : i = 2 * n)
    <3>1. i \div 2 \in Nat /\ (i = 2 * (i \div 2) \/ i = 2 * (i \div 2 + 1) - 1)
      BY <1>3
    <3>2. CASE i = 2 * (i \div 2)
      <4>1. i \div 2 \in 1 .. k - 1
        BY <1>3, <2>2, <3>1, <3>2
      <4> QED
        BY <3>2, <4>1, Zenon
    <3>3. CASE i = 2 * (i \div 2 + 1) - 1
      <4>1. i \div 2 + 1 \in 1 .. k
        BY <1>3, <2>2, <3>1, <3>3
      <4> QED
        BY <3>3, <4>1, Zenon
    <3> QED
      BY <3>1, <3>2, <3>3
  <2>7. ASSUME NEW i \in written PROVE \E n \in 1 .. k : i = d + 2 * n - 1
    <3>1. i \in 1 .. Len(path) /\ path[i] \notin {"m", "/"}
      BY <1>3
    <3>2. ~(i <= d \/ i > d + L)
      BY <1>3, <3>1
    <3>3. i - d \in 1 .. L /\ d + (i - d) = i
      BY <1>3, <3>1, <3>2
    <3>4. body[i - d] = path[i]
      BY <1>3, <3>3
    <3>5. PICK n \in 1 .. k : i - d = 2 * n - 1
      BY <2>2, <2>6, <3>1, <3>3, <3>4
    <3> QED
      BY <1>3, <3>1, <3>5
  <2> DEFINE place == [n \in 1 .. k |-> d + 2 * n - 1]
  <2>8. place \in [1 .. Len(parsed.value) -> written] /\ DOMAIN place = 1 .. k
    BY <2>3, <2>5
  <2>9. Kept(place)
    <3>1. \A m, n \in 1 .. k : m < n => place[m] < place[n]
      BY <1>3, <2>2
    <3>2. \A i \in written : \E n \in 1 .. k : place[n] = i
      BY <2>7
    <3>3. parsed.value = [n \in 1 .. k |-> path[place[n]]]
      <4>1. \A n \in 1 .. k : body[2 * n - 1] = path[place[n]]
        BY <2>5
      <4> HIDE DEF place
      <4> QED
        BY <2>1, <4>1
    <3> HIDE DEF place
    <3> QED
      BY <2>8, <3>1, <3>2, <3>3
  <2>10. \A i \in written : path[i] \in Hardened
    BY <2>5, <2>7
  \* Two slashes side by side are nowhere.
  <2>11. ~doubled
    <3> SUFFICES ASSUME NEW i \in 1 .. Len(path) - 1, path[i] = "/", path[i + 1] = "/" PROVE FALSE
      OBVIOUS
    <3>1. i \in 1 .. Len(path) /\ i + 1 \in 1 .. Len(path)
      BY <1>3
    <3>2. path[d + 1] \in Hardened
      <4>1. 1 \in 1 .. k /\ d + 2 * 1 - 1 = d + 1
        BY <1>3, <2>2
      <4> QED
        BY <2>5, <4>1
    <3>3. path[d + L] \in Hardened
      <4>1. k \in 1 .. k /\ d + 2 * k - 1 = d + L
        BY <1>3, <2>2
      <4> QED
        BY <2>5, <4>1
    <3>4. CASE i <= d
      <4>1. i # d
        BY <2>4, <3>2
      <4>2. d = 2 /\ i = 1
        BY <1>3, <3>1, <3>4, <4>1
      <4> QED
        BY <1>3, <4>2
    <3>5. CASE i > d /\ i < d + L
      <4>1. i - d \in 1 .. L /\ i + 1 - d \in 1 .. L /\ d + (i - d) = i /\ d + (i + 1 - d) = i + 1
        BY <1>3, <3>1, <3>5
      <4>2. body[i - d] = "/" /\ body[i + 1 - d] = "/"
        BY <1>3, <4>1
      <4>3. PICK n \in 1 .. k - 1 : i - d = 2 * n
        BY <2>2, <2>4, <2>6, <4>1, <4>2
      <4>4. n + 1 \in 1 .. k /\ i + 1 - d = 2 * (n + 1) - 1
        BY <1>3, <2>2, <4>3, <3>1
      <4> QED
        BY <2>2, <2>4, <4>2, <4>4
    <3>6. CASE i >= d + L
      <4>1. i = d + L
        BY <1>3, <3>1, <3>6
      <4> QED
        BY <2>4, <3>3, <4>1
    <3> QED
      BY <1>3, <3>1, <3>4, <3>5, <3>6
  <2> HIDE DEF place
  <2> QED
    BY <2>8, <2>9, <2>10, <2>11
<1> QED
  BY <1>4, <1>5, <1>6

\* The keys and texts of the exercise.
KeysGiven ==
    \E type \in KeyTypes, other \in KeyTypes, name \in KeyNames, message \in SomeMessages :
        KeyGiven(type, other, name, message)
TextsGiven ==
    \E prefix \in KeyTypes \cup {"no colon", "ml-dsa-65-hash", "other"}, base58 \in BOOLEAN, len \in Lengths,
       valid \in BOOLEAN : TextGiven(prefix, base58, len, valid)

\* A key keeps its identity.
LEMMA KeysIdentical ==
    ASSUME Given("key") => KeysGiven, Given("text") => TextsGiven,
           Given("path") => input \in Paths, Given("phrase") => input \in Phrases
    PROVE  KeysKeepTheirIdentity
<1>1. KeysReadBack /\ VerifiesOwnOnly /\ FindsItsKey
  <2>1. CASE KeysGiven
    <3>1. PICK type \in KeyTypes, other \in KeyTypes, name \in KeyNames, message \in SomeMessages :
              KeyGiven(type, other, name, message)
      BY <2>1, Zenon DEF KeysGiven
    <3> QED
      BY <3>1, KeysRead, KeysVerify, KeysFound, Zenon
  <2>2. CASE ~Given("key")
    BY <2>2, Zenon DEF KeysReadBack, VerifiesOwnOnly, FindsItsKey
  <2> QED
    BY <2>1, <2>2, Zenon
<1>2. AcceptedKeysWork
  <2>1. CASE TextsGiven
    <3>1. PICK prefix \in KeyTypes \cup {"no colon", "ml-dsa-65-hash", "other"}, base58 \in BOOLEAN, len \in Lengths,
               valid \in BOOLEAN : TextGiven(prefix, base58, len, valid)
      BY <2>1, Zenon DEF TextsGiven
    <3> QED
      BY <3>1, TextsWork, Zenon
  <2>2. CASE ~Given("text")
    BY <2>2, Zenon DEF AcceptedKeysWork
  <2> QED
    BY <2>1, <2>2, Zenon
<1>3. PathsKeepEverySegment
  <2>1. CASE ~Given("path")
    BY <2>1, Zenon DEF PathsKeepEverySegment
  <2> QED
    BY <2>1, PathsKeep, Zenon
<1>4. RecoverableFromPhrase
  <2>1. CASE ~Given("phrase")
    BY <2>1, Zenon DEF RecoverableFromPhrase
  <2> QED
    BY <2>1, PhrasesRecover, Zenon
<1> QED
  BY <1>1, <1>2, <1>3, <1>4, Zenon DEF KeysKeepTheirIdentity
-----------------------------------------------------------------------------
(* WasiTransport: what is sent is the URL, what is read is whole. *)

\* The first and the last of some positions.
LEMMA FirstOf ==
    ASSUME NEW n \in Nat, NEW T, T \subseteq 1 .. n
    PROVE  /\ T = {} \/ (Min(T) \in T /\ \A i \in T : Min(T) <= i)
           /\ T = {} \/ (Max(T) \in T /\ \A i \in T : i <= Max(T))
<1> SUFFICES ASSUME T # {}
             PROVE  /\ Min(T) \in T /\ \A i \in T : Min(T) <= i
                    /\ Max(T) \in T /\ \A i \in T : i <= Max(T)
  BY Zenon
<1>1. T \subseteq Nat
  OBVIOUS
<1>2. \E x \in T : \A y \in T : x <= y
  BY <1>1, LeastNat, Zenon
<1>3. \E x \in T : \A y \in T : x >= y
  <2> DEFINE U == {k \in 0 .. n : n - k \in T}
  <2>1. U \subseteq Nat /\ \A y \in T : n - y \in U
    BY <1>1
  <2>2. U # {}
    BY <2>1
  <2>3. PICK u \in U : \A v \in U : u <= v
    BY <2>1, <2>2, LeastNat
  <2>4. ASSUME NEW y \in T PROVE n - u >= y
    <3>1. u <= n - y /\ u \in Nat /\ y \in Nat
      BY <1>1, <2>1, <2>3
    <3> QED
      BY <3>1
  <2> QED
    BY <2>3, <2>4
<1>4. Min(T) \in T /\ \A i \in T : Min(T) <= i
  BY <1>2, Zenon DEF Min
<1>5. Max(T) \in T /\ \A i \in T : Max(T) >= i
  BY <1>3, Zenon DEF Max
<1> QED
  BY <1>1, <1>4, <1>5

\* The first of them, when it is known.
LEMMA FirstIs ==
    ASSUME NEW n \in Nat, NEW T, T \subseteq 1 .. n, NEW k \in T, \A i \in T : k <= i
    PROVE  Min(T) = k
<1>1. Min(T) \in T /\ \A i \in T : Min(T) <= i
  BY FirstOf
<1> DEFINE m == Min(T)
<1> HIDE DEF m
<1>2. m \in T /\ m <= k /\ k <= m
  BY <1>1 DEF m
<1>3. m \in Nat /\ k \in Nat
  BY <1>2
<1> QED
  BY <1>2, <1>3 DEF m

\* The parts of a URL: the authority ends at A.
LEMMA HalvesAre ==
    ASSUME NEW rest, rest \in Seq(Nat)
    PROVE  \E A \in 0 .. Len(rest) :
              /\ Halves(rest).authority = SubSeq(rest, 1, A) /\ Halves(rest).tail = SubSeq(rest, A + 1, Len(rest))
              /\ \A i \in 1 .. A : ~AuthorityEnds(rest[i])
              /\ A < Len(rest) => AuthorityEnds(rest[A + 1])
<1> DEFINE T == {i \in 1 .. Len(rest) : AuthorityEnds(rest[i])}
<1> DEFINE end == IF T # {} THEN Min(T) ELSE 0
<1>1. SelectInSeq(rest, AuthorityEnds) = end
  BY DEF SelectInSeq
<1>2. Halves(rest) = IF end = 0 THEN [authority |-> rest, tail |-> <<>>]
                     ELSE [authority |-> SubSeq(rest, 1, end - 1), tail |-> SubSeq(rest, end, Len(rest))]
  BY <1>1, Zenon DEF Halves, Prefix, Suffix
<1>3. Len(rest) \in Nat /\ T \subseteq 1 .. Len(rest)
  OBVIOUS
<1>4. T = {} \/ (Min(T) \in T /\ \A i \in T : Min(T) <= i)
  <2> HIDE DEF T
  <2> QED
    BY <1>3, FirstOf
<1>5. CASE T = {}
  <2>1. Halves(rest).authority = rest /\ Halves(rest).tail = <<>>
    BY <1>2, <1>5
  <2>2. rest = SubSeq(rest, 1, Len(rest)) /\ SubSeq(rest, Len(rest) + 1, Len(rest)) = <<>>
    OBVIOUS
  <2>3. \A i \in 1 .. Len(rest) : ~AuthorityEnds(rest[i])
    BY <1>5
  <2>4. Len(rest) \in 0 .. Len(rest) /\ ~(Len(rest) < Len(rest))
    BY <1>3
  <2>5. Halves(rest).authority = SubSeq(rest, 1, Len(rest)) /\ Halves(rest).tail = SubSeq(rest, Len(rest) + 1, Len(rest))
    BY <2>1, <2>2
  <2> QED
    BY <2>3, <2>4, <2>5, Zenon
<1>6. CASE T # {}
  <2>1. end \in T /\ \A i \in T : end <= i
    BY <1>4, <1>6
  <2> HIDE DEF end
  <2>2. end \in 1 .. Len(rest) /\ AuthorityEnds(rest[end]) /\ \A i \in 1 .. end - 1 : ~AuthorityEnds(rest[i])
    BY <1>3, <2>1
  <2>3. Halves(rest).authority = SubSeq(rest, 1, end - 1) /\ Halves(rest).tail = SubSeq(rest, end, Len(rest))
    BY <1>2, <2>2
  <2>4. end - 1 \in 0 .. Len(rest) /\ (end - 1) + 1 = end
    BY <1>3, <2>2
  <2> QED
    BY <2>2, <2>3, <2>4
<1> QED
  BY <1>5, <1>6

\* What is sent of a tail.
LEMMA PathAre ==
    ASSUME NEW tail, tail \in Seq(Nat)
    PROVE  \E H \in 0 .. Len(tail) :
              /\ LET sent == SubSeq(tail, 1, H)
                 IN  path_with_query(tail) = IF sent = <<>> \/ sent[1] = Query THEN <<Slash>> \o sent ELSE sent
              /\ \A i \in 1 .. H : tail[i] # Hash
              /\ H < Len(tail) => tail[H + 1] = Hash
<1> DEFINE T == {i \in 1 .. Len(tail) : tail[i] = Hash}
<1> DEFINE hash == IF T # {} THEN Min(T) ELSE 0
<1> DEFINE Path(sent) == IF sent = <<>> \/ sent[1] = Query THEN <<Slash>> \o sent ELSE sent
<1>1. SelectInSeq(tail, LAMBDA b : b = Hash) = hash
  BY DEF SelectInSeq
<1>2. path_with_query(tail) = Path(IF hash = 0 THEN tail ELSE SubSeq(tail, 1, hash - 1))
  <2> HIDE DEF hash
  <2> QED
    BY <1>1 DEF path_with_query, Prefix
<1> HIDE DEF Path
<1>3. Len(tail) \in Nat /\ T \subseteq 1 .. Len(tail)
  OBVIOUS
<1>4. T = {} \/ (Min(T) \in T /\ \A i \in T : Min(T) <= i)
  <2> HIDE DEF T
  <2> QED
    BY <1>3, FirstOf
<1> SUFFICES \E H \in 0 .. Len(tail) :
              /\ path_with_query(tail) = Path(SubSeq(tail, 1, H))
              /\ \A i \in 1 .. H : tail[i] # Hash
              /\ H < Len(tail) => tail[H + 1] = Hash
  BY Zenon DEF Path
<1>5. CASE T = {}
  <2>1. tail = SubSeq(tail, 1, Len(tail))
    OBVIOUS
  <2>2. path_with_query(tail) = Path(SubSeq(tail, 1, Len(tail)))
    BY <1>2, <1>5, <2>1
  <2>3. \A i \in 1 .. Len(tail) : tail[i] # Hash
    BY <1>5
  <2> QED
    BY <1>3, <2>2, <2>3
<1>6. CASE T # {}
  <2>1. hash \in T /\ \A i \in T : hash <= i
    BY <1>4, <1>6
  <2> HIDE DEF hash
  <2>2. hash \in 1 .. Len(tail) /\ tail[hash] = Hash /\ \A i \in 1 .. hash - 1 : tail[i] # Hash
    BY <1>3, <2>1
  <2>3. path_with_query(tail) = Path(SubSeq(tail, 1, hash - 1))
    BY <1>2, <2>2
  <2>4. hash - 1 \in 0 .. Len(tail) /\ (hash - 1) + 1 = hash
    BY <1>3, <2>2
  <2> QED
    BY <2>2, <2>3, <2>4
<1> QED
  BY <1>5, <1>6

\* Where the userinfo of an authority ends.
LEMMA AtIs ==
    ASSUME NEW s, s \in Seq(Nat)
    PROVE  LET at == SelectLastInSeq(s, LAMBDA b : b = At)
           IN  /\ at \in 0 .. Len(s)
               /\ \A i \in at + 1 .. Len(s) : s[i] # At
               /\ at # 0 => s[at] = At
<1> DEFINE T == {i \in 1 .. Len(s) : s[i] = At}
<1> DEFINE at == IF T # {} THEN Max(T) ELSE 0
<1>1. SelectLastInSeq(s, LAMBDA b : b = At) = at
  BY DEF SelectLastInSeq
<1>3. Len(s) \in Nat /\ T \subseteq 1 .. Len(s)
  OBVIOUS
<1>4. T = {} \/ (Max(T) \in T /\ \A i \in T : i <= Max(T))
  <2> HIDE DEF T
  <2> QED
    BY <1>3, FirstOf
<1>5. /\ at \in 0 .. Len(s)
      /\ \A i \in at + 1 .. Len(s) : s[i] # At
      /\ at # 0 => s[at] = At
  <2>1. CASE T = {}
    <3>1. at = 0
      BY <2>1
    <3> HIDE DEF at
    <3> QED
      BY <1>3, <2>1, <3>1
  <2>2. CASE T # {}
    <3>1. at \in T /\ \A i \in T : i <= at
      BY <1>4, <2>2
    <3> HIDE DEF at
    <3> QED
      BY <1>3, <3>1
  <2> QED
    BY <2>1, <2>2
<1> QED
  BY <1>1, <1>5, Zenon

\* A part of a text.
LEMMA PartOf ==
    ASSUME NEW s \in Seq(Nat), NEW a \in Nat, NEW b \in Nat, a <= b, b <= Len(s)
    PROVE  LET t == SubSeq(s, a + 1, b)
           IN  t \in Seq(Nat) /\ Len(t) = b - a /\ \A i \in 1 .. b - a : t[i] = s[a + i]
<1>1. SubSeq(s, a + 1, b) \in Seq(Nat) /\ Len(SubSeq(s, a + 1, b)) = b - a
  OBVIOUS
<1>2. ASSUME NEW i \in 1 .. b - a PROVE SubSeq(s, a + 1, b)[i] = s[a + i]
  OBVIOUS
<1> QED
  BY <1>1, <1>2

\* Texts with the same bytes are the same.
LEMMA SameText ==
    ASSUME NEW s \in Seq(Nat), NEW t \in Seq(Nat), Len(s) = Len(t), \A i \in 1 .. Len(s) : s[i] = t[i]
    PROVE  s = t
OBVIOUS

\* What a URL is split into.
LEMMA SplitInto ==
    ASSUME NEW url, split_url(url).ok
    PROVE  LET at == SelectLastInSeq(Halves(url.rest).authority, LAMBDA b : b = At)
               p == split_url(url).value
           IN  /\ p.authority = Suffix(Halves(url.rest).authority, at + 1)
               /\ p.path = path_with_query(Halves(url.rest).tail)
               /\ p.authorization = IF at = 0 THEN <<>> ELSE basic_auth(Prefix(Halves(url.rest).authority, at - 1))
<1> DEFINE at == SelectLastInSeq(Halves(url.rest).authority, LAMBDA b : b = At)
<1> DEFINE host == Suffix(Halves(url.rest).authority, at + 1)
<1> DEFINE auth == IF at = 0 THEN <<>> ELSE basic_auth(Prefix(Halves(url.rest).authority, at - 1))
<1> DEFINE p == [scheme |-> url.scheme, authority |-> host, path |-> path_with_query(Halves(url.rest).tail),
                 authorization |-> auth]
<1>1. split_url(url) = CASE url.scheme = "missing" -> Fail("missing scheme")
          [] url.scheme \notin {"missing", "http", "https"} -> Fail("scheme must be http or https")
          [] url.scheme \in {"http", "https"} /\ host = <<>> -> Fail("missing host")
          [] OTHER -> Ok(p)
  BY DEF split_url
<1>2. p.authority = host /\ p.path = path_with_query(Halves(url.rest).tail) /\ p.authorization = auth
  OBVIOUS
<1> HIDE DEF p, host, auth
<1>3. split_url(url) = Ok(p)
  BY <1>1, Outcomes
<1>4. split_url(url).value = p
  BY <1>3, Outcomes
<1> QED
  BY <1>2, <1>4 DEF host, auth

\* The same read from the bytes of the URL: the host is what lies between the
\* last @ and A, the path what lies between A and H.
LEMMA SentIs ==
    ASSUME NEW url, url.rest \in Seq(Nat), split_url(url).ok
    PROVE  \E at \in 0 .. Len(url.rest), A \in 0 .. Len(url.rest), H \in 0 .. Len(url.rest) :
              LET rest == url.rest
                  p == split_url(url).value
                  sent == SubSeq(rest, A + 1, H)
              IN  /\ at <= A /\ A <= H
                  /\ p.authority = SubSeq(rest, at + 1, A)
                  /\ \A i \in 1 .. A : ~AuthorityEnds(rest[i])
                  /\ \A i \in at + 1 .. A : rest[i] # At
                  /\ A < H => AuthorityEnds(rest[A + 1])
                  /\ \A i \in A + 1 .. H : rest[i] # Hash
                  /\ H < Len(rest) => rest[H + 1] = Hash
                  /\ p.path = IF sent = <<>> \/ sent[1] = Query THEN <<Slash>> \o sent ELSE sent
<1> DEFINE rest == url.rest
<1> DEFINE L == Len(rest)
<1> DEFINE p == split_url(url).value
<1> DEFINE Path(sent) == IF sent = <<>> \/ sent[1] = Query THEN <<Slash>> \o sent ELSE sent
<1>0. rest \in Seq(Nat) /\ L \in Nat
  OBVIOUS
<1> HIDE DEF rest
<1>1. PICK A \in 0 .. L :
         /\ Halves(rest).authority = SubSeq(rest, 1, A) /\ Halves(rest).tail = SubSeq(rest, A + 1, L)
         /\ \A i \in 1 .. A : ~AuthorityEnds(rest[i])
         /\ A < L => AuthorityEnds(rest[A + 1])
  BY <1>0, HalvesAre
<1> DEFINE host == SubSeq(rest, 1, A)
<1> DEFINE tail == SubSeq(rest, A + 1, L)
<1> DEFINE at == SelectLastInSeq(host, LAMBDA b : b = At)
<1>2. p.authority = Suffix(host, at + 1) /\ p.path = path_with_query(tail)
  BY <1>1, SplitInto DEF rest
<1>3. host \in Seq(Nat) /\ Len(host) = A /\ \A i \in 1 .. A : host[i] = rest[i]
  BY <1>0
<1>4. tail \in Seq(Nat) /\ Len(tail) = L - A /\ \A i \in 1 .. L - A : tail[i] = rest[A + i]
  BY <1>0
<1> HIDE DEF p, Path, L
<1>5. /\ at \in 0 .. A
      /\ \A i \in at + 1 .. A : rest[i] # At
  <2> HIDE DEF host
  <2>1. at \in 0 .. A /\ \A i \in at + 1 .. A : host[i] # At
    BY <1>3, AtIs
  <2> HIDE DEF at
  <2> QED
    BY <1>3, <2>1
<1>6. PICK h \in 0 .. L - A :
         /\ path_with_query(tail) = Path(SubSeq(tail, 1, h))
         /\ \A i \in 1 .. h : tail[i] # Hash
         /\ h < L - A => tail[h + 1] = Hash
  <2> HIDE DEF tail
  <2> QED
    BY <1>4, PathAre DEF Path
<1>7. SubSeq(tail, 1, h) = SubSeq(rest, A + 1, A + h)
  <2> DEFINE t == SubSeq(tail, 0 + 1, h)
  <2> DEFINE r == SubSeq(rest, A + 1, A + h)
  <2>1. h \in Nat /\ A \in Nat /\ A + h \in Nat /\ h <= L - A /\ A <= A + h /\ A + h <= L /\ (A + h) - A = h
    BY <1>0, <1>1, <1>6
  <2> HIDE DEF tail
  <2>2. t \in Seq(Nat) /\ Len(t) = h - 0 /\ \A i \in 1 .. h - 0 : t[i] = tail[0 + i]
    BY <1>4, <2>1, PartOf
  <2>3. r \in Seq(Nat) /\ Len(r) = h /\ \A i \in 1 .. h : r[i] = rest[A + i]
    BY <1>0, <2>1, PartOf DEF L
  <2> HIDE DEF t, r
  <2>4. Len(t) = Len(r) /\ \A i \in 1 .. Len(t) : t[i] = r[i]
    <3>1. h - 0 = h /\ \A i \in 1 .. h : 0 + i = i /\ i \in 1 .. L - A
      BY <1>0, <2>1
    <3> QED
      BY <1>4, <2>2, <2>3, <3>1
  <2>5. t = r
    BY <2>2, <2>3, <2>4, SameText
  <2>6. 0 + 1 = 1
    OBVIOUS
  <2> QED
    BY <2>5, <2>6 DEF t, r
<1>8. Suffix(host, at + 1) = SubSeq(rest, at + 1, A)
  <2>1. Suffix(host, at + 1) = SubSeq(host, at + 1, A)
    BY <1>3, Zenon DEF Suffix
  <2> HIDE DEF at
  <2> QED
    BY <1>0, <1>1, <1>5, <2>1 DEF L
<1> HIDE DEF at, tail, host
<1> DEFINE H == A + h
<1>9. H \in A .. L /\ \A i \in A + 1 .. H : rest[i] # Hash
  <2>1. H \in A .. L
    BY <1>0, <1>6
  <2>2. ASSUME NEW i \in A + 1 .. H PROVE rest[i] # Hash
    <3>1. i - A \in 1 .. h /\ i - A \in 1 .. L - A /\ A + (i - A) = i
      BY <1>0, <1>6, <2>2
    <3> QED
      BY <1>4, <1>6, <3>1
  <2> QED
    BY <2>1, <2>2
<1>10. H < L => rest[H + 1] = Hash
  <2>1. SUFFICES ASSUME H < L PROVE rest[H + 1] = Hash
    OBVIOUS
  <2>2. h + 1 \in 1 .. L - A /\ A + (h + 1) = H + 1 /\ h < L - A
    BY <1>0, <1>6, <2>1
  <2> QED
    BY <1>4, <1>6, <2>2
<1>11. A < H => AuthorityEnds(rest[A + 1])
  BY <1>0, <1>1, <1>9
<1>12. p.authority = SubSeq(rest, at + 1, A) /\ p.path = Path(SubSeq(rest, A + 1, H))
  BY <1>2, <1>6, <1>7, <1>8
<1>13. at \in 0 .. L /\ A \in 0 .. L /\ H \in 0 .. L /\ at <= A /\ A <= H
  BY <1>0, <1>1, <1>5, <1>9
<1> HIDE DEF H
<1> QED
  BY <1>1, <1>5, <1>9, <1>10, <1>11, <1>12, <1>13, Zenon DEF p, Path, L, rest

\* What goes on the wire is the URL.
LEMMA UrlSent ==
    ASSUME input.rest \in Seq(Nat)
    PROVE  UrlOnTheWire
<1> DEFINE parts == split_url(input)
<1> DEFINE p == parts.value
<1> DEFINE rest == input.rest
<1> DEFINE L == Len(rest)
<1> SUFFICES ASSUME parts.ok
             PROVE  /\ ToSet(p.authority) \cap {Slash, Query, Hash, At} = {}
                    /\ p.path[1] = Slash /\ Hash \notin ToSet(p.path)
                    /\ \E i \in 0 .. Len(rest) :
                          LET sent == p.authority \o p.path
                              shown == p.authority \o Suffix(p.path, 2)
                              tail == Suffix(rest, i + 1)
                          IN  \E text \in {sent, shown} :
                                  /\ IsPrefix(text, tail)
                                  /\ Len(text) < Len(tail) => tail[Len(text) + 1] = Hash
  BY Zenon DEF UrlOnTheWire
<1>0. rest \in Seq(Nat) /\ L \in Nat
  OBVIOUS
<1>1. PICK at \in 0 .. L, A \in 0 .. L, H \in 0 .. L :
              LET sent == SubSeq(rest, A + 1, H)
              IN  /\ at <= A /\ A <= H
                  /\ p.authority = SubSeq(rest, at + 1, A)
                  /\ \A i \in 1 .. A : ~AuthorityEnds(rest[i])
                  /\ \A i \in at + 1 .. A : rest[i] # At
                  /\ A < H => AuthorityEnds(rest[A + 1])
                  /\ \A i \in A + 1 .. H : rest[i] # Hash
                  /\ H < Len(rest) => rest[H + 1] = Hash
                  /\ p.path = IF sent = <<>> \/ sent[1] = Query THEN <<Slash>> \o sent ELSE sent
  BY SentIs, Zenon
<1> HIDE DEF p, rest, L, parts
<1> DEFINE host == SubSeq(rest, at + 1, A)
<1> DEFINE sent == SubSeq(rest, A + 1, H)
<1> DEFINE all == SubSeq(rest, at + 1, H)
<1> DEFINE tail == SubSeq(rest, at + 1, L)
<1>2. /\ host \in Seq(Nat) /\ Len(host) = A - at
      /\ \A i \in 1 .. A - at : host[i] = rest[at + i]
  <2>1. at \in Nat /\ A \in Nat /\ at <= A /\ A <= L
    BY <1>0, <1>1
  <2> QED
    BY <1>0, <2>1, PartOf DEF L
<1>3. /\ sent \in Seq(Nat) /\ Len(sent) = H - A
      /\ \A i \in 1 .. H - A : sent[i] = rest[A + i]
  <2>1. A \in Nat /\ H \in Nat /\ A <= H /\ H <= L
    BY <1>0, <1>1
  <2> QED
    BY <1>0, <2>1, PartOf DEF L
<1>4. ToSet(p.authority) \cap {Slash, Query, Hash, At} = {}
  <2> SUFFICES ASSUME NEW i \in DOMAIN host PROVE host[i] \notin {Slash, Query, Hash, At}
    BY <1>1 DEF ToSet
  <2>1. i \in 1 .. A - at
    BY <1>2
  <2>2. host[i] = rest[at + i] /\ at + i \in at + 1 .. A /\ at + i \in 1 .. A
    BY <1>0, <1>1, <1>2, <2>1 DEF L
  <2>3. ~AuthorityEnds(host[i]) /\ host[i] # At
    BY <1>1, <2>2
  <2> QED
    BY <2>3 DEF AuthorityEnds
<1>5. Hash \notin ToSet(sent)
  <2> SUFFICES ASSUME NEW i \in DOMAIN sent PROVE sent[i] # Hash
    BY DEF ToSet
  <2>1. i \in 1 .. H - A
    BY <1>3
  <2>2. sent[i] = rest[A + i] /\ A + i \in A + 1 .. H
    BY <1>0, <1>1, <1>3, <2>1 DEF L
  <2> QED
    BY <1>1, <2>2
<1>6. sent = <<>> \/ sent[1] \in {Slash, Query}
  <2>1. CASE A < H
    <3>1. sent[1] = rest[A + 1] /\ A + 1 \in A + 1 .. H
      BY <1>0, <1>1, <1>3, <2>1 DEF L
    <3> QED
      BY <1>1, <2>1, <3>1 DEF AuthorityEnds
  <2>2. CASE A = H
    BY <1>3, <2>2
  <2> QED
    BY <1>1, <2>1, <2>2 DEF L
<1>7. host \o sent = all
  BY <1>0, <1>1, SMTT(30) DEF L
<1>8. IsPrefix(all, tail) /\ Len(all) = H - at /\ Len(tail) = L - at
  BY <1>0, <1>1 DEF L, IsPrefix
<1>9. Len(all) < Len(tail) => tail[Len(all) + 1] = Hash
  <2> SUFFICES ASSUME Len(all) < Len(tail) PROVE tail[Len(all) + 1] = Hash
    OBVIOUS
  <2>1. at \in Nat /\ H \in Nat /\ L \in Nat /\ at <= H /\ H < L
    BY <1>0, <1>1, <1>8
  <2>2. rest[H + 1] = Hash
    BY <1>1, <2>1 DEF L
  <2>3. tail[(H - at) + 1] = rest[H + 1]
    <3>1. \A i \in 1 .. L - at : tail[i] = rest[at + i]
      <4>1. at <= L /\ L <= Len(rest) /\ tail = SubSeq(rest, at + 1, L)
        BY <1>0, <2>1 DEF L
      <4> HIDE DEF tail
      <4> QED
        BY <1>0, <2>1, <4>1, PartOf
    <3>2. (H - at) + 1 \in 1 .. L - at /\ at + ((H - at) + 1) = H + 1
      BY <2>1
    <3> HIDE DEF tail
    <3> QED
      BY <3>1, <3>2
  <2> HIDE DEF all, tail
  <2> QED
    BY <1>8, <2>2, <2>3
<1>10. tail = Suffix(rest, at + 1)
  BY DEF Suffix, L
<1> HIDE DEF host, sent, all, tail
<1>11. CASE sent = <<>> \/ sent[1] = Query
  <2> DEFINE path == <<Slash>> \o sent
  <2>1. p.path = path
    BY <1>1, <1>11 DEF sent
  <2>2. path[1] = Slash /\ Len(path) = 1 + Len(sent) /\ \A i \in 2 .. Len(path) : path[i] = sent[i - 1]
    BY <1>3
  <2>3. Suffix(path, 2) = sent
    BY <1>3 DEF Suffix
  <2>4. Hash \notin ToSet(path)
    <3>1. ASSUME NEW i \in DOMAIN path PROVE path[i] # Hash
      <4>1. CASE i = 1
        BY <2>2, <4>1 DEF Slash, Hash
      <4>2. CASE i # 1
        <5>1. i \in 2 .. Len(path) /\ i - 1 \in DOMAIN sent
          BY <1>3, <2>2, <4>2
        <5>2. path[i] = sent[i - 1]
          BY <2>2, <5>1
        <5> QED
          BY <1>5, <5>1, <5>2 DEF ToSet
      <4> QED
        BY <4>1, <4>2
    <3> QED
      BY <3>1 DEF ToSet
  <2> HIDE DEF path
  <2>5. p.authority \o Suffix(p.path, 2) = all
    BY <1>1, <1>7, <2>1, <2>3 DEF host
  <2> QED
    BY <1>1, <1>4, <1>8, <1>9, <1>10, <2>1, <2>2, <2>4, <2>5 DEF L
<1>12. CASE sent # <<>> /\ sent[1] # Query
  <2>1. p.path = sent
    BY <1>1, <1>12 DEF sent
  <2>2. p.authority \o p.path = all
    BY <1>1, <1>7, <2>1 DEF host
  <2> QED
    BY <1>1, <1>4, <1>5, <1>6, <1>8, <1>9, <1>10, <1>12, <2>1, <2>2 DEF L
<1> QED
  BY <1>11, <1>12
-----------------------------------------------------------------------------
(* Credentials. *)

Hex(n) == IF n < 10 THEN 48 + n ELSE 55 + n

\* A digit is one of the hexadecimal ones and has its value.
LEMMA HexDigits ==
    ASSUME NEW n \in 0 .. 15
    PROVE  /\ Hex(n) \in Nat /\ hex_val(Hex(n)) = n
           /\ Hex(n) \notin {Percent, Slash, Query, Hash, At, Colon}
<1>1. CASE n < 10
  <2>1. Hex(n) = 48 + n /\ Hex(n) \in 48 .. 57
    BY <1>1 DEF Hex
  <2>2. hex_val(Hex(n)) = Hex(n) - 48
    BY <2>1 DEF hex_val
  <2> QED
    BY <2>1, <2>2 DEF Percent, Slash, Query, Hash, At, Colon
<1>2. CASE n >= 10
  <2>1. Hex(n) = 55 + n /\ Hex(n) \in 65 .. 70
    BY <1>2 DEF Hex
  <2>2. hex_val(Hex(n)) = Hex(n) - 55
    BY <2>1 DEF hex_val
  <2> QED
    BY <2>1, <2>2 DEF Percent, Slash, Query, Hash, At, Colon
<1> QED
  BY <1>1, <1>2

\* The two digits of a byte.
LEMMA ByteDigits ==
    ASSUME NEW b \in 0 .. 255
    PROVE  b \div 16 \in 0 .. 15 /\ b % 16 \in 0 .. 15 /\ 16 * (b \div 16) + (b % 16) = b
OBVIOUS

\* The escape of the k-th byte.
LEMMA EscapedAt ==
    ASSUME NEW s \in Seq(0 .. 255)
    PROVE  /\ Escaped(s) \in Seq(Nat) /\ Len(Escaped(s)) = 3 * Len(s)
           /\ \A k \in 1 .. Len(s) :
                 /\ Escaped(s)[3 * k - 2] = Percent
                 /\ Escaped(s)[3 * k - 1] = Hex(s[k] \div 16)
                 /\ Escaped(s)[3 * k] = Hex(s[k] % 16)
           /\ \A i \in 1 .. 3 * Len(s) : Escaped(s)[i] \notin {Slash, Query, Hash, At, Colon}
<1>0. Len(s) \in Nat /\ \A j \in 1 .. Len(s) : s[j] \in 0 .. 255
  BY LenProperties, ElementOfSeq
<1> DEFINE e(i) == CASE i % 3 = 1 -> Percent
                     [] i % 3 = 2 -> Hex(s[(i + 2) \div 3] \div 16)
                     [] i % 3 = 0 -> Hex(s[(i + 2) \div 3] % 16)
<1>1. Escaped(s) = [i \in 1 .. 3 * Len(s) |-> e(i)]
  BY DEF Escaped, Hex
<1>2. ASSUME NEW i \in 1 .. 3 * Len(s)
      PROVE  e(i) \in Nat /\ e(i) \notin {Slash, Query, Hash, At, Colon}
  <2> DEFINE k == (i + 2) \div 3
  <2>1. k \in 1 .. Len(s) /\ i % 3 \in {0, 1, 2}
    BY <1>0
  <2>2. s[k] \in 0 .. 255
    <3> HIDE DEF k
    <3> QED
      BY <1>0, <2>1
  <2>3. Hex(s[k] \div 16) \in Nat \ {Slash, Query, Hash, At, Colon} /\ Hex(s[k] % 16) \in Nat \ {Slash, Query, Hash, At, Colon}
    BY <2>2, ByteDigits, HexDigits
  <2>4. Percent \in Nat \ {Slash, Query, Hash, At, Colon}
    BY DEF Percent, Slash, Query, Hash, At, Colon
  <2> QED
    BY <2>1, <2>3, <2>4
<1>3. Escaped(s) \in Seq(Nat) /\ Len(Escaped(s)) = 3 * Len(s)
  <2> HIDE DEF e
  <2> QED
    BY <1>0, <1>1, <1>2
<1>4. ASSUME NEW k \in 1 .. Len(s)
      PROVE  /\ Escaped(s)[3 * k - 2] = Percent
             /\ Escaped(s)[3 * k - 1] = Hex(s[k] \div 16)
             /\ Escaped(s)[3 * k] = Hex(s[k] % 16)
  <2>1. /\ 3 * k - 2 \in 1 .. 3 * Len(s) /\ 3 * k - 1 \in 1 .. 3 * Len(s) /\ 3 * k \in 1 .. 3 * Len(s)
    BY <1>0
  <2>2. (3 * k - 2) % 3 = 1 /\ (3 * k - 1) % 3 = 2 /\ (3 * k) % 3 = 0
    OBVIOUS
  <2>3. (3 * k - 1 + 2) \div 3 = k /\ (3 * k + 2) \div 3 = k
    OBVIOUS
  <2>4. e(3 * k - 2) = Percent
    BY <2>2
  <2>5. e(3 * k - 1) = Hex(s[k] \div 16)
    <3>1. ASSUME NEW i, i % 3 = 2, (i + 2) \div 3 = k PROVE e(i) = Hex(s[k] \div 16)
      BY <3>1
    <3> HIDE DEF e
    <3> QED
      BY <2>2, <2>3, <3>1
  <2>6. e(3 * k) = Hex(s[k] % 16)
    <3>1. ASSUME NEW i, i % 3 = 0, (i + 2) \div 3 = k PROVE e(i) = Hex(s[k] % 16)
      BY <3>1
    <3> HIDE DEF e
    <3> QED
      BY <2>2, <2>3, <3>1
  <2> HIDE DEF e
  <2> QED
    BY <1>1, <2>1, <2>4, <2>5, <2>6
<1>5. \A i \in 1 .. 3 * Len(s) : Escaped(s)[i] \notin {Slash, Query, Hash, At, Colon}
  <2> HIDE DEF e
  <2> QED
    BY <1>1, <1>2
<1> QED
  BY <1>3, <1>4, <1>5

\* One step of percent_decode.
Decodes(e, f, i) ==
    LET escape == e[i] = Percent /\ i + 2 <= Len(e) /\ hex_val(e[i + 1]) < 16 /\ hex_val(e[i + 2]) < 16
    IN  f[i] = IF i > Len(e) THEN <<>>
               ELSE IF escape THEN <<16 * hex_val(e[i + 1]) + hex_val(e[i + 2])>> \o f[i + 3]
               ELSE <<e[i]>> \o f[i + 1]

\* percent_decode is what any function that makes these steps has first, when
\* there is one.
LEMMA DecodesTo ==
    ASSUME NEW e, Len(e) \in Nat, NEW g,
           DOMAIN g = 1 .. Len(e) + 1, \A i \in 1 .. Len(e) + 1 : Decodes(e, g, i)
    PROVE  \E f : DOMAIN f = 1 .. Len(e) + 1 /\ (\A i \in 1 .. Len(e) + 1 : Decodes(e, f, i)) /\ percent_decode(e) = f[1]
<1> DEFINE escape(i) == e[i] = Percent /\ i + 2 <= Len(e) /\ hex_val(e[i + 1]) < 16 /\ hex_val(e[i + 2]) < 16
<1> DEFINE One(f, i) == IF i > Len(e) THEN <<>>
                        ELSE IF escape(i) THEN <<16 * hex_val(e[i + 1]) + hex_val(e[i + 2])>> \o f[i + 3]
                        ELSE <<e[i]>> \o f[i + 1]
<1> DEFINE Def(f) == [i \in 1 .. Len(e) + 1 |-> One(f, i)]
<1> DEFINE from == CHOOSE f : f = Def(f)
<1>1. percent_decode(e) = from[1]
  BY DEF percent_decode
<1>2. ASSUME NEW f, NEW i PROVE Decodes(e, f, i) <=> f[i] = One(f, i)
  BY DEF Decodes
<1> HIDE DEF One
<1> DEFINE h == [i \in 1 .. Len(e) + 1 |-> g[i]]
<1>3. h = Def(h)
  <2>1. ASSUME NEW i \in 1 .. Len(e) + 1 PROVE One(h, i) = One(g, i)
    <3>1. CASE i > Len(e)
      BY <3>1 DEF One
    <3>2. CASE i <= Len(e) /\ escape(i)
      <4>1. h[i + 3] = g[i + 3]
        BY <3>2
      <4> HIDE DEF h, escape
      <4> QED
        BY <3>2, <4>1 DEF One
    <3>3. CASE i <= Len(e) /\ ~escape(i)
      <4>1. h[i + 1] = g[i + 1]
        BY <3>3
      <4> HIDE DEF h, escape
      <4> QED
        BY <3>3, <4>1 DEF One
    <3> QED
      BY <3>1, <3>2, <3>3
  <2>2. \A i \in 1 .. Len(e) + 1 : g[i] = One(g, i)
    BY <1>2
  <2>3. \A i \in 1 .. Len(e) + 1 : g[i] = One(h, i)
    BY <2>1, <2>2
  <2>4. [i \in 1 .. Len(e) + 1 |-> g[i]] = [i \in 1 .. Len(e) + 1 |-> One(h, i)]
    <3> HIDE DEF h
    <3> QED
      BY <2>3
  <2> QED
    BY <2>4
<1>4. from = Def(from)
  <2> HIDE DEF Def, h
  <2> QED
    BY <1>3
<1> HIDE DEF from
<1>5. DOMAIN from = 1 .. Len(e) + 1 /\ \A i \in 1 .. Len(e) + 1 : from[i] = One(from, i)
  BY <1>4
<1> QED
  BY <1>1, <1>2, <1>5

\* What was escaped is decoded.
LEMMA EscapedDecodes ==
    ASSUME NEW s \in Seq(0 .. 255)
    PROVE  percent_decode(Escaped(s)) = s
<1> DEFINE e == Escaped(s)
<1> DEFINE n == Len(s)
<1> DEFINE Rest(k) == SubSeq(s, k, n)
<1>0. n \in Nat /\ s \in Seq(0 .. 255) /\ \A k \in 1 .. n : s[k] \in 0 .. 255
  BY LenProperties, ElementOfSeq
<1>1. e \in Seq(Nat) /\ Len(e) = 3 * n
  BY EscapedAt
<1>2. ASSUME NEW k \in 1 .. n
      PROVE  /\ e[3 * k - 2] = Percent /\ e[3 * k - 1] # Percent /\ e[3 * k] # Percent
             /\ hex_val(e[3 * k - 1]) \in 0 .. 15 /\ hex_val(e[3 * k]) \in 0 .. 15
             /\ 16 * hex_val(e[3 * k - 1]) + hex_val(e[3 * k]) = s[k]
  <2>1. e[3 * k - 2] = Percent /\ e[3 * k - 1] = Hex(s[k] \div 16) /\ e[3 * k] = Hex(s[k] % 16)
    BY EscapedAt
  <2>2. s[k] \div 16 \in 0 .. 15 /\ s[k] % 16 \in 0 .. 15 /\ 16 * (s[k] \div 16) + (s[k] % 16) = s[k]
    BY <1>0, ByteDigits
  <2> HIDE DEF e
  <2> QED
    BY <2>1, <2>2, HexDigits
<1> HIDE DEF e
<1>3. ASSUME NEW k \in 1 .. n PROVE Rest(k) = <<s[k]>> \o Rest(k + 1)
  BY <1>0
<1>4. Rest(n + 1) = <<>> /\ Rest(1) = s
  BY <1>0
<1> HIDE DEF Rest, n
\* A function that makes the steps.
<1> DEFINE g == [i \in 1 .. 3 * n + 1 |->
                   CASE i % 3 = 1 -> Rest((i + 2) \div 3)
                     [] i % 3 = 2 -> <<e[i]>> \o (<<e[i + 1]>> \o Rest((i + 4) \div 3))
                     [] i % 3 = 0 -> <<e[i]>> \o Rest((i + 3) \div 3)]
<1>5. ASSUME NEW k \in 1 .. n
      PROVE  /\ g[3 * k - 2] = Rest(k)
             /\ g[3 * k - 1] = <<e[3 * k - 1]>> \o g[3 * k]
             /\ g[3 * k] = <<e[3 * k]>> \o g[3 * k + 1]
             /\ g[3 * k + 1] = Rest(k + 1)
  <2>1. /\ 3 * k - 2 \in 1 .. 3 * n + 1 /\ 3 * k - 1 \in 1 .. 3 * n + 1
        /\ 3 * k \in 1 .. 3 * n + 1 /\ 3 * k + 1 \in 1 .. 3 * n + 1
    BY <1>0
  <2>2. /\ (3 * k - 2) % 3 = 1 /\ (3 * k - 1) % 3 = 2 /\ (3 * k) % 3 = 0 /\ (3 * k + 1) % 3 = 1
    OBVIOUS
  <2>3. /\ ((3 * k - 2) + 2) \div 3 = k /\ ((3 * k - 1) + 4) \div 3 = k + 1 /\ (3 * k + 3) \div 3 = k + 1
        /\ ((3 * k + 1) + 2) \div 3 = k + 1 /\ (3 * k - 1) + 1 = 3 * k
    OBVIOUS
  <2>4. ASSUME NEW i \in 1 .. 3 * n + 1, i % 3 = 1, NEW j, (i + 2) \div 3 = j PROVE g[i] = Rest(j)
    BY <2>4
  <2>5. ASSUME NEW i \in 1 .. 3 * n + 1, i % 3 = 2, NEW j, (i + 4) \div 3 = j
        PROVE  g[i] = <<e[i]>> \o (<<e[i + 1]>> \o Rest(j))
    BY <2>5
  <2>6. ASSUME NEW i \in 1 .. 3 * n + 1, i % 3 = 0, NEW j, (i + 3) \div 3 = j PROVE g[i] = <<e[i]>> \o Rest(j)
    BY <2>6
  <2> HIDE DEF g
  <2>7. g[3 * k - 2] = Rest(k) /\ g[3 * k + 1] = Rest(k + 1)
    BY <2>1, <2>2, <2>3, <2>4
  <2>8. g[3 * k] = <<e[3 * k]>> \o Rest(k + 1)
    BY <2>1, <2>2, <2>3, <2>6
  <2>9. g[3 * k - 1] = <<e[3 * k - 1]>> \o (<<e[3 * k]>> \o Rest(k + 1))
    BY <2>1, <2>2, <2>3, <2>5
  <2> QED
    BY <2>7, <2>8, <2>9
<1>6. g[3 * n + 1] = <<>> /\ DOMAIN g = 1 .. 3 * n + 1
  <2>1. (3 * n + 1) % 3 = 1 /\ ((3 * n + 1) + 2) \div 3 = n + 1 /\ 3 * n + 1 \in 1 .. 3 * n + 1
    BY <1>0
  <2> QED
    BY <1>4, <2>1
<1> HIDE DEF g
\* A position is one of three in an escape, or behind the last.
<1>7. ASSUME NEW i \in 1 .. 3 * n + 1
      PROVE  i = 3 * n + 1 \/ \E k \in 1 .. n : i \in {3 * k - 2, 3 * k - 1, 3 * k}
  <2>1. i = 3 * n + 1 \/ ((i + 2) \div 3 \in 1 .. n
            /\ i \in {3 * ((i + 2) \div 3) - 2, 3 * ((i + 2) \div 3) - 1, 3 * ((i + 2) \div 3)})
    BY <1>0
  <2> QED
    BY <2>1
<1>8. ASSUME NEW f, NEW k \in 1 .. n
      PROVE  /\ Decodes(e, f, 3 * k - 2) <=> f[3 * k - 2] = <<s[k]>> \o f[3 * k + 1]
             /\ Decodes(e, f, 3 * k - 1) <=> f[3 * k - 1] = <<e[3 * k - 1]>> \o f[3 * k]
             /\ Decodes(e, f, 3 * k) <=> f[3 * k] = <<e[3 * k]>> \o f[3 * k + 1]
  <2>1. /\ (3 * k - 2) + 1 = 3 * k - 1 /\ (3 * k - 2) + 2 = 3 * k /\ (3 * k - 2) + 3 = 3 * k + 1 /\ (3 * k - 1) + 1 = 3 * k
        /\ 3 * k <= Len(e) /\ ~(3 * k > Len(e)) /\ ~(3 * k - 1 > Len(e)) /\ ~(3 * k - 2 > Len(e))
    BY <1>0, <1>1
  <2>2. hex_val(e[3 * k - 1]) < 16 /\ hex_val(e[3 * k]) < 16
    <3>1. ASSUME NEW x \in 0 .. 15 PROVE x < 16
      OBVIOUS
    <3>2. hex_val(e[3 * k - 1]) \in 0 .. 15 /\ hex_val(e[3 * k]) \in 0 .. 15
      BY <1>2
    <3> QED
      BY <3>1, <3>2
  <2>3. Decodes(e, f, 3 * k - 2) <=> f[3 * k - 2] = <<s[k]>> \o f[3 * k + 1]
    BY <1>2, <2>1, <2>2 DEF Decodes
  <2>4. Decodes(e, f, 3 * k - 1) <=> f[3 * k - 1] = <<e[3 * k - 1]>> \o f[3 * k]
    BY <1>2, <2>1 DEF Decodes
  <2>5. Decodes(e, f, 3 * k) <=> f[3 * k] = <<e[3 * k]>> \o f[3 * k + 1]
    BY <1>2, <2>1 DEF Decodes
  <2> QED
    BY <2>3, <2>4, <2>5
<1>9. ASSUME NEW f PROVE Decodes(e, f, 3 * n + 1) <=> f[3 * n + 1] = <<>>
  <2>1. 3 * n + 1 > Len(e)
    BY <1>0, <1>1
  <2> QED
    BY <2>1 DEF Decodes
<1>10. \A i \in 1 .. Len(e) + 1 : Decodes(e, g, i)
  <2> SUFFICES ASSUME NEW i \in 1 .. 3 * n + 1 PROVE Decodes(e, g, i)
    BY <1>1
  <2>1. CASE i = 3 * n + 1
    BY <1>6, <1>9, <2>1
  <2>2. ASSUME NEW k \in 1 .. n, i \in {3 * k - 2, 3 * k - 1, 3 * k} PROVE Decodes(e, g, i)
    <3>1. g[3 * k - 2] = <<s[k]>> \o g[3 * k + 1]
      BY <1>3, <1>5
    <3> QED
      BY <1>5, <1>8, <2>2, <3>1
  <2> QED
    BY <1>7, <2>1, <2>2
<1>11. PICK f : /\ \A i \in 1 .. Len(e) + 1 : Decodes(e, f, i)
                /\ percent_decode(e) = f[1]
  <2>1. Len(e) \in Nat /\ DOMAIN g = 1 .. Len(e) + 1
    BY <1>0, <1>1, <1>6
  <2> QED
    BY <1>10, <2>1, DecodesTo
<1>12. \A k \in 1 .. n : f[3 * k - 2] = <<s[k]>> \o f[3 * k + 1]
  <2> SUFFICES ASSUME NEW k \in 1 .. n PROVE f[3 * k - 2] = <<s[k]>> \o f[3 * k + 1]
    OBVIOUS
  <2>1. 3 * k - 2 \in 1 .. Len(e) + 1
    BY <1>0, <1>1
  <2>2. Decodes(e, f, 3 * k - 2)
    BY <1>11, <2>1
  <2> QED
    BY <1>8, <2>2
<1>13. f[3 * n + 1] = <<>>
  <2>1. 3 * n + 1 \in 1 .. Len(e) + 1
    BY <1>0, <1>1
  <2> QED
    BY <1>9, <1>11, <2>1
\* By induction on what is left.
<1> DEFINE Bad == {m \in 0 .. n : f[3 * (n - m) + 1] # Rest(n - m + 1)}
<1>14. Bad = {}
  <2> SUFFICES ASSUME Bad # {} PROVE FALSE
    OBVIOUS
  <2>1. Bad \subseteq Nat
    BY <1>0
  <2>2. PICK m \in Bad : \A l \in Bad : m <= l
    BY <2>1, LeastNat
  <2>3. m # 0
    BY <1>0, <1>4, <1>13, <2>2
  <2>4. m \in 1 .. n /\ m - 1 \in 0 .. n /\ m - 1 \notin Bad
    <3>1. m \in 0 .. n
      OBVIOUS
    <3>2. m - 1 \notin Bad
      <4> HIDE DEF Bad
      <4> QED
        BY <1>0, <2>2, <3>1
    <3> HIDE DEF Bad
    <3> QED
      BY <1>0, <2>3, <3>1, <3>2
  <2> DEFINE k == n - m + 1
  <2>5. k \in 1 .. n /\ n - (m - 1) = k /\ 3 * k - 2 = 3 * (n - m) + 1 /\ n - (m - 1) + 1 = k + 1
    BY <1>0, <2>4
  <2>6. f[3 * k + 1] = Rest(k + 1)
    BY <2>4, <2>5
  <2>7. f[3 * k - 2] = Rest(k)
    BY <1>3, <1>12, <2>5, <2>6
  <2> QED
    BY <2>2, <2>5, <2>7
<1> QED
  <2>1. n \in 0 .. n /\ 3 * (n - n) + 1 = 1 /\ n - n + 1 = 1
    BY <1>0
  <2>2. f[1] = Rest(1)
    BY <1>14, <2>1
  <2> QED
    BY <1>4, <1>11, <2>2 DEF e

\* Two texts with a byte between them.
LEMMA Between ==
    ASSUME NEW U \in Seq(Nat), NEW V \in Seq(Nat), NEW c \in Nat
    PROVE  LET w == U \o <<c>> \o V
           IN  /\ w \in Seq(Nat) /\ Len(w) = Len(U) + 1 + Len(V) /\ Len(U) \in Nat /\ Len(V) \in Nat
               /\ \A i \in 1 .. Len(U) : w[i] = U[i]
               /\ w[Len(U) + 1] = c
               /\ \A i \in 1 .. Len(V) : w[Len(U) + 1 + i] = V[i]
               /\ SubSeq(w, 1, Len(U)) = U
               /\ SubSeq(w, Len(U) + 2, Len(w)) = V
<1> DEFINE w == U \o <<c>> \o V
<1>1. w \in Seq(Nat) /\ Len(w) = Len(U) + 1 + Len(V) /\ Len(U) \in Nat /\ Len(V) \in Nat
  OBVIOUS
<1>2. /\ \A i \in 1 .. Len(U) : w[i] = U[i]
      /\ w[Len(U) + 1] = c
      /\ \A i \in 1 .. Len(V) : w[Len(U) + 1 + i] = V[i]
  OBVIOUS
<1> HIDE DEF w
<1>3. SubSeq(w, 1, Len(U)) = U
  BY <1>1, <1>2
<1>4. SubSeq(w, Len(U) + 2, Len(w)) = V
  <2>1. Len(SubSeq(w, Len(U) + 2, Len(w))) = Len(V) /\ SubSeq(w, Len(U) + 2, Len(w)) \in Seq(Nat)
    BY <1>1
  <2>2. ASSUME NEW i \in 1 .. Len(V) PROVE SubSeq(w, Len(U) + 2, Len(w))[i] = V[i]
    BY <1>1, <1>2
  <2> QED
    BY <2>1, <2>2, SMTT(30)
<1> QED
  BY <1>1, <1>2, <1>3, <1>4 DEF w

\* A text with two bytes behind it.
LEMMA Followed ==
    ASSUME NEW w \in Seq(Nat), NEW a \in Nat, NEW b \in Nat
    PROVE  LET rest == w \o <<a, b>>
           IN  /\ rest \in Seq(Nat) /\ Len(rest) = Len(w) + 2
               /\ \A i \in 1 .. Len(w) : rest[i] = w[i]
               /\ rest[Len(w) + 1] = a /\ rest[Len(w) + 2] = b
               /\ SubSeq(rest, 1, Len(w)) = w
               /\ SubSeq(rest, Len(w) + 2, Len(w) + 2) = <<b>>
<1> DEFINE rest == w \o <<a, b>>
<1>1. rest \in Seq(Nat) /\ Len(rest) = Len(w) + 2 /\ Len(w) \in Nat
  OBVIOUS
<1>2. /\ \A i \in 1 .. Len(w) : rest[i] = w[i]
      /\ rest[Len(w) + 1] = a /\ rest[Len(w) + 2] = b
  OBVIOUS
<1> HIDE DEF rest
<1>3. SubSeq(rest, 1, Len(w)) = w
  BY <1>1, <1>2
<1>4. SubSeq(rest, Len(w) + 2, Len(w) + 2) = <<b>>
  <2> DEFINE t == SubSeq(rest, Len(w) + 2, Len(w) + 2)
  <2>1. t \in Seq(Nat) /\ Len(t) = 1
    BY <1>1
  <2>2. t[1] = b
    BY <1>1, <1>2
  <2> HIDE DEF t
  <2>3. t = <<b>>
    BY <2>1, <2>2
  <2> QED
    BY <2>3 DEF t
<1> QED
  BY <1>1, <1>2, <1>3, <1>4 DEF rest

\* The credentials of a user and a password that were escaped.
LEMMA BasicAuth ==
    ASSUME NEW u \in Seq(0 .. 255), NEW p \in Seq(0 .. 255)
    PROVE  basic_auth(Escaped(u) \o <<Colon>> \o Escaped(p)) = u \o <<Colon>> \o p
<1> DEFINE U == Escaped(u)
<1> DEFINE V == Escaped(p)
<1> DEFINE w == U \o <<Colon>> \o V
<1>1. /\ U \in Seq(Nat) /\ V \in Seq(Nat)
      /\ \A i \in 1 .. Len(U) : U[i] # Colon
      /\ percent_decode(U) = u /\ percent_decode(V) = p
  BY EscapedAt, EscapedDecodes
<1>2. Colon \in Nat
  BY DEF Colon
<1> HIDE DEF U, V
<1>3. /\ w \in Seq(Nat) /\ Len(w) = Len(U) + 1 + Len(V) /\ Len(U) \in Nat /\ Len(V) \in Nat
      /\ \A i \in 1 .. Len(U) : w[i] # Colon
      /\ w[Len(U) + 1] = Colon
      /\ SubSeq(w, 1, Len(U)) = U
      /\ SubSeq(w, Len(U) + 2, Len(w)) = V
  BY <1>1, <1>2, Between
<1> HIDE DEF w
<1> DEFINE T == {i \in 1 .. Len(w) : w[i] = Colon}
<1> DEFINE colon == SelectInSeq(w, LAMBDA b : b = Colon)
<1>4. colon = Len(U) + 1
  <2>1. colon = IF T # {} THEN Min(T) ELSE 0
    BY DEF SelectInSeq
  <2>2. T \subseteq 1 .. Len(w) /\ Len(w) \in Nat /\ Len(U) + 1 \in T /\ \A i \in T : Len(U) + 1 <= i
    BY <1>3
  <2> HIDE DEF T, colon
  <2>5. Min(T) = Len(U) + 1
    BY <2>2, FirstIs
  <2> QED
    BY <2>1, <2>2, <2>5
<1>5. w # <<>>
  BY <1>3
<1>6. basic_auth(w) = percent_decode(Prefix(w, colon - 1)) \o <<Colon>> \o percent_decode(Suffix(w, colon + 1))
  <2>1. colon # 0
    BY <1>3, <1>4
  <2> HIDE DEF colon
  <2> QED
    BY <1>5, <2>1 DEF basic_auth, colon
<1>7. Prefix(w, colon - 1) = U /\ Suffix(w, colon + 1) = V
  <2>1. colon - 1 = Len(U) /\ colon + 1 = Len(U) + 2
    BY <1>3, <1>4
  <2> HIDE DEF colon
  <2> QED
    BY <1>3, <2>1 DEF Prefix, Suffix
<1> QED
  BY <1>1, <1>6, <1>7 DEF w, U, V

\* Escaped credentials arrive.
LEMMA LoginsArrive ==
    ASSUME input.user \in Seq(0 .. 255), input.pass \in Seq(0 .. 255)
    PROVE  CredentialsArrive
<1> DEFINE U == Escaped(input.user)
<1> DEFINE V == Escaped(input.pass)
<1> DEFINE w == U \o <<Colon>> \o V
<1> DEFINE rest == w \o <<At, 104>>
<1> DEFINE url == [scheme |-> "https", rest |-> rest]
<1> DEFINE L == Len(w)
<1>1. w \in Seq(Nat) /\ L \in Nat /\ \A i \in 1 .. L : w[i] \notin {Slash, Query, Hash, At}
  <2>1. /\ U \in Seq(Nat) /\ V \in Seq(Nat)
        /\ \A i \in 1 .. Len(U) : U[i] \notin {Slash, Query, Hash, At}
        /\ \A i \in 1 .. Len(V) : V[i] \notin {Slash, Query, Hash, At}
    BY EscapedAt
  <2> HIDE DEF U, V
  <2>2. Colon \in Nat /\ Colon \notin {Slash, Query, Hash, At}
    BY DEF Colon, Slash, Query, Hash, At
  <2>3. /\ w \in Seq(Nat) /\ L = Len(U) + 1 + Len(V) /\ Len(U) \in Nat /\ Len(V) \in Nat
        /\ \A i \in 1 .. Len(U) : w[i] = U[i]
        /\ w[Len(U) + 1] = Colon
        /\ \A i \in 1 .. Len(V) : w[Len(U) + 1 + i] = V[i]
    BY <2>1, <2>2, Between
  <2> HIDE DEF w
  <2>4. ASSUME NEW i \in 1 .. L PROVE w[i] \notin {Slash, Query, Hash, At}
    <3>1. CASE i <= Len(U)
      <4>1. i \in 1 .. Len(U)
        BY <2>3, <3>1
      <4> QED
        BY <2>1, <2>3, <4>1
    <3>2. CASE i = Len(U) + 1
      BY <2>2, <2>3, <3>2
    <3>3. CASE i > Len(U) + 1
      <4>1. PICK j \in 1 .. Len(V) : Len(U) + 1 + j = i
        <5>1. i - Len(U) - 1 \in 1 .. Len(V) /\ Len(U) + 1 + (i - Len(U) - 1) = i
          BY <2>3, <3>3
        <5> QED
          BY <5>1
      <4>2. w[i] = V[j]
        BY <2>3, <4>1
      <4> QED
        BY <2>1, <4>2
    <3>4. i \in Nat /\ Len(U) \in Nat
      BY <2>3
    <3>5. i <= Len(U) \/ i = Len(U) + 1 \/ i > Len(U) + 1
      BY <3>4
    <3> QED
      BY <3>1, <3>2, <3>3, <3>5
  <2> QED
    BY <2>3, <2>4
<1>2. basic_auth(w) = input.user \o <<Colon>> \o input.pass
  BY BasicAuth
<1> HIDE DEF w
<1>3. /\ rest \in Seq(Nat) /\ Len(rest) = L + 2
      /\ \A i \in 1 .. L : rest[i] = w[i]
      /\ rest[L + 1] = At /\ rest[L + 2] = 104
      /\ SubSeq(rest, 1, L) = w
      /\ SubSeq(rest, L + 2, L + 2) = <<104>>
  <2>1. At \in Nat
    BY DEF At
  <2> QED
    BY <1>1, <2>1, Followed
<1>4. \A i \in 1 .. L + 2 : rest[i] \notin {Slash, Query, Hash}
  <2>1. At \notin {Slash, Query, Hash} /\ 104 \notin {Slash, Query, Hash}
    BY DEF At, Slash, Query, Hash
  <2> HIDE DEF rest
  <2> SUFFICES ASSUME NEW i \in 1 .. L + 2 PROVE rest[i] \notin {Slash, Query, Hash}
    OBVIOUS
  <2>2. i \in 1 .. L \/ i = L + 1 \/ i = L + 2
    BY <1>1
  <2> QED
    BY <1>1, <1>3, <2>1, <2>2
<1> HIDE DEF rest
<1>5. Halves(rest).authority = rest
  <2>1. PICK A \in 0 .. Len(rest) :
              /\ Halves(rest).authority = SubSeq(rest, 1, A)
              /\ A < Len(rest) => AuthorityEnds(rest[A + 1])
    BY <1>3, HalvesAre
  <2>2. ~(A < Len(rest))
    <3> SUFFICES ASSUME A < Len(rest) PROVE FALSE
      OBVIOUS
    <3>1. A + 1 \in 1 .. L + 2
      BY <1>1, <1>3
    <3> QED
      BY <1>4, <2>1, <3>1 DEF AuthorityEnds
  <2>3. A = Len(rest)
    BY <1>1, <1>3, <2>2
  <2>4. SubSeq(rest, 1, Len(rest)) = rest
    BY <1>3
  <2> QED
    BY <2>1, <2>3, <2>4
<1> DEFINE at == SelectLastInSeq(rest, LAMBDA b : b = At)
<1>6. at = L + 1
  <2>1. at \in 0 .. L + 2 /\ (\A i \in at + 1 .. L + 2 : rest[i] # At) /\ (at # 0 => rest[at] = At)
    BY <1>3, AtIs
  <2> HIDE DEF at
  <2>2. at >= L + 1
    <3> SUFFICES ASSUME at <= L PROVE FALSE
      BY <1>1, <2>1
    <3>1. L + 1 \in at + 1 .. L + 2
      BY <1>1, <2>1
    <3> QED
      BY <1>3, <2>1, <3>1
  <2>3. at # L + 2
    BY <1>1, <1>3, <2>1 DEF At
  <2> QED
    BY <1>1, <2>1, <2>2, <2>3
<1>7. Suffix(rest, at + 1) = <<104>> /\ Prefix(rest, at - 1) = w /\ at # 0
  <2>1. at + 1 = L + 2 /\ at - 1 = L /\ at # 0
    BY <1>1, <1>6
  <2> HIDE DEF at
  <2> QED
    BY <1>3, <2>1 DEF Suffix, Prefix
<1> HIDE DEF at
<1>8. url.scheme = "https" /\ url.rest = rest
  OBVIOUS
<1> HIDE DEF url
<1>9. split_url(url).ok
  <2>1. <<104>> # <<>>
    OBVIOUS
  <2> DEFINE p == [scheme |-> url.scheme, authority |-> <<104>>, path |-> path_with_query(Halves(rest).tail),
                   authorization |-> basic_auth(w)]
  <2>2. split_url(url) = Ok(p)
    BY <1>5, <1>7, <1>8, <2>1 DEF split_url, at
  <2> QED
    BY <2>2, Outcomes
<1>10. split_url(url).value.authorization = basic_auth(w) /\ split_url(url).value.authority = <<104>>
  BY <1>5, <1>7, <1>8, <1>9, SplitInto DEF at
<1> QED
  BY <1>2, <1>10 DEF CredentialsArrive, url, rest, w
-----------------------------------------------------------------------------
(* The exchange with the host. *)

\* What is read from n chunks of a byte each has n bytes.
LEMMA AllRead ==
    ASSUME NEW host, NEW n \in Nat, host.chunks = [i \in 1 .. n |-> <<i>>]
    PROVE  Len(ReadAll(host)) = n
<1> DEFINE chunks == host.chunks
<1>0. chunks \in Seq(Seq(Nat)) /\ Len(chunks) = n /\ \A i \in 1 .. n : chunks[i] = <<i>>
  <2>1. chunks = [i \in 1 .. n |-> <<i>>]
    OBVIOUS
  <2> HIDE DEF chunks
  <2>2. \A i \in 1 .. n : <<i>> \in Seq(Nat)
    OBVIOUS
  <2>3. chunks \in [1 .. n -> Seq(Nat)]
    BY <2>1, <2>2
  <2>4. \A i \in 1 .. n : chunks[i] = <<i>>
    BY <2>1
  <2>5. chunks \in Seq(Seq(Nat)) /\ Len(chunks) = n
    BY <2>3
  <2> QED
    BY <2>4, <2>5
<1> HIDE DEF chunks
<1> DEFINE Def(f) == [k \in 0 .. n |-> IF k = 0 THEN <<>> ELSE f[k - 1] \o chunks[k]]
<1> DEFINE buf == CHOOSE f : f = Def(f)
<1>1. ReadAll(host) = buf[n]
  <2>1. ReadAll(host) = (CHOOSE f : f = [k \in 0 .. Len(chunks) |-> IF k = 0 THEN <<>> ELSE f[k - 1] \o chunks[k]])[Len(chunks)]
    BY DEF ReadAll, chunks
  <2> QED
    BY <1>0, <2>1
<1> DEFINE g == [k \in 0 .. n |-> [j \in 1 .. k |-> j]]
<1>2. g = Def(g)
  <2>1. ASSUME NEW k \in 0 .. n PROVE g[k] = IF k = 0 THEN <<>> ELSE g[k - 1] \o chunks[k]
    <3>1. CASE k = 0
      BY <3>1
    <3>2. CASE k # 0
      <4>1. k - 1 \in 0 .. n /\ chunks[k] = <<k>> /\ k \in 1 .. n
        BY <1>0, <3>2
      <4>2. g[k - 1] = [j \in 1 .. k - 1 |-> j] /\ g[k] = [j \in 1 .. k |-> j]
        BY <4>1
      <4>3. [j \in 1 .. k |-> j] = [j \in 1 .. k - 1 |-> j] \o <<k>>
        BY <4>1
      <4> HIDE DEF g
      <4> QED
        BY <3>2, <4>1, <4>2, <4>3
    <3> QED
      BY <3>1, <3>2
  <2> HIDE DEF g
  <2>2. g = [k \in 0 .. n |-> g[k]]
    BY DEF g
  <2> QED
    BY <2>1, <2>2
<1>3. buf = Def(buf)
  <2> HIDE DEF Def, g
  <2> QED
    BY <1>2
<1> HIDE DEF buf
<1>4. buf[0] = <<>> /\ \A k \in 1 .. n : buf[k] = buf[k - 1] \o <<k>>
  <2>1. \A k \in 0 .. n : buf[k] = IF k = 0 THEN <<>> ELSE buf[k - 1] \o chunks[k]
    BY <1>3
  <2>2. 0 \in 0 .. n /\ \A k \in 1 .. n : k \in 0 .. n /\ k # 0
    OBVIOUS
  <2>3. buf[0] = <<>>
    BY <2>1, <2>2
  <2>4. ASSUME NEW k \in 1 .. n PROVE buf[k] = buf[k - 1] \o <<k>>
    <3>1. buf[k] = buf[k - 1] \o chunks[k]
      BY <2>1, <2>2
    <3> QED
      BY <1>0, <3>1
  <2> QED
    BY <2>3, <2>4
<1> DEFINE Bad == {k \in 0 .. n : ~(buf[k] \in Seq(Nat) /\ Len(buf[k]) = k)}
<1>5. Bad = {}
  <2> SUFFICES ASSUME Bad # {} PROVE FALSE
    OBVIOUS
  <2>1. Bad \subseteq Nat
    OBVIOUS
  <2>2. PICK k \in Bad : \A l \in Bad : k <= l
    BY <2>1, LeastNat
  <2>3. k \in 0 .. n /\ ~(buf[k] \in Seq(Nat) /\ Len(buf[k]) = k)
    OBVIOUS
  <2>4. k # 0
    <3>1. <<>> \in Seq(Nat) /\ Len(<<>>) = 0
      OBVIOUS
    <3> HIDE DEF Bad
    <3> QED
      BY <1>4, <2>3, <3>1
  <2>5. k - 1 \in 0 .. n /\ k \in 1 .. n /\ k - 1 \notin Bad
    <3>1. k - 1 \in 0 .. n /\ k \in 1 .. n /\ ~(k <= k - 1)
      BY <2>3, <2>4
    <3> HIDE DEF Bad
    <3> QED
      BY <2>2, <3>1
  <2>6. buf[k - 1] \in Seq(Nat) /\ Len(buf[k - 1]) = k - 1
    BY <2>5
  <2> DEFINE b == buf[k - 1]
  <2>7. buf[k] = b \o <<k>> /\ b \in Seq(Nat) /\ Len(b) = k - 1
    BY <1>4, <2>5, <2>6
  <2> HIDE DEF b, Bad
  <2>8. b \o <<k>> \in Seq(Nat) /\ Len(b \o <<k>>) = k
    BY <2>5, <2>7
  <2> QED
    BY <2>3, <2>7, <2>8
<1> QED
  BY <1>1, <1>5

\* A failure and whether it may be asked again.
LEMMA NetworkIs == ASSUME NEW r PROVE ~network(r).ok /\ network(r).error.retryable = r
<1>1. [kind |-> "Network", retryable |-> r].retryable = r
  OBVIOUS
<1> QED
  BY <1>1, Outcomes, Zenon DEF network

\* Where an exchange can stop, and that it did not.
Faults == Refusals \cup CodedCalls \cup Consumed \cup Broken \cup {"none"}

\* What an exchange comes to.
ComesTo(url, host, answer) ==
    /\ ~split_url(url).ok => answer = network(FALSE)
    /\ split_url(url).ok /\ host.fault \in CodedCalls => answer = network(is_retryable_error_code(host.code))
    /\ answer.ok => host.fault = "none" /\ answer.value = [status |-> host.status, body |-> ReadAll(host)]
    /\ split_url(url).ok /\ host.fault = "none" => answer.ok

LEMMA ExchangeIs ==
    ASSUME NEW url, NEW host, host.fault \in Faults
    PROVE  ComesTo(url, host, exchange(url, host))
<1> DEFINE ok == split_url(url).ok
<1> DEFINE answer == [status |-> host.status, body |-> ReadAll(host)]
<1> DEFINE fault == host.fault
<1>1. exchange(url, host) = CASE ~ok -> network(FALSE)
      [] ok /\ fault \in Refusals \cup Consumed -> network(FALSE)
      [] ok /\ fault \in CodedCalls -> network(is_retryable_error_code(host.code))
      [] ok /\ fault \in Broken -> network(TRUE)
      [] OTHER -> Ok(answer)
  BY DEF exchange
<1>2. /\ ~network(FALSE).ok /\ ~network(TRUE).ok /\ ~network(is_retryable_error_code(host.code)).ok
      /\ Ok(answer).ok /\ Ok(answer).value = answer
  BY NetworkIs, Outcomes, Zenon
<1>3. fault \in CodedCalls => fault \notin Refusals \cup Consumed \cup Broken
  BY DEF CodedCalls, Refusals, Consumed, Broken
<1>4. fault = "none" => fault \notin Refusals \cup Consumed \cup CodedCalls \cup Broken
  BY DEF CodedCalls, Refusals, Consumed, Broken
<1> DEFINE no == network(FALSE)
<1> DEFINE again == network(TRUE)
<1> DEFINE code == network(is_retryable_error_code(host.code))
<1> DEFINE yes == Ok(answer)
<1> HIDE DEF ok, answer, no, again, code, yes
<1>5. exchange(url, host) = CASE ~ok -> no
      [] ok /\ fault \in Refusals \cup Consumed -> no
      [] ok /\ fault \in CodedCalls -> code
      [] ok /\ fault \in Broken -> again
      [] OTHER -> yes
  BY <1>1, Zenon DEF no, again, code, yes
<1>6. ~no.ok /\ ~again.ok /\ ~code.ok /\ yes.ok /\ yes.value = answer
  BY <1>2, Zenon DEF no, again, code, yes
<1> HIDE DEF fault
<1> DEFINE early == fault \in Refusals \cup Consumed
<1> DEFINE coded == fault \in CodedCalls
<1> DEFINE broken == fault \in Broken
<1>7. fault \in Refusals \cup CodedCalls \cup Consumed \cup Broken \cup {"none"}
  BY DEF fault, Faults
<1>8. ~ok => exchange(url, host) = no
  BY <1>5
<1>9. ok /\ fault \in CodedCalls => exchange(url, host) = code
  <2> SUFFICES ASSUME ok, fault \in CodedCalls PROVE exchange(url, host) = code
    OBVIOUS
  <2>1. fault \notin Refusals \cup Consumed \cup Broken
    BY <1>3 DEF fault
  <2>2. ~early /\ coded /\ ~broken
    BY <2>1
  <2>3. exchange(url, host) = CASE ~ok -> no
      [] ok /\ early -> no
      [] ok /\ coded -> code
      [] ok /\ broken -> again
      [] OTHER -> yes
    BY <1>5
  <2> HIDE DEF early, coded, broken
  <2> QED
    BY <2>2, <2>3
<1>10. exchange(url, host).ok => exchange(url, host) = yes /\ fault = "none"
  BY <1>5, <1>6, <1>7
<1>11. ok /\ fault = "none" => exchange(url, host).ok
  BY <1>4, <1>5, <1>6
<1> QED
  BY <1>6, <1>8, <1>9, <1>10, <1>11, Zenon DEF ComesTo, ok, answer, fault, no, code, yes

\* The exchanges the transport is asked for.
ExchangeOf(fault, code, status, scheme, n, whole) ==
    [of |-> "exchange", url |-> [scheme |-> scheme, rest |-> <<104>>], whole |-> whole,
     host |-> [fault |-> fault, code |-> code, status |-> status, chunks |-> [i \in 1 .. n |-> <<i>>]]]
IsExchange(x) ==
    \E fault \in Faults, n \in Nat, whole \in Nat : \E code, status, scheme :
        /\ IF fault = "read" THEN n < whole ELSE n = whole
        /\ x = ExchangeOf(fault, code, status, scheme, n, whole)

\* Such a record is one.
LEMMA ExchangeAsked ==
    ASSUME NEW f \in Faults, NEW c, NEW s, NEW u, NEW m \in Nat, NEW w \in Nat,
           (f = "read" => m < w) /\ (f # "read" => m = w), NEW x, x = ExchangeOf(f, c, s, u, m, w)
    PROVE  IsExchange(x)
BY DEF IsExchange

\* What is in one.
LEMMA ExchangeHas ==
    ASSUME NEW fault, NEW code, NEW status, NEW scheme, NEW n, NEW whole,
           NEW x, x = ExchangeOf(fault, code, status, scheme, n, whole)
    PROVE  /\ x.of = "exchange" /\ x.whole = whole
           /\ x.host.fault = fault /\ x.host.chunks = [i \in 1 .. n |-> <<i>>]
           /\ [x.host EXCEPT !.fault = "none"].fault = "none"
BY DEF ExchangeOf

\* An exchange is whole, and refused for good where it is refused.
LEMMA ExchangesWhole ==
    ASSUME IsExchange(input)
    PROVE  AnswersAreWhole /\ RefusalsAreFinal
<1>1. PICK fault \in Faults, n \in Nat, whole \in Nat : \E code, status, scheme :
          /\ IF fault = "read" THEN n < whole ELSE n = whole
          /\ input = ExchangeOf(fault, code, status, scheme, n, whole)
  BY Zenon DEF IsExchange
<1> DEFINE url == input.url
<1> DEFINE host == input.host
<1> DEFINE calm == [host EXCEPT !.fault = "none"]
<1>2. /\ host.fault = fault /\ host.chunks = [i \in 1 .. n |-> <<i>>]
      /\ calm.fault = "none" /\ input.whole = whole
  <2>1. PICK code, status, scheme : input = ExchangeOf(fault, code, status, scheme, n, whole)
    BY <1>1
  <2>2. /\ input.host.fault = fault /\ input.host.chunks = [i \in 1 .. n |-> <<i>>]
        /\ [input.host EXCEPT !.fault = "none"].fault = "none" /\ input.whole = whole
    BY <2>1, ExchangeHas
  <2> QED
    BY <2>2
<1>3. fault = "none" => n = whole
  BY <1>1
<1>4. Len(ReadAll(host)) = n
  BY <1>2, AllRead
<1> HIDE DEF url, host, calm
<1> DEFINE answer == exchange(url, host)
<1>5. /\ ~split_url(url).ok => answer = network(FALSE)
      /\ split_url(url).ok /\ host.fault \in CodedCalls => answer = network(is_retryable_error_code(host.code))
      /\ answer.ok => host.fault = "none" /\ answer.value = [status |-> host.status, body |-> ReadAll(host)]
  <2>1. host.fault \in Faults
    BY <1>2
  <2>2. ComesTo(url, host, answer)
    BY <2>1, ExchangeIs, Zenon
  <2> HIDE DEF answer
  <2> QED
    BY <2>2, Zenon DEF ComesTo
<1>6. split_url(url).ok => exchange(url, calm).ok
  <2>1. calm.fault \in Faults
    BY <1>2 DEF Faults
  <2>2. ComesTo(url, calm, exchange(url, calm))
    BY <2>1, ExchangeIs, Zenon
  <2> QED
    BY <1>2, <2>2, Zenon DEF ComesTo
<1> DEFINE no == network(FALSE)
<1>7. ~no.ok /\ ~no.error.retryable
  BY NetworkIs, Zenon
<1>8. /\ ~network(is_retryable_error_code(host.code)).ok
      /\ network(is_retryable_error_code(host.code)).error.retryable = is_retryable_error_code(host.code)
  BY NetworkIs
<1>9. AnswersAreWhole
  <2>1. ASSUME answer.ok PROVE Len(answer.value.body) = whole /\ answer.value.status = host.status
    <3>1. answer.value.body = ReadAll(host) /\ answer.value.status = host.status
      BY <1>5, <2>1
    <3> QED
      BY <1>2, <1>3, <1>4, <1>5, <2>1, <3>1
  <2> QED
    BY <1>2, <2>1 DEF AnswersAreWhole, url, host
<1> HIDE DEF answer, no
<1>10. ~exchange(url, calm).ok => ~answer.ok /\ ~answer.error.retryable
  BY <1>5, <1>6, <1>7 DEF no
<1>11. host.fault \in CodedCalls /\ host.code \in DeniedCodes => ~answer.ok /\ ~answer.error.retryable
  <2> SUFFICES ASSUME host.fault \in CodedCalls, host.code \in DeniedCodes PROVE ~answer.ok /\ ~answer.error.retryable
    OBVIOUS
  <2>1. ~is_retryable_error_code(host.code)
    BY DEF is_retryable_error_code
  <2>2. CASE split_url(url).ok
    BY <1>5, <1>8, <2>1, <2>2
  <2>3. CASE ~split_url(url).ok
    BY <1>5, <1>7, <2>3 DEF no
  <2> QED
    BY <2>2, <2>3
<1>12. host.fault = "response" /\ host.code \in ReachCodes /\ split_url(url).ok => answer.error.retryable
  <2> SUFFICES ASSUME host.fault = "response", host.code \in ReachCodes, split_url(url).ok PROVE answer.error.retryable
    OBVIOUS
  <2>1. host.fault \in CodedCalls
    BY DEF CodedCalls
  <2>2. host.code \notin DeniedCodes
    BY DEF ReachCodes, DeniedCodes
  <2>3. is_retryable_error_code(host.code)
    BY <2>2 DEF is_retryable_error_code
  <2> QED
    BY <1>5, <1>8, <2>1, <2>3
<1> QED
  BY <1>9, <1>10, <1>11, <1>12, Zenon DEF RefusalsAreFinal, url, host, calm, answer

\* The URLs and the credentials the transport is given.
Addresses == [of : {"url"}, scheme : {"http", "https", "ftp", "missing"}, rest : Seq(Nat)]
Logins == [of : {"login"}, user : Seq(0 .. 255), pass : Seq(0 .. 255)]

\* An exchange is whole.
LEMMA WholeExchanges ==
    ASSUME Given("url") => input \in Addresses, Given("login") => input \in Logins,
           Given("exchange") => IsExchange(input)
    PROVE  ExchangesAreWhole
<1>1. UrlOnTheWire
  <2>1. CASE ~Given("url")
    BY <2>1, Zenon DEF UrlOnTheWire
  <2>2. CASE input \in Addresses
    <3>1. input.rest \in Seq(Nat)
      BY <2>2 DEF Addresses
    <3> QED
      BY <3>1, UrlSent
  <2> QED
    BY <2>1, <2>2
<1>2. CredentialsArrive
  <2>1. CASE ~Given("login")
    BY <2>1, Zenon DEF CredentialsArrive
  <2>2. CASE input \in Logins
    <3>1. input.user \in Seq(0 .. 255) /\ input.pass \in Seq(0 .. 255)
      BY <2>2 DEF Logins
    <3> QED
      BY <3>1, LoginsArrive
  <2> QED
    BY <2>1, <2>2
<1>3. AnswersAreWhole /\ RefusalsAreFinal
  <2>1. CASE ~Given("exchange")
    BY <2>1, Zenon DEF AnswersAreWhole, RefusalsAreFinal
  <2> QED
    BY <2>1, ExchangesWhole
<1> QED
  BY <1>1, <1>2, <1>3, Zenon DEF ExchangesAreWhole
-----------------------------------------------------------------------------
(* Views: what a node's answer says. *)

Balances == [of : {"account"}, view : [amount : Nat, locked : Nat, storage_usage : Nat]]

LEMMA StorageKept == ASSUME input \in Balances PROVE SpendableLeavesStorage
<1> DEFINE view == input.view
<1> DEFINE amount == view.amount
<1> DEFINE locked == view.locked
<1> DEFINE usage == view.storage_usage
<1> DEFINE shown == AccountBalance(view)
<1> DEFINE cost == storage_cost(view)
<1> DEFINE free == available(view)
<1>1. amount \in Nat /\ locked \in Nat /\ usage \in Nat
  BY DEF Balances
<1>2. shown.total = amount /\ shown.available = free /\ shown.locked = locked /\ shown.storage_cost = cost
  BY DEF AccountBalance
<1>3. cost = IF locked >= usage THEN 0 ELSE usage - locked
  BY DEF storage_cost
<1>4. free = IF locked >= usage THEN amount ELSE IF amount >= cost THEN amount - cost ELSE 0
  BY DEF available
<1> HIDE DEF amount, locked, usage, cost, free
<1>5. /\ free <= amount
      /\ amount + locked >= usage => amount - free + locked >= usage
      /\ free > 0 => free + cost = amount
  BY <1>1, <1>3, <1>4
<1> HIDE DEF shown
<1>6. /\ shown.available <= shown.total
      /\ amount + locked >= usage => shown.total - shown.available + shown.locked >= usage
      /\ shown.available > 0 => shown.available + shown.storage_cost = shown.total
  BY <1>2, <1>5
<1> QED
  BY <1>6, Zenon DEF SpendableLeavesStorage, shown, amount, locked, usage

\* Outcomes of any status and error.
OutcomesGiven == [of : {"outcome"}, level : {WaitLevels[i] : i \in DOMAIN WaitLevels}, present : BOOLEAN,
                  final : FinalStatuses, receipt : {<<>>, <<"ActionError", "new">>, <<"InvalidTxError", "leaf">>}]

\* Views of an action, which may hold views that hold none.
ViewKinds == DeployViews \cup EncodedViews \cup DelegateViews \cup PlainViews
ViewTexts == [decodes : BOOLEAN, len : Nat, is : {"a", "b"}]
FlatViews == [kind : ViewKinds, text : ViewTexts, inner : {<<>>}]
ViewsGiven == {i \in [of : {"view"}, view : [kind : ViewKinds, text : ViewTexts, inner : Seq(FlatViews)]] :
                  i.view.kind \notin DelegateViews => i.view.inner = <<>>}

\* A deployment converts with the hash it holds only.
LEMMA HashDecodes ==
    ASSUME NEW text
    PROVE  /\ decode_code_hash(text).ok <=> text.decodes /\ text.len = 32
           /\ decode_code_hash(text).ok => decode_code_hash(text).value = text.is
<1>1. CASE text.decodes /\ text.len = 32
  <2>1. decode_code_hash(text) = Ok(text.is)
    BY <1>1 DEF decode_code_hash
  <2>2. decode_code_hash(text).ok /\ decode_code_hash(text).value = text.is
    BY <2>1, Outcomes, Zenon
  <2> QED
    BY <1>1, <2>2, Zenon
<1>2. CASE ~(text.decodes /\ text.len = 32)
  <2>1. decode_code_hash(text) = Fail("InvalidBase64") \/ decode_code_hash(text) = Fail("InvalidCodeHash")
    BY <1>2 DEF decode_code_hash
  <2>2. ~decode_code_hash(text).ok
    BY <2>1, Outcomes, Zenon
  <2> QED
    BY <1>2, <2>2, Zenon
<1> QED
  BY <1>1, <1>2

LEMMA WireParts ==
    ASSUME NEW kind, NEW arg, NEW inner
    PROVE  Wire(kind, arg, inner).inner = inner
BY DEF Wire

\* What a view becomes that holds none.
LEMMA FlatConverts ==
    ASSUME NEW view, view.kind \in ViewKinds \ DelegateViews, NEW actions
    PROVE  /\ Converted(view, actions).ok => Converted(view, actions) = Ok(Wire(view.kind, view.text.is, <<>>))
           /\ view.kind \in DeployViews => (Converted(view, actions).ok <=> view.text.decodes /\ view.text.len = 32)
           /\ view.kind \notin DeployViews /\ view.text.decodes => Converted(view, actions).ok
<1> DEFINE back == Converted(view, actions)
<1> DEFINE wire == Wire(view.kind, view.text.is, <<>>)
<1>1. CASE view.kind \in DeployViews
  <2> DEFINE hash == decode_code_hash(view.text)
  <2>1. back = IF hash.ok THEN Ok(Wire(view.kind, hash.value, <<>>)) ELSE hash
    <3>1. view.kind \notin EncodedViews /\ view.kind \notin DelegateViews
      BY <1>1 DEF DeployViews, EncodedViews, DelegateViews
    <3> HIDE DEF hash
    <3> QED
      BY <1>1, <3>1 DEF Converted, hash
  <2>2. (hash.ok <=> view.text.decodes /\ view.text.len = 32) /\ (hash.ok => hash.value = view.text.is)
    BY HashDecodes
  <2> HIDE DEF back, hash
  <2>3. (back.ok <=> hash.ok) /\ (back.ok => back = Ok(wire))
    <3>1. CASE hash.ok
      <4>1. back = Ok(wire)
        BY <2>1, <2>2, <3>1
      <4> HIDE DEF wire
      <4> QED
        BY <3>1, <4>1, Outcomes, Zenon
    <3>2. CASE ~hash.ok
      BY <2>1, <3>2
    <3> QED
      BY <3>1, <3>2
  <2> QED
    BY <1>1, <2>2, <2>3 DEF back
<1>2. CASE view.kind \notin DeployViews
  <2>1. back = Ok(wire) \/ (~view.text.decodes /\ back = Fail("InvalidBase64"))
    <3>1. CASE view.kind \in EncodedViews
      BY <1>2, <3>1 DEF Converted
    <3>2. CASE view.kind \notin EncodedViews
      BY <1>2, <3>2 DEF Converted
    <3> QED
      BY <3>1, <3>2
  <2> HIDE DEF back, wire
  <2>2. (back.ok => back = Ok(wire)) /\ (view.text.decodes => back.ok)
    BY <2>1, Outcomes, Zenon
  <2> QED
    BY <1>2, <2>2 DEF back, wire
<1> QED
  BY <1>1, <1>2

\* The actions of a delegate action: all or none, and none is a delegate
\* action.
LEMMA NoNestedDelegate ==
    ASSUME NEW n \in Nat, NEW actions, DOMAIN actions = 1 .. n, non_delegate_actions(actions).ok
    PROVE  /\ DOMAIN non_delegate_actions(actions).value = 1 .. n
           /\ \A i \in 1 .. n : actions[i].ok /\ ~is_delegate(actions[i].value)
                                /\ non_delegate_actions(actions).value[i] = actions[i].value
<1> DEFINE converted == [i \in DOMAIN actions |->
                           IF actions[i].ok /\ is_delegate(actions[i].value) THEN Fail("NestedDelegate") ELSE actions[i]]
<1> DEFINE bad == {i \in DOMAIN converted : ~converted[i].ok}
<1> DEFINE values == [i \in DOMAIN converted |-> converted[i].value]
<1> DEFINE r == non_delegate_actions(actions)
<1>1. r = IF bad = {} THEN Ok(values) ELSE converted[CHOOSE i \in bad : \A k \in bad : i <= k]
  BY DEF non_delegate_actions
<1>2. DOMAIN converted = 1 .. n /\ DOMAIN values = 1 .. n
  OBVIOUS
<1>3. \A i \in 1 .. n : /\ actions[i].ok /\ is_delegate(actions[i].value) => converted[i] = Fail("NestedDelegate")
                        /\ ~(actions[i].ok /\ is_delegate(actions[i].value)) => converted[i] = actions[i]
                        /\ values[i] = converted[i].value
  BY <1>2
<1>4. \A i \in 1 .. n : i \in bad <=> ~converted[i].ok
  BY <1>2
<1>5. bad \subseteq Nat
  BY <1>2
<1>6. r.ok
  OBVIOUS
<1> HIDE DEF converted, values, r
<1>7. bad = {}
  <2> SUFFICES ASSUME bad # {} PROVE FALSE
    OBVIOUS
  <2> HIDE DEF bad
  <2> DEFINE first == CHOOSE i \in bad : \A k \in bad : i <= k
  <2>1. \E i \in bad : \A k \in bad : i <= k
    BY <1>5, LeastNat
  <2>2. first \in bad
    BY <2>1
  <2> HIDE DEF first
  <2>3. ~converted[first].ok
    BY <2>2 DEF bad
  <2>4. r = converted[first]
    BY <1>1 DEF first
  <2> QED
    BY <1>6, <2>3, <2>4
<1>8. r.value = values
  <2> HIDE DEF bad
  <2> QED
    BY <1>1, <1>7, Outcomes, Zenon
<1>9. ASSUME NEW i \in 1 .. n PROVE actions[i].ok /\ ~is_delegate(actions[i].value) /\ values[i] = actions[i].value
  <2>1. converted[i].ok
    BY <1>4, <1>7
  <2>2. ~(actions[i].ok /\ is_delegate(actions[i].value))
    BY <1>3, <2>1, Outcomes, Zenon
  <2> QED
    BY <1>3, <2>1, <2>2, Zenon
<1> QED
  BY <1>2, <1>8, <1>9 DEF r

LEMMA ViewsConverted == ASSUME input \in ViewsGiven PROVE ViewsConvertBack
<1> DEFINE view == input.view
<1> DEFINE kind == view.kind
<1> DEFINE node == NodeView(view)
<1> DEFINE back == TryFrom(node)
<1> DEFINE actions == [i \in DOMAIN node.inner |-> Converted(node.inner[i], <<>>)]
<1> DEFINE arg == IF kind \in DeployViews THEN HashOf(view.text.is) ELSE view.text.is
<1> DEFINE Good ==
      /\ view.inner = <<>> /\ view.text.decodes => back = Ok(Wire(kind, arg, <<>>))
      /\ back.ok => \A i \in DOMAIN back.value.inner :
           /\ ~is_delegate(back.value.inner[i])
           /\ view.inner[i].kind \in DeployViews => view.inner[i].text.decodes /\ view.inner[i].text.len = 32
<1>1. /\ view \in [kind : ViewKinds, text : ViewTexts, inner : Seq(FlatViews)]
      /\ kind \notin DelegateViews => view.inner = <<>>
  BY DEF ViewsGiven
<1>2. back = Converted(node, actions)
  BY DEF TryFrom
<1> HIDE DEF back
<1>3. CASE kind \in DelegateViews
  <2>1. node = view
    BY <1>3 DEF NodeView, DelegateViews, DeployViews
  <2>2. kind \notin DeployViews /\ kind \notin EncodedViews
    BY <1>3 DEF DelegateViews, DeployViews, EncodedViews
  <2> DEFINE inner == non_delegate_actions(actions)
  <2>3. back = IF inner.ok THEN Ok(Wire(kind, view.text.is, inner.value)) ELSE inner
    BY <1>2, <1>3, <2>1, <2>2 DEF Converted
  <2> DEFINE n == Len(view.inner)
  <2>4. n \in Nat /\ DOMAIN actions = 1 .. n /\ \A i \in 1 .. n : actions[i] = Converted(view.inner[i], <<>>)
    BY <1>1, <2>1, LenProperties
  <2>5. ASSUME NEW i \in 1 .. n PROVE view.inner[i] \in FlatViews
    BY <1>1, <2>5, ElementOfSeq
  <2> HIDE DEF actions, inner
  <2>6. ASSUME back.ok
        PROVE  \A i \in DOMAIN back.value.inner :
                 /\ ~is_delegate(back.value.inner[i])
                 /\ view.inner[i].kind \in DeployViews => view.inner[i].text.decodes /\ view.inner[i].text.len = 32
    <3>1. inner.ok /\ back = Ok(Wire(kind, view.text.is, inner.value))
      BY <2>3, <2>6
    <3>2. back.value.inner = inner.value
      <4>1. back.value = Wire(kind, view.text.is, inner.value)
        BY <3>1, Outcomes, Zenon
      <4> QED
        BY <4>1, WireParts
    <3>3. /\ DOMAIN inner.value = 1 .. n
          /\ \A i \in 1 .. n : actions[i].ok /\ ~is_delegate(actions[i].value) /\ inner.value[i] = actions[i].value
      BY <2>4, <3>1, NoNestedDelegate DEF inner
    <3>4. ASSUME NEW i \in 1 .. n, view.inner[i].kind \in DeployViews
          PROVE  view.inner[i].text.decodes /\ view.inner[i].text.len = 32
      <4> DEFINE v == view.inner[i]
      <4>1. v.kind \in ViewKinds \ DelegateViews
        BY <3>4 DEF ViewKinds, DeployViews, DelegateViews
      <4>2. Converted(v, <<>>).ok
        BY <2>4, <3>3
      <4> HIDE DEF v
      <4>3. v.kind \in DeployViews
        BY <3>4 DEF v
      <4>4. v.text.decodes /\ v.text.len = 32
        BY <4>1, <4>2, <4>3, FlatConverts
      <4> QED
        BY <4>4 DEF v
    <3> QED
      BY <3>2, <3>3, <3>4
  <2>7. ASSUME view.inner = <<>> PROVE back = Ok(Wire(kind, arg, <<>>))
    <3>1. n = 0
      BY <2>7
    <3>2. inner = Ok(<<>>)
      <4>1. actions = <<>>
        BY <2>1, <2>7 DEF actions
      <4>2. non_delegate_actions(<<>>) = Ok(<<>>)
        <5> DEFINE converted == [i \in DOMAIN <<>> |->
               IF <<>>[i].ok /\ is_delegate(<<>>[i].value) THEN Fail("NestedDelegate") ELSE <<>>[i]]
        <5>1. DOMAIN <<>> = {}
          BY EmptySeq
        <5>2. DOMAIN converted = {}
          BY <5>1
        <5>3. [i \in DOMAIN converted |-> converted[i].value] = <<>>
          BY <5>2
        <5>4. {i \in DOMAIN converted : ~converted[i].ok} = {}
          BY <5>2
        <5> QED
          BY <5>3, <5>4, Zenon DEF non_delegate_actions
      <4> QED
        BY <4>1, <4>2 DEF inner
    <3>3. inner.ok /\ inner.value = <<>>
      BY <3>2, Outcomes, Zenon
    <3>4. arg = view.text.is
      BY <2>2
    <3> QED
      BY <2>3, <3>3, <3>4
  <2>8. Good
    BY <2>6, <2>7
  <2> QED
    BY <2>8, Zenon DEF ViewsConvertBack, back, node
<1>4. CASE kind \notin DelegateViews
  <2>1. node.kind = kind /\ (kind \in DeployViews => node.text = Base64(TRUE, 32, HashOf(view.text.is)))
        /\ (kind \notin DeployViews => node = view)
    BY <1>1 DEF NodeView
  <2>2. kind \in ViewKinds \ DelegateViews
    BY <1>1, <1>4
  <2> HIDE DEF node, actions
  <2>3. /\ back.ok => back = Ok(Wire(kind, node.text.is, <<>>))
        /\ kind \in DeployViews => (back.ok <=> node.text.decodes /\ node.text.len = 32)
        /\ kind \notin DeployViews /\ node.text.decodes => back.ok
    <3>1. node.kind \in ViewKinds \ DelegateViews
      BY <2>1, <2>2
    <3> QED
      BY <1>2, <2>1, <3>1, FlatConverts
  <2>4. kind \in DeployViews => node.text.decodes /\ node.text.len = 32 /\ node.text.is = HashOf(view.text.is)
    BY <2>1 DEF Base64
  <2>5. node.text.is = arg
    BY <2>1, <2>4
  <2>6. view.text.decodes => back.ok
    BY <2>1, <2>3, <2>4
  <2>7. back.ok => DOMAIN back.value.inner = {}
    <3>1. ASSUME back.ok PROVE back.value = Wire(kind, node.text.is, <<>>)
      BY <2>3, <3>1, Outcomes, Zenon
    <3>2. ASSUME back.ok PROVE back.value.inner = <<>>
      BY <3>1, <3>2, WireParts
    <3> QED
      BY <3>2, EmptySeq
  <2>8. view.text.decodes => back = Ok(Wire(kind, arg, <<>>))
    BY <2>3, <2>5, <2>6
  <2>9. Good
    BY <2>7, <2>8
  <2> QED
    BY <2>9, Zenon DEF ViewsConvertBack, back, node
<1> QED
  BY <1>3, <1>4

(* Errors of an execution. *)

Enums == DOMAIN ErrorTypes
Contexts == {"MissingTrieValueContext", "DepositCostFailureReason"}

\* The tags whose content has no fallback.
Opaque == {"MissingTrieValue", "NotEnoughBalanceForDeposit"}

LEMMA EnumsAre ==
    /\ Enums = {"TxExecutionError", "ActionErrorKind", "InvalidTxError", "InvalidAccessKeyError", "FunctionCallError",
                "CompilationError", "PrepareError", "MethodResolveError", "WasmTrap", "HostError",
                "ActionsValidationError", "ReceiptValidationError", "StorageError", "MissingTrieValueContext",
                "DepositCostFailureReason"}
    /\ Fallback = Enums \ {"TxExecutionError", "MissingTrieValueContext", "DepositCostFailureReason"}
    /\ Contexts \subseteq Enums /\ "none" \notin Enums
<1>1. Enums = {"TxExecutionError", "ActionErrorKind", "InvalidTxError", "InvalidAccessKeyError", "FunctionCallError",
               "CompilationError", "PrepareError", "MethodResolveError", "WasmTrap", "HostError",
               "ActionsValidationError", "ReceiptValidationError", "StorageError", "MissingTrieValueContext",
               "DepositCostFailureReason"}
  BY DEF Enums, ErrorTypes
<1> QED
  BY <1>1 DEF Fallback, Enums, Contexts

\* What the tags of an enum carry.
Tagged(type, tags) ==
    \A tag \in DOMAIN tags :
       /\ tag # "new"
       /\ tags[tag] = "none" \/ tags[tag] \in Fallback \/ (tags[tag] \in Contexts /\ tag \in Opaque)
       /\ type \in Contexts => tags[tag] = "none"
       /\ type = "TxExecutionError" => tags[tag] \in Fallback

LEMMA TagsAre == \A type \in Enums : Tagged(type, ErrorTypes[type])
<1>1. Tagged("TxExecutionError", ErrorTypes["TxExecutionError"])
  <2> DEFINE X == ErrorTypes["TxExecutionError"]
  <2>1. /\ DOMAIN X = {"ActionError", "InvalidTxError"}
        /\ X["ActionError"] = "ActionErrorKind" /\ X["InvalidTxError"] = "InvalidTxError"
    BY DEF ErrorTypes, TxExecutionError
  <2> HIDE DEF X
  <2>2. Tagged("TxExecutionError", X)
    BY <2>1, EnumsAre DEF Tagged, Contexts, Opaque
  <2> QED
    BY <2>2 DEF X
<1>2. Tagged("ActionErrorKind", ErrorTypes["ActionErrorKind"])
  <2> DEFINE X == ErrorTypes["ActionErrorKind"]
  <2>1. /\ DOMAIN X = {"leaf", "FunctionCallError", "NewReceiptValidationError", "DelegateActionAccessKeyError"}
        /\ X["leaf"] = "none" /\ X["FunctionCallError"] = "FunctionCallError"
        /\ X["NewReceiptValidationError"] = "ReceiptValidationError" /\ X["DelegateActionAccessKeyError"] = "InvalidAccessKeyError"
    BY DEF ErrorTypes, ActionErrorKind
  <2> HIDE DEF X
  <2>2. Tagged("ActionErrorKind", X)
    BY <2>1, EnumsAre DEF Tagged, Contexts, Opaque
  <2> QED
    BY <2>2 DEF X
<1>3. Tagged("InvalidTxError", ErrorTypes["InvalidTxError"])
  <2> DEFINE X == ErrorTypes["InvalidTxError"]
  <2>1. /\ DOMAIN X = {"leaf", "InvalidAccessKeyError", "ActionsValidation", "StorageError", "NotEnoughBalanceForDeposit"}
        /\ X["leaf"] = "none" /\ X["InvalidAccessKeyError"] = "InvalidAccessKeyError"
        /\ X["ActionsValidation"] = "ActionsValidationError" /\ X["StorageError"] = "StorageError"
        /\ X["NotEnoughBalanceForDeposit"] = "DepositCostFailureReason"
    BY DEF ErrorTypes, InvalidTxError
  <2> HIDE DEF X
  <2>2. Tagged("InvalidTxError", X)
    BY <2>1, EnumsAre DEF Tagged, Contexts, Opaque
  <2> QED
    BY <2>2 DEF X
<1>4. Tagged("InvalidAccessKeyError", ErrorTypes["InvalidAccessKeyError"])
  <2> DEFINE X == ErrorTypes["InvalidAccessKeyError"]
  <2>1. /\ DOMAIN X = {"leaf"}
        /\ X["leaf"] = "none"
    BY DEF ErrorTypes, InvalidAccessKeyError
  <2> HIDE DEF X
  <2>2. Tagged("InvalidAccessKeyError", X)
    BY <2>1, EnumsAre DEF Tagged, Contexts, Opaque
  <2> QED
    BY <2>2 DEF X
<1>5. Tagged("FunctionCallError", ErrorTypes["FunctionCallError"])
  <2> DEFINE X == ErrorTypes["FunctionCallError"]
  <2>1. /\ DOMAIN X = {"leaf", "CompilationError", "MethodResolveError", "WasmTrap", "HostError"}
        /\ X["leaf"] = "none" /\ X["CompilationError"] = "CompilationError"
        /\ X["MethodResolveError"] = "MethodResolveError" /\ X["WasmTrap"] = "WasmTrap"
        /\ X["HostError"] = "HostError"
    BY DEF ErrorTypes, FunctionCallError
  <2> HIDE DEF X
  <2>2. Tagged("FunctionCallError", X)
    BY <2>1, EnumsAre DEF Tagged, Contexts, Opaque
  <2> QED
    BY <2>2 DEF X
<1>6. Tagged("CompilationError", ErrorTypes["CompilationError"])
  <2> DEFINE X == ErrorTypes["CompilationError"]
  <2>1. /\ DOMAIN X = {"leaf", "PrepareError"}
        /\ X["leaf"] = "none" /\ X["PrepareError"] = "PrepareError"
    BY DEF ErrorTypes, CompilationError
  <2> HIDE DEF X
  <2>2. Tagged("CompilationError", X)
    BY <2>1, EnumsAre DEF Tagged, Contexts, Opaque
  <2> QED
    BY <2>2 DEF X
<1>7. Tagged("PrepareError", ErrorTypes["PrepareError"])
  <2> DEFINE X == ErrorTypes["PrepareError"]
  <2>1. /\ DOMAIN X = {"leaf"}
        /\ X["leaf"] = "none"
    BY DEF ErrorTypes, PrepareError
  <2> HIDE DEF X
  <2>2. Tagged("PrepareError", X)
    BY <2>1, EnumsAre DEF Tagged, Contexts, Opaque
  <2> QED
    BY <2>2 DEF X
<1>8. Tagged("MethodResolveError", ErrorTypes["MethodResolveError"])
  <2> DEFINE X == ErrorTypes["MethodResolveError"]
  <2>1. /\ DOMAIN X = {"leaf"}
        /\ X["leaf"] = "none"
    BY DEF ErrorTypes, MethodResolveError
  <2> HIDE DEF X
  <2>2. Tagged("MethodResolveError", X)
    BY <2>1, EnumsAre DEF Tagged, Contexts, Opaque
  <2> QED
    BY <2>2 DEF X
<1>9. Tagged("WasmTrap", ErrorTypes["WasmTrap"])
  <2> DEFINE X == ErrorTypes["WasmTrap"]
  <2>1. /\ DOMAIN X = {"leaf"}
        /\ X["leaf"] = "none"
    BY DEF ErrorTypes, WasmTrap
  <2> HIDE DEF X
  <2>2. Tagged("WasmTrap", X)
    BY <2>1, EnumsAre DEF Tagged, Contexts, Opaque
  <2> QED
    BY <2>2 DEF X
<1>10. Tagged("HostError", ErrorTypes["HostError"])
  <2> DEFINE X == ErrorTypes["HostError"]
  <2>1. /\ DOMAIN X = {"leaf"}
        /\ X["leaf"] = "none"
    BY DEF ErrorTypes, HostError
  <2> HIDE DEF X
  <2>2. Tagged("HostError", X)
    BY <2>1, EnumsAre DEF Tagged, Contexts, Opaque
  <2> QED
    BY <2>2 DEF X
<1>11. Tagged("ActionsValidationError", ErrorTypes["ActionsValidationError"])
  <2> DEFINE X == ErrorTypes["ActionsValidationError"]
  <2>1. /\ DOMAIN X = {"leaf"}
        /\ X["leaf"] = "none"
    BY DEF ErrorTypes, ActionsValidationError
  <2> HIDE DEF X
  <2>2. Tagged("ActionsValidationError", X)
    BY <2>1, EnumsAre DEF Tagged, Contexts, Opaque
  <2> QED
    BY <2>2 DEF X
<1>12. Tagged("ReceiptValidationError", ErrorTypes["ReceiptValidationError"])
  <2> DEFINE X == ErrorTypes["ReceiptValidationError"]
  <2>1. /\ DOMAIN X = {"leaf", "ActionsValidation"}
        /\ X["leaf"] = "none" /\ X["ActionsValidation"] = "ActionsValidationError"
    BY DEF ErrorTypes, ReceiptValidationError
  <2> HIDE DEF X
  <2>2. Tagged("ReceiptValidationError", X)
    BY <2>1, EnumsAre DEF Tagged, Contexts, Opaque
  <2> QED
    BY <2>2 DEF X
<1>13. Tagged("StorageError", ErrorTypes["StorageError"])
  <2> DEFINE X == ErrorTypes["StorageError"]
  <2>1. /\ DOMAIN X = {"leaf", "MissingTrieValue"}
        /\ X["leaf"] = "none" /\ X["MissingTrieValue"] = "MissingTrieValueContext"
    BY DEF ErrorTypes, StorageError
  <2> HIDE DEF X
  <2>2. Tagged("StorageError", X)
    BY <2>1, EnumsAre DEF Tagged, Contexts, Opaque
  <2> QED
    BY <2>2 DEF X
<1>14. Tagged("MissingTrieValueContext", ErrorTypes["MissingTrieValueContext"])
  <2> DEFINE X == ErrorTypes["MissingTrieValueContext"]
  <2>1. /\ DOMAIN X = {"leaf"}
        /\ X["leaf"] = "none"
    BY DEF ErrorTypes, MissingTrieValueContext
  <2> HIDE DEF X
  <2>2. Tagged("MissingTrieValueContext", X)
    BY <2>1, EnumsAre DEF Tagged, Contexts, Opaque
  <2> QED
    BY <2>2 DEF X
<1>15. Tagged("DepositCostFailureReason", ErrorTypes["DepositCostFailureReason"])
  <2> DEFINE X == ErrorTypes["DepositCostFailureReason"]
  <2>1. /\ DOMAIN X = {"leaf"}
        /\ X["leaf"] = "none"
    BY DEF ErrorTypes, DepositCostFailureReason
  <2> HIDE DEF X
  <2>2. Tagged("DepositCostFailureReason", X)
    BY <2>1, EnumsAre DEF Tagged, Contexts, Opaque
  <2> QED
    BY <2>2 DEF X
<1> QED
  BY EnumsAre, <1>1, <1>2, <1>3, <1>4, <1>5, <1>6, <1>7, <1>8, <1>9, <1>10, <1>11, <1>12, <1>13, <1>14, <1>15

\* f is what is read of the last n tags of a path, as each enum.
Reads(path, n, f) ==
    /\ DOMAIN f = 0 .. n
    /\ f[0] = [t \in DOMAIN ErrorTypes |-> Unread(t)]
    /\ \A i \in 1 .. n : f[i] = ReadTag(path[Len(path) - i + 1], i, f[i - 1])

LEMMA ReadsExist == ASSUME NEW path PROVE \A n \in Nat : \E f : Reads(path, n, f)
<1> DEFINE Bad == {n \in Nat : ~ \E f : Reads(path, n, f)}
<1> SUFFICES ASSUME Bad # {} PROVE FALSE
  OBVIOUS
<1>1. PICK n \in Bad : \A m \in Bad : n <= m
  BY LeastNat, Bad \subseteq Nat
<1>2. n # 0
  <2> DEFINE f == [i \in 0 .. 0 |-> [t \in DOMAIN ErrorTypes |-> Unread(t)]]
  <2>1. DOMAIN f = 0 .. 0 /\ f[0] = [t \in DOMAIN ErrorTypes |-> Unread(t)]
    OBVIOUS
  <2> HIDE DEF f
  <2>2. Reads(path, 0, f)
    BY <2>1 DEF Reads
  <2> QED
    BY <1>1, <2>2
<1>3. n - 1 \in Nat /\ n - 1 \notin Bad
  BY <1>1, <1>2
<1>4. PICK f : Reads(path, n - 1, f)
  BY <1>3
<1> DEFINE last == ReadTag(path[Len(path) - n + 1], n, f[n - 1])
<1> DEFINE g == [i \in 0 .. n |-> IF i = n THEN last ELSE f[i]]
<1>5. Reads(path, n, g)
  <2>1. n \in Nat /\ n >= 1 /\ DOMAIN f = 0 .. n - 1 /\ f[0] = [t \in DOMAIN ErrorTypes |-> Unread(t)]
        /\ \A i \in 1 .. n - 1 : f[i] = ReadTag(path[Len(path) - i + 1], i, f[i - 1])
    BY <1>1, <1>2, <1>4 DEF Reads
  <2>2. g[0] = f[0] /\ DOMAIN g = 0 .. n
    BY <2>1
  <2>3. ASSUME NEW i \in 1 .. n PROVE g[i] = ReadTag(path[Len(path) - i + 1], i, g[i - 1])
    <3>1. g[i - 1] = f[i - 1]
      BY <2>1
    <3>2. CASE i = n
      <4>1. g[i] = last
        BY <3>2
      <4> HIDE DEF g
      <4> QED
        BY <3>1, <3>2, <4>1
    <3>3. CASE i # n
      <4>1. g[i] = f[i] /\ i \in 1 .. n - 1
        BY <2>1, <3>3
      <4> HIDE DEF g
      <4> QED
        BY <2>1, <3>1, <4>1
    <3> QED
      BY <3>2, <3>3
  <2> HIDE DEF g
  <2> QED
    BY <2>1, <2>2, <2>3 DEF Reads
<1> QED
  BY <1>1, <1>5

\* A tag in front does not change what is read behind it.
LEMMA ReadsBehind ==
    ASSUME NEW S, NEW path \in Seq(S), NEW tag \in S, NEW f, NEW g,
           Reads(path, Len(path), f), Reads(<<tag>> \o path, Len(path) + 1, g)
    PROVE  f[Len(path)] = g[Len(path)]
<1> DEFINE n == Len(path)
<1> DEFINE whole == <<tag>> \o path
<1>1. n \in Nat /\ Len(whole) = n + 1 /\ \A i \in 1 .. n : whole[i + 1] = path[i]
  BY LenProperties
<1> HIDE DEF n, whole
<1> DEFINE Bad == {i \in 0 .. n : f[i] # g[i]}
<1>2. ASSUME Bad # {} PROVE FALSE
  <2>1. PICK i \in Bad : \A j \in Bad : i <= j
    BY <1>2, LeastNat, Bad \subseteq Nat
  <2>2. i # 0
    BY <2>1 DEF Reads
  <2>3. i \in 1 .. n /\ i - 1 \in 0 .. n /\ i - 1 \notin Bad /\ i \in 1 .. n + 1
    <3>1. i \in 0 .. n
      BY <2>1
    <3>2. i \in 1 .. n /\ i - 1 \in 0 .. n /\ i \in 1 .. n + 1 /\ ~(i <= i - 1)
      BY <1>1, <2>2, <3>1
    <3>3. i - 1 \notin Bad
      BY <2>1, <3>2
    <3> QED
      BY <3>2, <3>3
  <2>4. f[i - 1] = g[i - 1]
    BY <2>3
  <2>5. f[i] = ReadTag(path[n - i + 1], i, f[i - 1])
    BY <2>3 DEF Reads, n
  <2>6. g[i] = ReadTag(whole[(n + 1) - i + 1], i, g[i - 1])
    <3>1. \A k \in 1 .. n + 1 : g[k] = ReadTag(whole[Len(whole) - k + 1], k, g[k - 1])
      BY DEF Reads, n, whole
    <3> QED
      BY <1>1, <2>3, <3>1
  <2>7. whole[(n + 1) - i + 1] = path[n - i + 1]
    <3>1. n - i + 1 \in 1 .. n /\ (n + 1) - i + 1 = (n - i + 1) + 1
      BY <1>1, <2>3
    <3> QED
      BY <1>1, <3>1
  <2> QED
    BY <2>1, <2>4, <2>5, <2>6, <2>7
<1> QED
  BY <1>1, <1>2 DEF n

LEMMA ErrorReads ==
    ASSUME NEW path, Len(path) \in Nat
    PROVE  \E f : Reads(path, Len(path), f) /\ \A type : ReadError(type, path) = f[Len(path)][type]
<1> DEFINE L == Len(path)
<1> DEFINE Def(f) == [n \in 0 .. L |-> IF n = 0 THEN [t \in DOMAIN ErrorTypes |-> Unread(t)]
                                       ELSE ReadTag(path[L - n + 1], n, f[n - 1])]
<1> DEFINE read == CHOOSE f : f = Def(f)
<1>1. \A type : ReadError(type, path) = read[L][type]
  BY DEF ReadError
<1>2. PICK f : Reads(path, L, f)
  BY ReadsExist
<1> DEFINE g == [i \in 0 .. L |-> f[i]]
<1>3. g = Def(g)
  <2>1. ASSUME NEW n \in 0 .. L PROVE g[n] = Def(g)[n]
    <3>1. CASE n = 0
      BY <1>2, <3>1 DEF Reads
    <3>2. CASE n # 0
      <4>1. n \in 1 .. L /\ n - 1 \in 0 .. L
        BY <3>2
      <4>2. f[n] = ReadTag(path[L - n + 1], n, f[n - 1])
        BY <1>2, <4>1 DEF Reads
      <4>3. g[n] = f[n] /\ g[n - 1] = f[n - 1] /\ Def(g)[n] = ReadTag(path[L - n + 1], n, g[n - 1])
        BY <3>2, <4>1
      <4> HIDE DEF g, Def
      <4> QED
        BY <4>2, <4>3
    <3> QED
      BY <3>1, <3>2
  <2> QED
    BY <2>1
<1>4. read = Def(read)
  <2> HIDE DEF Def, g
  <2> QED
    BY <1>3, Zenon
<1>5. Reads(path, L, read)
  <2>1. DOMAIN read = 0 .. L
    BY <1>4
  <2>2. \A n \in 0 .. L : read[n] = Def(read)[n]
    BY <1>4
  <2> HIDE DEF read
  <2>3. read[0] = [t \in DOMAIN ErrorTypes |-> Unread(t)]
    <3>1. 0 \in 0 .. L
      OBVIOUS
    <3>2. Def(read)[0] = [t \in DOMAIN ErrorTypes |-> Unread(t)]
      BY <3>1
    <3> QED
      BY <2>2, <3>1, <3>2
  <2>4. ASSUME NEW i \in 1 .. L PROVE read[i] = ReadTag(path[L - i + 1], i, read[i - 1])
    <3>1. i \in 0 .. L /\ i # 0
      OBVIOUS
    <3>2. read[i] = Def(read)[i]
      BY <2>2, <3>1
    <3> QED
      BY <3>1, <3>2
  <2> QED
    BY <2>1, <2>3, <2>4 DEF Reads
<1> QED
  BY <1>1, <1>5

\* What a tag carries, as it is read.
Within(type, tag, path) ==
    LET carried == ErrorTypes[type][tag]
    IN  CASE carried # "none" -> ReadError(carried, path)
          [] carried = "none" /\ path = <<>> -> Ok(<<>>)
          [] OTHER -> Fail("shape")

LEMMA ReadUnfold ==
    ASSUME NEW S, NEW path \in Seq(S), NEW tag \in S, NEW type \in Enums
    PROVE  ReadError(type, <<tag>> \o path)
             = IF tag \in DOMAIN ErrorTypes[type] /\ Within(type, tag, path).ok
                   THEN Ok(<<tag>> \o Within(type, tag, path).value) ELSE Unread(type)
<1> DEFINE n == Len(path)
<1> DEFINE whole == <<tag>> \o path
<1>1. n \in Nat /\ Len(whole) = n + 1 /\ whole[1] = tag
  BY LenProperties
<1>2. PICK f : Reads(path, n, f) /\ \A t : ReadError(t, path) = f[n][t]
  BY <1>1, ErrorReads
<1> HIDE DEF whole
<1>3. PICK g : Reads(whole, n + 1, g) /\ \A t : ReadError(t, whole) = g[n + 1][t]
  <2>1. Len(whole) \in Nat
    BY <1>1
  <2> QED
    BY <1>1, <2>1, ErrorReads
<1>4. f[n] = g[n]
  BY <1>1, <1>2, <1>3, ReadsBehind DEF whole
<1>5. g[n + 1] = ReadTag(tag, n + 1, g[n])
  <2>1. n + 1 \in 1 .. n + 1 /\ (n + 1) - (n + 1) + 1 = 1 /\ (n + 1) - 1 = n
    BY <1>1
  <2>2. g[n + 1] = ReadTag(whole[(n + 1) - (n + 1) + 1], n + 1, g[(n + 1) - 1])
    BY <1>1, <1>3, <2>1 DEF Reads
  <2> QED
    BY <1>1, <2>1, <2>2
<1> DEFINE carried == ErrorTypes[type][tag]
<1> DEFINE inner == CASE carried # "none" -> g[n][carried]
                      [] carried = "none" /\ n + 1 = 1 -> Ok(<<>>)
                      [] OTHER -> Fail("shape")
<1>6. ReadError(type, whole)
        = IF tag \in DOMAIN ErrorTypes[type] /\ inner.ok THEN Ok(<<tag>> \o inner.value) ELSE Unread(type)
  <2>1. ReadTag(tag, n + 1, g[n])[type]
          = IF tag \in DOMAIN ErrorTypes[type] /\ inner.ok THEN Ok(<<tag>> \o inner.value) ELSE Unread(type)
    BY DEF ReadTag, Enums
  <2> HIDE DEF inner
  <2> QED
    BY <1>3, <1>5, <2>1
<1>7. inner = Within(type, tag, path)
  <2>1. n + 1 = 1 <=> path = <<>>
    BY <1>1
  <2>2. g[n][carried] = ReadError(carried, path)
    BY <1>2, <1>4
  <2> HIDE DEF n
  <2> QED
    BY <2>1, <2>2 DEF Within
<1> HIDE DEF inner
<1> QED
  BY <1>6, <1>7 DEF whole

\* Every tag of an error, known or not.
Tags == {"new", "reshaped", "Unknown"} \cup UNION {DOMAIN ErrorTypes[t] : t \in Enums}

\* Everything above the innermost enum that has a fallback is told apart.
Honest(type, path) ==
    LET read == ReadError(type, path)
    IN  /\ read.ok
        /\ \A i \in 1 .. Len(path) - 2 : (i <= Len(read.value) /\ read.value[i] = path[i]) \/ path[i] \in Opaque

\* What is read of a path, whichever enum it is read as.
Sound(type, path) ==
    /\ path \in Seq(Tags) /\ path # <<>>
    /\ type \in Contexts => Len(path) <= 2
    /\ ReadError(type, path).ok => ReadError(type, path).value \in Seq(Tags)
    /\ type \in Fallback \/ (type = "TxExecutionError" /\ path[1] # "new") => Honest(type, path)
    /\ type = "TxExecutionError" /\ ReadError(type, path).ok => path[1] # "new" /\ ReadError(type, path).value[1] = path[1]

LEMMA UnreadGives ==
    ASSUME NEW type
    PROVE  /\ type \in Fallback => Unread(type).ok
           /\ Unread(type).ok => Unread(type).value \in Seq(Tags)
<1>1. CASE type \in Fallback
  <2>1. Unread(type) = Ok(<<"Unknown">>)
    BY <1>1 DEF Unread
  <2>2. Unread(type).ok /\ Unread(type).value = <<"Unknown">>
    BY <2>1, Outcomes, Zenon
  <2>3. "Unknown" \in Tags
    BY DEF Tags
  <2>4. <<"Unknown">> \in Seq(Tags)
    BY <2>3
  <2> QED
    BY <2>2, <2>4
<1>2. CASE type \notin Fallback
  <2>1. Unread(type) = Fail("unreadable")
    BY <1>2 DEF Unread
  <2>2. ~Unread(type).ok
    BY <2>1, Outcomes, Zenon
  <2> QED
    BY <1>2, <2>2
<1> QED
  BY <1>1, <1>2

\* A path of one or two tags has nothing to be told apart.
LEMMA ShortSound ==
    ASSUME NEW type, NEW path \in Seq(Tags), Len(path) \in 1 .. 2,
           ReadError(type, path).ok => ReadError(type, path).value \in Seq(Tags),
           type \in Fallback \/ (type = "TxExecutionError" /\ path[1] # "new") => ReadError(type, path).ok,
           type = "TxExecutionError" => ~ReadError(type, path).ok
    PROVE  Sound(type, path)
<1>1. path # <<>> /\ Len(path) <= 2 /\ 1 .. Len(path) - 2 = {}
  <2>1. Len(<<>>) = 0
    OBVIOUS
  <2> DEFINE n == Len(path)
  <2>2. n \in 1 .. 2
    OBVIOUS
  <2>3. n = 0 <=> path = <<>>
    BY <2>1, EmptySeq
  <2> HIDE DEF n
  <2>4. n <= 2 /\ n # 0 /\ 1 .. n - 2 = {}
    BY <2>2
  <2> QED
    BY <2>3, <2>4, Zenon DEF n
<1>2. ReadError(type, path).ok => Honest(type, path)
  BY <1>1, Zenon DEF Honest
<1> QED
  BY <1>1, <1>2 DEF Sound

LEMMA TagsKnown == \A type \in Enums : \A tag \in DOMAIN ErrorTypes[type] : tag \in Tags
BY DEF Tags

LEMMA UnreadTop == ~Unread("TxExecutionError").ok
<1>1. "TxExecutionError" \notin Fallback
  BY EnumsAre
<1>2. Unread("TxExecutionError") = Fail("unreadable")
  BY <1>1 DEF Unread
<1> QED
  BY <1>2, Outcomes, Zenon

LEMMA NewSound == ASSUME NEW type \in Enums PROVE Sound(type, <<"new">>)
<1>1. "new" \in Tags
  BY DEF Tags
<1>2. <<"new">> = <<"new">> \o <<>> /\ <<>> \in Seq(Tags) /\ <<"new">> \in Seq(Tags)
  BY <1>1
<1>3. "new" \notin DOMAIN ErrorTypes[type]
  BY TagsAre DEF Tagged
<1>4. ReadError(type, <<"new">>) = Unread(type)
  <2>1. ReadError(type, <<"new">> \o <<>>)
          = IF "new" \in DOMAIN ErrorTypes[type] /\ Within(type, "new", <<>>).ok
                THEN Ok(<<"new">> \o Within(type, "new", <<>>).value) ELSE Unread(type)
    BY <1>1, <1>2, ReadUnfold, Zenon
  <2> QED
    BY <1>2, <1>3, <2>1, Zenon
<1>5. Len(<<"new">>) = 1 /\ <<"new">>[1] = "new"
  OBVIOUS
<1>6. type \in Fallback => Unread(type).ok
  BY UnreadGives
<1>7. Unread(type).ok => Unread(type).value \in Seq(Tags)
  BY UnreadGives
<1> QED
  <2> DEFINE path == <<"new">>
  <2>1. path \in Seq(Tags) /\ Len(path) \in 1 .. 2 /\ path[1] = "new" /\ ReadError(type, path) = Unread(type)
    BY <1>2, <1>4, <1>5
  <2> HIDE DEF path
  <2>2. type = "TxExecutionError" => ~ReadError(type, path).ok
    BY <2>1, UnreadTop, Zenon
  <2>3. Sound(type, path)
    BY <1>6, <1>7, <2>1, <2>2, ShortSound, Zenon
  <2> QED
    BY <2>3 DEF path

LEMMA LeafSound ==
    ASSUME NEW type \in Enums, NEW tag \in DOMAIN ErrorTypes[type], ErrorTypes[type][tag] = "none"
    PROVE  Sound(type, <<tag>>) /\ Sound(type, <<tag, "reshaped">>)
<1>1. tag \in Tags /\ "reshaped" \in Tags
  BY TagsKnown DEF Tags
<1>2. type # "TxExecutionError"
  BY TagsAre, EnumsAre DEF Tagged
<1>3. Sound(type, <<tag>>)
  <2>1. <<tag>> = <<tag>> \o <<>> /\ <<>> \in Seq(Tags) /\ <<tag>> \in Seq(Tags) /\ Len(<<tag>>) = 1
    BY <1>1
  <2>2. Within(type, tag, <<>>) = Ok(<<>>)
    BY DEF Within
  <2>3. Within(type, tag, <<>>).ok /\ Within(type, tag, <<>>).value = <<>>
    BY <2>2, Outcomes, Zenon
  <2>4. ReadError(type, <<tag>> \o <<>>) = Ok(<<tag>> \o <<>>)
    BY <1>1, <2>1, <2>3, ReadUnfold
  <2>5. ReadError(type, <<tag>>) = Ok(<<tag>>)
    BY <2>1, <2>4
  <2>6. ReadError(type, <<tag>>).ok /\ ReadError(type, <<tag>>).value = <<tag>>
    BY <2>5, Outcomes, Zenon
  <2>7. Len(<<tag>>) \in 1 .. 2
    BY <2>1
  <2> QED
    BY <1>2, <2>1, <2>6, <2>7, ShortSound, Zenon
<1>4. Sound(type, <<tag, "reshaped">>)
  <2>1. <<tag, "reshaped">> = <<tag>> \o <<"reshaped">> /\ <<"reshaped">> \in Seq(Tags) /\ <<"reshaped">> # <<>>
        /\ <<tag, "reshaped">> \in Seq(Tags) /\ Len(<<tag, "reshaped">>) = 2
    BY <1>1
  <2>2. Within(type, tag, <<"reshaped">>) = Fail("shape")
    BY <2>1 DEF Within
  <2>3. ~Within(type, tag, <<"reshaped">>).ok
    BY <2>2, Outcomes, Zenon
  <2>4. ReadError(type, <<tag>> \o <<"reshaped">>) = Unread(type)
    BY <1>1, <2>1, <2>3, ReadUnfold
  <2>5. type \in Fallback => Unread(type).ok
    BY UnreadGives
  <2>6. Unread(type).ok => Unread(type).value \in Seq(Tags)
    BY UnreadGives
  <2>7. ReadError(type, <<tag, "reshaped">>) = Unread(type)
    BY <2>1, <2>4, Zenon
  <2>8. Len(<<tag, "reshaped">>) \in 1 .. 2
    BY <2>1
  <2> QED
    BY <1>2, <2>1, <2>5, <2>6, <2>7, <2>8, ShortSound, Zenon
<1> QED
  BY <1>3, <1>4

LEMMA NestSound ==
    ASSUME NEW type \in Enums, NEW tag \in DOMAIN ErrorTypes[type], ErrorTypes[type][tag] # "none",
           NEW path, Sound(ErrorTypes[type][tag], path)
    PROVE  Sound(type, <<tag>> \o path)
<1> DEFINE carried == ErrorTypes[type][tag]
<1> DEFINE inner == ReadError(carried, path)
<1> DEFINE whole == <<tag>> \o path
<1> DEFINE read == ReadError(type, whole)
<1>1. tag \in Tags /\ path \in Seq(Tags) /\ path # <<>> /\ Len(path) \in Nat
  BY TagsKnown, LenProperties DEF Sound
<1>2. /\ whole \in Seq(Tags) /\ whole # <<>> /\ Len(whole) = Len(path) + 1 /\ whole[1] = tag
      /\ \A i \in 1 .. Len(path) : whole[i + 1] = path[i]
  BY <1>1, LenProperties
<1>3. Within(type, tag, path) = inner
  BY DEF Within
<1>4. read = IF inner.ok THEN Ok(<<tag>> \o inner.value) ELSE Unread(type)
  <2> HIDE DEF inner
  <2>1. ReadError(type, <<tag>> \o path)
          = IF tag \in DOMAIN ErrorTypes[type] /\ Within(type, tag, path).ok
                THEN Ok(<<tag>> \o Within(type, tag, path).value) ELSE Unread(type)
    BY <1>1, ReadUnfold
  <2> QED
    BY <1>3, <2>1
<1>5. inner.ok => inner.value \in Seq(Tags)
  BY DEF Sound
<1>6. type \notin Contexts
  BY TagsAre DEF Tagged
<1>7. carried \in Fallback \/ (carried \in Contexts /\ tag \in Opaque)
  BY TagsAre DEF Tagged
<1>8. inner.ok => read.ok /\ read.value = <<tag>> \o inner.value
  <2> HIDE DEF inner, read
  <2>1. inner.ok => read = Ok(<<tag>> \o inner.value)
    BY <1>4
  <2> QED
    BY <2>1, Outcomes, Zenon
<1>9. ~inner.ok => read = Unread(type)
  <2> HIDE DEF inner, read
  <2> QED
    BY <1>4
<1>10. read.ok => read.value \in Seq(Tags)
  <2>1. inner.ok => read.value \in Seq(Tags)
    <3> DEFINE v == inner.value
    <3> HIDE DEF inner, read
    <3>1. inner.ok => v \in Seq(Tags) /\ read.value = <<tag>> \o v
      BY <1>5, <1>8
    <3> HIDE DEF v
    <3> DEFINE joined == <<tag>> \o v
    <3>2. v \in Seq(Tags) => joined \in Seq(Tags)
      BY <1>1
    <3> HIDE DEF joined
    <3>3. inner.ok => joined \in Seq(Tags) /\ read.value = joined
      BY <3>1, <3>2 DEF joined
    <3> QED
      BY <3>3
  <2>2. ~inner.ok => (read.ok => read.value \in Seq(Tags))
    <3> HIDE DEF inner, read
    <3> QED
      BY <1>9, UnreadGives
  <2> QED
    BY <2>1, <2>2
<1>11. ASSUME type \in Fallback \/ (type = "TxExecutionError" /\ whole[1] # "new") PROVE Honest(type, whole)
  <2>1. CASE carried \in Fallback
    <3>1. Honest(carried, path)
      BY <2>1 DEF Sound
    <3>2. /\ inner.ok
          /\ \A i \in 1 .. Len(path) - 2 : (i <= Len(inner.value) /\ inner.value[i] = path[i]) \/ path[i] \in Opaque
      BY <3>1 DEF Honest
    <3> DEFINE v == inner.value
    <3> HIDE DEF inner, read, whole
    <3>3. v \in Seq(Tags) /\ read.ok /\ read.value = <<tag>> \o v
      BY <1>5, <1>8, <3>2
    <3> HIDE DEF v
    <3>4. /\ Len(v) \in Nat /\ Len(read.value) = Len(v) + 1 /\ read.value[1] = tag
          /\ \A i \in 1 .. Len(v) : read.value[i + 1] = v[i]
      BY <1>1, <3>3, LenProperties
    <3>5. ASSUME NEW i \in 1 .. Len(whole) - 2
          PROVE (i <= Len(read.value) /\ read.value[i] = whole[i]) \/ whole[i] \in Opaque
      <4>1. CASE i = 1
        BY <1>2, <3>4, <4>1
      <4>2. CASE i # 1
        <5> DEFINE k == i - 1
        <5>1. k \in 1 .. Len(path) - 2 /\ k \in 1 .. Len(path) /\ i = k + 1
          BY <1>1, <1>2, <4>2
        <5> HIDE DEF k
        <5>2. whole[i] = path[k]
          BY <1>2, <5>1
        <5>3. (k <= Len(v) /\ v[k] = path[k]) \/ path[k] \in Opaque
          BY <3>2, <5>1 DEF v
        <5>4. k <= Len(v) => i <= Len(read.value) /\ read.value[i] = v[k]
          BY <3>4, <5>1
        <5> QED
          BY <5>2, <5>3, <5>4
      <4> QED
        BY <4>1, <4>2
    <3> QED
      BY <3>3, <3>5 DEF Honest, read
  <2>2. CASE carried \notin Fallback
    <3>1. Len(path) <= 2 /\ tag \in Opaque
      BY <1>7, <2>2 DEF Sound
    <3>2. type # "TxExecutionError"
      BY <2>2, TagsAre DEF Tagged
    <3>3. read.ok
      <4>1. Unread(type).ok
        BY <1>11, <3>2, UnreadGives
      <4> HIDE DEF inner, read
      <4> QED
        BY <1>8, <1>9, <4>1
    <3> HIDE DEF inner, read, whole
    <3>4. ASSUME NEW i \in 1 .. Len(whole) - 2 PROVE whole[i] \in Opaque
      <4>1. i = 1
        BY <1>1, <1>2, <3>1
      <4> QED
        BY <1>2, <3>1, <4>1
    <3> QED
      BY <3>3, <3>4 DEF Honest, read
  <2> QED
    BY <2>1, <2>2
<1>12. ASSUME type = "TxExecutionError", read.ok PROVE whole[1] # "new" /\ read.value[1] = whole[1]
  <2>1. inner.ok
    <3>1. ~Unread(type).ok
      BY <1>12, UnreadTop
    <3> HIDE DEF inner, read
    <3> QED
      BY <1>9, <1>12, <3>1
  <2> DEFINE v == inner.value
  <2> HIDE DEF inner, read, whole
  <2>2. v \in Seq(Tags) /\ read.value = <<tag>> \o v
    BY <1>5, <1>8, <2>1
  <2> HIDE DEF v
  <2>3. read.value[1] = tag
    BY <1>1, <2>2
  <2>4. tag # "new"
    BY TagsAre DEF Tagged
  <2> QED
    BY <1>2, <2>3, <2>4
<1> QED
  BY <1>2, <1>6, <1>10, <1>11, <1>12 DEF Sound

\* All paths of every enum are sound.
AllSound(paths) == \A type \in Enums : \A path \in paths[type] : Sound(type, path)

LEMMA LongerSound == ASSUME NEW paths, AllSound(paths) PROVE AllSound(Longer(paths))
<1> SUFFICES ASSUME NEW type \in Enums, NEW path \in Longer(paths)[type] PROVE Sound(type, path)
  BY DEF AllSound
<1> DEFINE From(tag) == LET carried == ErrorTypes[type][tag]
                        IN  IF carried = "none" THEN {<<tag>>, <<tag, "reshaped">>}
                                                ELSE {<<tag>> \o p : p \in paths[carried]}
<1>1. Longer(paths)[type] = {<<"new">>} \cup UNION {From(tag) : tag \in DOMAIN ErrorTypes[type]}
  BY DEF Longer, Enums
<1>2. CASE path = <<"new">>
  BY <1>2, NewSound
<1>3. CASE path # <<"new">>
  <2> HIDE DEF From
  <2>1. PICK tag \in DOMAIN ErrorTypes[type] : path \in From(tag)
    BY <1>1, <1>3
  <2>2. CASE ErrorTypes[type][tag] = "none"
    <3>1. path = <<tag>> \/ path = <<tag, "reshaped">>
      BY <2>1, <2>2 DEF From
    <3> QED
      BY <2>2, <3>1, LeafSound
  <2>3. CASE ErrorTypes[type][tag] # "none"
    <3>1. PICK p \in paths[ErrorTypes[type][tag]] : path = <<tag>> \o p
      BY <2>1, <2>3 DEF From
    <3>2. ErrorTypes[type][tag] \in Enums
      BY <2>3, TagsAre, EnumsAre DEF Tagged
    <3>3. Sound(ErrorTypes[type][tag], p)
      BY <3>1, <3>2 DEF AllSound
    <3> QED
      BY <2>3, <3>1, <3>3, NestSound
  <2> QED
    BY <2>2, <2>3
<1> QED
  BY <1>2, <1>3

\* f is the paths of each enum, up to n enums deep.
Deepens(n, f) ==
    /\ DOMAIN f = 0 .. n
    /\ f[0] = [t \in DOMAIN ErrorTypes |-> {<<"new">>}]
    /\ \A i \in 1 .. n : f[i] = Longer(f[i - 1])

LEMMA DepthsExist == \A n \in Nat : \E f : Deepens(n, f)
<1> DEFINE Bad == {n \in Nat : ~ \E f : Deepens(n, f)}
<1> SUFFICES ASSUME Bad # {} PROVE FALSE
  OBVIOUS
<1>1. PICK n \in Bad : \A m \in Bad : n <= m
  BY LeastNat, Bad \subseteq Nat
<1>2. n # 0
  <2> DEFINE f == [i \in 0 .. 0 |-> [t \in DOMAIN ErrorTypes |-> {<<"new">>}]]
  <2>1. DOMAIN f = 0 .. 0 /\ f[0] = [t \in DOMAIN ErrorTypes |-> {<<"new">>}]
    OBVIOUS
  <2> HIDE DEF f
  <2>2. Deepens(0, f)
    BY <2>1 DEF Deepens
  <2> QED
    BY <1>1, <2>2
<1>3. n - 1 \in Nat /\ n - 1 \notin Bad
  BY <1>1, <1>2
<1>4. PICK f : Deepens(n - 1, f)
  BY <1>3
<1> DEFINE last == Longer(f[n - 1])
<1> DEFINE g == [i \in 0 .. n |-> IF i = n THEN last ELSE f[i]]
<1>5. Deepens(n, g)
  <2>1. n \in Nat /\ n >= 1 /\ DOMAIN f = 0 .. n - 1 /\ f[0] = [t \in DOMAIN ErrorTypes |-> {<<"new">>}]
        /\ \A i \in 1 .. n - 1 : f[i] = Longer(f[i - 1])
    BY <1>1, <1>2, <1>4 DEF Deepens
  <2>2. g[0] = f[0] /\ DOMAIN g = 0 .. n
    BY <2>1
  <2>3. ASSUME NEW i \in 1 .. n PROVE g[i] = Longer(g[i - 1])
    <3>1. g[i - 1] = f[i - 1]
      BY <2>1
    <3>2. CASE i = n
      <4>1. g[i] = last
        BY <3>2
      <4> HIDE DEF g
      <4> QED
        BY <3>1, <3>2, <4>1
    <3>3. CASE i # n
      <4>1. g[i] = f[i] /\ i \in 1 .. n - 1
        BY <2>1, <3>3
      <4> HIDE DEF g
      <4> QED
        BY <2>1, <3>1, <4>1
    <3> QED
      BY <3>2, <3>3
  <2> HIDE DEF g
  <2> QED
    BY <2>1, <2>2, <2>3 DEF Deepens
<1> QED
  BY <1>1, <1>5

LEMMA PathsDeepen == \E f : Deepens(ErrorDepth, f) /\ \A type : PathsOf(type) = f[ErrorDepth][type]
<1> DEFINE L == ErrorDepth
<1> DEFINE Def(f) == [n \in 0 .. L |-> IF n = 0 THEN [t \in DOMAIN ErrorTypes |-> {<<"new">>}] ELSE Longer(f[n - 1])]
<1> DEFINE paths == CHOOSE f : f = Def(f)
<1>0. L \in Nat
  BY DEF ErrorDepth
<1>1. \A type : PathsOf(type) = paths[L][type]
  BY DEF PathsOf
<1> HIDE DEF L
<1>2. PICK f : Deepens(L, f)
  BY <1>0, DepthsExist
<1> DEFINE g == [i \in 0 .. L |-> f[i]]
<1>3. g = Def(g)
  <2>1. ASSUME NEW n \in 0 .. L PROVE g[n] = Def(g)[n]
    <3>1. CASE n = 0
      BY <1>2, <3>1 DEF Deepens
    <3>2. CASE n # 0
      <4>1. n \in 1 .. L /\ n - 1 \in 0 .. L
        BY <1>0, <3>2
      <4>2. f[n] = Longer(f[n - 1])
        BY <1>2, <4>1 DEF Deepens
      <4>3. g[n] = f[n] /\ g[n - 1] = f[n - 1] /\ Def(g)[n] = Longer(g[n - 1])
        BY <3>2, <4>1
      <4> HIDE DEF g, Def
      <4> QED
        BY <4>2, <4>3
    <3> QED
      BY <3>1, <3>2
  <2> QED
    BY <2>1
<1>4. paths = Def(paths)
  <2> HIDE DEF Def, g
  <2> QED
    BY <1>3, Zenon
<1>5. Deepens(L, paths)
  <2>1. DOMAIN paths = 0 .. L
    BY <1>4
  <2>2. \A n \in 0 .. L : paths[n] = Def(paths)[n]
    BY <1>4
  <2> HIDE DEF paths
  <2>3. paths[0] = [t \in DOMAIN ErrorTypes |-> {<<"new">>}]
    <3>1. 0 \in 0 .. L
      BY <1>0
    <3>2. Def(paths)[0] = [t \in DOMAIN ErrorTypes |-> {<<"new">>}]
      BY <3>1
    <3> QED
      BY <2>2, <3>1, <3>2
  <2>4. ASSUME NEW i \in 1 .. L PROVE paths[i] = Longer(paths[i - 1])
    <3>1. i \in 0 .. L /\ i # 0
      BY <1>0
    <3>2. paths[i] = Def(paths)[i]
      BY <2>2, <3>1
    <3> QED
      BY <3>1, <3>2
  <2> QED
    BY <2>1, <2>3, <2>4 DEF Deepens
<1> QED
  BY <1>1, <1>5 DEF L

LEMMA PathsSound == AllSound([type \in Enums |-> PathsOf(type)])
<1>1. PICK f : Deepens(ErrorDepth, f) /\ \A type : PathsOf(type) = f[ErrorDepth][type]
  BY PathsDeepen
<1>2. /\ ErrorDepth \in Nat
      /\ f[0] = [t \in DOMAIN ErrorTypes |-> {<<"new">>}]
      /\ \A i \in 1 .. ErrorDepth : f[i] = Longer(f[i - 1])
  BY <1>1 DEF Deepens, ErrorDepth
<1> DEFINE Bad == {n \in 0 .. ErrorDepth : ~AllSound(f[n])}
<1>3. Bad = {}
  <2> SUFFICES ASSUME Bad # {} PROVE FALSE
    OBVIOUS
  <2>1. PICK n \in Bad : \A m \in Bad : n <= m
    BY LeastNat, Bad \subseteq Nat
  <2>2. AllSound(f[0])
    BY <1>2, NewSound DEF AllSound, Enums
  <2>3. n \in 1 .. ErrorDepth /\ n - 1 \in 0 .. ErrorDepth /\ n - 1 \notin Bad
    BY <1>2, <2>1, <2>2
  <2>4. AllSound(f[n - 1]) /\ f[n] = Longer(f[n - 1])
    BY <1>2, <2>3
  <2> QED
    BY <2>1, <2>4, LongerSound
<1>4. AllSound(f[ErrorDepth])
  BY <1>2, <1>3
<1> QED
  BY <1>1, <1>4 DEF AllSound

LEMMA ErrorsLocal == ASSUME input \in OutcomesGiven PROVE UnknownErrorsStayLocal
<1> SUFFICES ASSUME input.final.status = "Failure", input.final.path[1] # "new" PROVE UnknownErrorsStayLocal
  BY Zenon DEF UnknownErrorsStayLocal
<1> DEFINE path == input.final.path
<1> DEFINE read == ReadError("TxExecutionError", path)
<1>1. path \in PathsOf("TxExecutionError")
  <2>1. input.final \in FinalStatuses
    BY DEF OutcomesGiven
  <2>2. \A s \in {"NotStarted", "Started", "Empty", "Json", "NotBase64"} : s # "Failure"
    OBVIOUS
  <2>3. PICK p \in PathsOf("TxExecutionError") : input.final = [status |-> "Failure", path |-> p]
    BY <2>1, <2>2 DEF FinalStatuses
  <2> QED
    BY <2>3
<1>2. Sound("TxExecutionError", path)
  BY <1>1, EnumsAre, PathsSound DEF AllSound
<1>3. Honest("TxExecutionError", path)
  BY <1>2 DEF Sound
<1>4. read.ok /\ \A i \in 1 .. Len(path) - 2 : read.value[i] = path[i] \/ path[i] \in Opaque
  BY <1>3 DEF Honest
<1> HIDE DEF read
<1>5. \A i \in 1 .. Len(path) - 2 :
         \/ read.value[i] = path[i]
         \/ i = Len(path) - 2 /\ path[i + 1] = "leaf"
         \/ path[i] \in {"MissingTrieValue", "NotEnoughBalanceForDeposit"}
  BY <1>4, Zenon DEF Opaque
<1> QED
  BY <1>4, <1>5, Zenon DEF UnknownErrorsStayLocal, read

\* What is read of a reported error, at the top.
LEMMA TopRead ==
    ASSUME NEW path \in PathsOf("TxExecutionError")
    PROVE  LET read == ReadError("TxExecutionError", path)
           IN  /\ read.ok <=> path[1] # "new"
               /\ read.ok => read.value[1] = path[1]
<1> DEFINE read == ReadError("TxExecutionError", path)
<1>1. Sound("TxExecutionError", path)
  BY EnumsAre, PathsSound DEF AllSound
<1>2. path[1] # "new" => read.ok
  BY <1>1 DEF Sound, Honest
<1>3. read.ok => path[1] # "new" /\ read.value[1] = path[1]
  BY <1>1 DEF Sound
<1> HIDE DEF read
<1>4. (read.ok <=> path[1] # "new") /\ (read.ok => read.value[1] = path[1])
  BY <1>2, <1>3, Zenon
<1> QED
  BY <1>4 DEF read

LEMMA ReceiptsRead ==
    ReceiptReads(<<"ActionError", "new">>) /\ ~ReceiptReads(<<"InvalidTxError", "leaf">>)
<1>1. DOMAIN TxExecutionError = {"ActionError", "InvalidTxError"} /\ TxExecutionError["ActionError"] = "ActionErrorKind"
  BY DEF TxExecutionError
<1>2. ErrorTypes["TxExecutionError"] = TxExecutionError
  BY DEF ErrorTypes
<1>3. Sound("ActionErrorKind", <<"new">>) /\ "TxExecutionError" \in Enums /\ "ActionErrorKind" # "none"
  BY EnumsAre, NewSound
<1>4. Sound("TxExecutionError", <<"ActionError">> \o <<"new">>)
  BY <1>1, <1>2, <1>3, NestSound
<1>5. /\ <<"ActionError">> \o <<"new">> = <<"ActionError", "new">>
      /\ <<"ActionError", "new">>[1] # "new" /\ <<"ActionError", "new">>[1] = "ActionError"
      /\ <<"InvalidTxError", "leaf">>[1] # "ActionError"
  <2>1. <<"ActionError">> \o <<"new">> = <<"ActionError", "new">>
    <3> DEFINE S == {"ActionError", "new"}
    <3>1. "ActionError" \in S /\ "new" \in S
      OBVIOUS
    <3> HIDE DEF S
    <3>2. ASSUME NEW a \in S, NEW b \in S PROVE <<a>> \o <<b>> = <<a, b>>
      <4> DEFINE pair == <<a, b>>
      <4> DEFINE joined == <<a>> \o <<b>>
      <4>1. pair \in Seq(S) /\ Len(pair) = 2 /\ pair[1] = a /\ pair[2] = b
        OBVIOUS
      <4>2. joined \in Seq(S) /\ Len(joined) = 2 /\ joined[1] = a /\ joined[2] = b
        OBVIOUS
      <4> HIDE DEF pair, joined
      <4>3. Len(joined) = Len(pair) /\ \A i \in 1 .. Len(joined) : joined[i] = pair[i]
        BY <4>1, <4>2
      <4>4. joined = pair
        BY <4>1, <4>2, <4>3, SeqEqual
      <4> QED
        BY <4>4 DEF joined, pair
    <3> QED
      BY <3>1, <3>2, Zenon
  <2>2. <<"ActionError", "new">>[1] # "new" /\ <<"ActionError", "new">>[1] = "ActionError"
    OBVIOUS
  <2>3. <<"InvalidTxError", "leaf">>[1] # "ActionError"
    OBVIOUS
  <2> QED
    BY <2>1, <2>2, <2>3
<1>6. ReadError("TxExecutionError", <<"ActionError", "new">>).ok
  BY <1>4, <1>5 DEF Sound, Honest
<1> QED
  BY <1>5, <1>6, Zenon DEF ReceiptReads

\* The outcome a node has reported, as read.
LEMMA RawReads ==
    ASSUME NEW present \in BOOLEAN, NEW final \in FinalStatuses,
           NEW receipt \in {<<>>, <<"ActionError", "new">>, <<"InvalidTxError", "leaf">>}
    PROVE  LET raw == RawOutcome(present, final, receipt)
               readable == /\ present
                           /\ final.status = "Failure" => final.path[1] # "new"
                           /\ receipt # <<>> => receipt[1] = "ActionError"
           IN  /\ raw.ok <=> readable
               /\ raw.ok => /\ raw.value.status = final.status
                            /\ final.status = "Failure" => raw.value.error[1] = final.path[1]
<1> DEFINE raw == RawOutcome(present, final, receipt)
<1> DEFINE failed == final.status = "Failure"
<1> DEFINE read == ReadError("TxExecutionError", final.path)
<1>1. failed => final.path \in PathsOf("TxExecutionError")
  <2>1. \A s \in {"NotStarted", "Started", "Empty", "Json", "NotBase64"} : s # "Failure"
    OBVIOUS
  <2> QED
    BY <2>1 DEF FinalStatuses
<1>2. failed => (read.ok <=> final.path[1] # "new") /\ (read.ok => read.value[1] = final.path[1])
  BY <1>1, TopRead
<1>3. receipt # <<>> => (ReceiptReads(receipt) <=> receipt[1] = "ActionError")
  <2>1. <<"ActionError", "new">>[1] = "ActionError" /\ <<"InvalidTxError", "leaf">>[1] # "ActionError"
    OBVIOUS
  <2> QED
    BY <2>1, ReceiptsRead
<1> DEFINE whole == [status |-> final.status, error |-> IF failed THEN read.value ELSE <<>>]
<1> DEFINE reads == present /\ (failed => read.ok) /\ (receipt # <<>> => ReceiptReads(receipt))
<1>4. raw = IF reads THEN Ok(whole) ELSE Fail("None")
  BY DEF RawOutcome
<1>5. whole.status = final.status /\ (failed => whole.error = read.value)
  <2> HIDE DEF failed, read
  <2> QED
    OBVIOUS
<1> HIDE DEF raw, read, whole
<1>6. reads => raw.ok /\ raw.value = whole
  <2> HIDE DEF reads
  <2>1. reads => raw = Ok(whole)
    BY <1>4
  <2> QED
    BY <2>1, Outcomes, Zenon
<1>7. ~reads => ~raw.ok
  <2> HIDE DEF reads
  <2>1. ~reads => raw = Fail("None")
    BY <1>4
  <2> QED
    BY <2>1, Outcomes, Zenon
<1> HIDE DEF failed
<1> DEFINE readable == present /\ (failed => final.path[1] # "new") /\ (receipt # <<>> => receipt[1] = "ActionError")
<1>8. reads <=> readable
  BY <1>2, <1>3, Zenon
<1> HIDE DEF reads, readable
<1>9. raw.ok <=> readable
  BY <1>6, <1>7, <1>8, Zenon
<1>10. raw.ok => raw.value.status = final.status
  BY <1>5, <1>6, <1>7, Zenon
<1>11. raw.ok /\ failed => raw.value.error[1] = final.path[1]
  <2>1. reads /\ failed => read.ok
    BY Zenon DEF reads
  <2> QED
    BY <1>2, <1>5, <1>6, <1>7, <2>1, Zenon
<1> QED
  BY <1>9, <1>10, <1>11 DEF raw, readable, failed

\* At an executed level an outcome is given as it was read, or is an error.
LEMMA ExecutedOutcome ==
    ASSUME NEW raw
    PROVE  LET refused == raw.value.status = "Failure" /\ raw.value.error[1] = "InvalidTxError"
               told == extract_outcome(raw)
           IN  /\ told.ok <=> raw.ok /\ ~refused
               /\ raw.ok /\ refused => told = Fail("InvalidTx")
               /\ told.ok => told.value = raw.value
<1> DEFINE refused == raw.value.status = "Failure" /\ raw.value.error[1] = "InvalidTxError"
<1> DEFINE told == extract_outcome(raw)
<1>1. /\ ~raw.ok => told = Fail("no execution outcome")
      /\ raw.ok /\ refused => told = Fail("InvalidTx")
      /\ raw.ok /\ ~refused => told = Ok(raw.value)
  BY DEF extract_outcome
<1> HIDE DEF refused, told
<1>2. /\ ~raw.ok => ~told.ok
      /\ raw.ok /\ refused => ~told.ok
      /\ raw.ok /\ ~refused => told.ok /\ told.value = raw.value
  BY <1>1, Outcomes, Zenon
<1>3. (told.ok <=> raw.ok /\ ~refused) /\ (raw.ok /\ refused => told = Fail("InvalidTx")) /\ (told.ok => told.value = raw.value)
  BY <1>1, <1>2, Zenon
<1> QED
  BY <1>3 DEF told, refused

\* A value is read of an outcome that succeeded only.
LEMMA ValueOfSuccess == ASSUME NEW o, json(o).ok PROVE is_success(o)
<1>1. CASE o.status \in {"Empty", "Json"}
  BY <1>1 DEF is_success
<1>2. CASE o.status \notin {"Empty", "Json"}
  <2>1. \E e : result(o) = Fail(e)
    BY <1>2 DEF result
  <2>2. ~result(o).ok /\ result(o) # Ok("Empty")
    BY <2>1, Outcomes, Zenon
  <2>3. ~json(o).ok
    BY <2>2, Zenon DEF json
  <2> QED
    BY <2>3
<1> QED
  BY <1>1, <1>2

LEMMA OutcomesHonest == ASSUME input \in OutcomesGiven PROVE OutcomeHonest
<1> DEFINE final == input.final
<1> DEFINE raw == RawOutcome(input.present, final, input.receipt)
<1> DEFINE level == input.level
<1> DEFINE told == TransactionStatusQuery("u", level, Ok(raw))
<1> DEFINE readable == /\ input.present
                       /\ final.status = "Failure" => final.path[1] # "new"
                       /\ input.receipt # <<>> => input.receipt[1] = "ActionError"
<1> DEFINE refused == final.status = "Failure" /\ final.path[1] = "InvalidTxError"
<1>1. told = convert(level, raw)
  <2> HIDE DEF raw
  <2>1. Ok(raw).ok /\ Ok(raw).value = raw
    BY Outcomes, Zenon
  <2> QED
    BY <2>1 DEF TransactionStatusQuery
<1>2. /\ input.present \in BOOLEAN /\ final \in FinalStatuses
      /\ input.receipt \in {<<>>, <<"ActionError", "new">>, <<"InvalidTxError", "leaf">>}
  BY DEF OutcomesGiven
<1>3. /\ raw.ok <=> readable
      /\ raw.ok => raw.value.status = final.status
      /\ raw.ok /\ final.status = "Failure" => raw.value.error[1] = final.path[1]
  BY <1>2, RawReads
<1> HIDE DEF raw, told, readable, final
<1>4. CASE level \notin ExecutedLevels
  <2>1. told = Ok([status |-> "SendTxResponse", outcome |-> raw])
    BY <1>1, <1>4 DEF convert
  <2>2. told.ok /\ told.value = [status |-> "SendTxResponse", outcome |-> raw]
    BY <2>1, Outcomes, Zenon
  <2>3. told.ok /\ told.value.outcome = raw
    BY <2>2
  <2>4. told.ok /\ (told.value.outcome.ok <=> readable) /\ (readable => told.value.outcome.value.status = final.status)
    BY <1>3, <2>3, Zenon
  <2> QED
    BY <1>4, <2>4, Zenon DEF OutcomeHonest, raw, told, readable, final
<1>5. CASE level \in ExecutedLevels
  <2> DEFINE bad == raw.value.status = "Failure" /\ raw.value.error[1] = "InvalidTxError"
  <2>1. told = extract_outcome(raw)
    BY <1>1, <1>5 DEF convert
  <2>2. /\ told.ok <=> raw.ok /\ ~bad
        /\ raw.ok /\ bad => told = Fail("InvalidTx")
        /\ told.ok => told.value = raw.value
    BY <2>1, ExecutedOutcome
  <2>3. raw.ok => (bad <=> refused)
    BY <1>3
  <2> HIDE DEF bad, refused
  <2>4. /\ told.ok <=> readable /\ ~refused
        /\ readable /\ refused => told = Fail("InvalidTx")
    BY <1>3, <2>2, <2>3, Zenon
  <2>5. told.ok => told.value.status = final.status /\ (json(told.value).ok => is_success(told.value))
    BY <1>3, <2>2, ValueOfSuccess, Zenon
  <2> QED
    BY <1>5, <2>4, <2>5, Zenon DEF OutcomeHonest, raw, told, readable, refused, final
<1> QED
  BY <1>4, <1>5

\* What the client makes of an answer.
LEMMA ViewsHonest ==
    ASSUME Given("account") => input \in Balances,
           Given("outcome") => input \in OutcomesGiven,
           Given("view") => input \in ViewsGiven
    PROVE  ViewsAreHonest
<1>1. SpendableLeavesStorage
  <2>1. CASE Given("account")
    BY <2>1, StorageKept, Zenon
  <2>2. CASE ~Given("account")
    BY <2>2, Zenon DEF SpendableLeavesStorage
  <2> QED
    BY <2>1, <2>2
<1>2. UnknownErrorsStayLocal
  <2>1. CASE Given("outcome")
    BY <2>1, ErrorsLocal, Zenon
  <2>2. CASE ~Given("outcome")
    BY <2>2, Zenon DEF UnknownErrorsStayLocal
  <2> QED
    BY <2>1, <2>2
<1>3. ViewsConvertBack
  <2>1. CASE Given("view")
    BY <2>1, ViewsConverted, Zenon
  <2>2. CASE ~Given("view")
    BY <2>2, Zenon DEF ViewsConvertBack
  <2> QED
    BY <2>1, <2>2
<1>4. OutcomeHonest
  <2>1. CASE Given("outcome")
    BY <2>1, OutcomesHonest, Zenon
  <2>2. CASE ~Given("outcome")
    BY <2>2, Zenon DEF OutcomeHonest
  <2> QED
    BY <2>1, <2>2
<1> QED
  BY <1>1, <1>2, <1>3, <1>4, Zenon DEF ViewsAreHonest
-----------------------------------------------------------------------------
(* Everything the exercise gives. *)

\* The inductive invariant: what an input says it is, it is.
Typed ==
    \/ input \in Chains \/ input \in Clients \/ input \in Loads \/ input \in Rotations
    \/ input \in Questions \/ input \in BlockQuestions \/ input \in StatusTriples
    \/ input \in Documents \/ input \in Messages \/ input \in Traits
    \/ KeysGiven \/ TextsGiven \/ input \in Paths \/ input \in Phrases
    \/ input \in Addresses \/ input \in Logins \/ IsExchange(input)
    \/ input \in Shown \/ input \in DecimalReads \/ input \in UnitReads \/ input \in Sums
    \/ input \in Balances \/ input \in OutcomesGiven \/ input \in ViewsGiven
    \/ input.of = "none"

\* An input of a part is one the part is given.
LEMMA TypedOf ==
    ASSUME Typed
    PROVE  /\ Given("builder") => input \in Chains
           /\ Given("client") => input \in Clients
           /\ Given("signer") => input \in Loads
           /\ Given("rotation") => input \in Rotations
           /\ Given("query") => input \in Questions
           /\ Given("block") => input \in BlockQuestions
           /\ Given("status") => input \in StatusTriples
           /\ Given("signing") => input \in Documents
           /\ Given("message") => input \in Messages
           /\ Given("trait") => input \in Traits
           /\ Given("key") => KeysGiven
           /\ Given("text") => TextsGiven
           /\ Given("path") => input \in Paths
           /\ Given("phrase") => input \in Phrases
           /\ Given("url") => input \in Addresses
           /\ Given("login") => input \in Logins
           /\ Given("exchange") => IsExchange(input)
           /\ Given("amount") => input \in Shown
           /\ Given("decimal") => input \in DecimalReads
           /\ Given("units") => input \in UnitReads
           /\ Given("sum") => input \in Sums
           /\ Given("account") => input \in Balances
           /\ Given("outcome") => input \in OutcomesGiven
           /\ Given("view") => input \in ViewsGiven
<1>1. /\ KeysGiven => Given("key")
      /\ TextsGiven => Given("text")
  <2>1. ASSUME NEW a, NEW b, NEW c, input = [of |-> "key", secret |-> a, other |-> b, message |-> c] PROVE Given("key")
    BY <2>1 DEF Given
  <2>2. ASSUME NEW a, input = [of |-> "text", text |-> a] PROVE Given("text")
    BY <2>2 DEF Given
  <2> QED
    BY <2>1, <2>2, Zenon DEF KeysGiven, KeyGiven, TextsGiven, TextGiven
<1>2. /\ input \in Paths => Given("path")
      /\ input \in Phrases => Given("phrase")
      /\ input \in Addresses => Given("url")
      /\ input \in Logins => Given("login")
  BY DEF Paths, Phrases, Addresses, Logins, Given
<1>3. /\ input \in Chains => Given("builder")
      /\ input \in Clients => Given("client")
      /\ input \in Loads => Given("signer")
      /\ input \in Rotations => Given("rotation")
      /\ input \in Questions => Given("query")
      /\ input \in BlockQuestions => Given("block")
      /\ input \in StatusTriples => Given("status")
      /\ input \in Documents => Given("signing")
      /\ input \in Messages => Given("message")
      /\ input \in Traits => Given("trait")
  BY DEF Given, Chains, Clients, Loads, Rotations, Questions, BlockQuestions, StatusTriples, Documents, Messages, Traits
<1>4. IsExchange(input) => Given("exchange")
  <2> SUFFICES ASSUME IsExchange(input) PROVE Given("exchange")
    OBVIOUS
  <2>1. PICK fault \in Faults, n \in Nat, whole \in Nat : \E code, status, scheme :
            input = ExchangeOf(fault, code, status, scheme, n, whole)
    BY Zenon DEF IsExchange
  <2> QED
    <3>1. PICK code, status, scheme : input = ExchangeOf(fault, code, status, scheme, n, whole)
      BY <2>1
    <3>2. input.of = "exchange"
      BY <3>1 DEF ExchangeOf
    <3> QED
      BY <3>2 DEF Given
<1>5. /\ input \in Shown => Given("amount")
      /\ input \in DecimalReads => Given("decimal")
      /\ input \in UnitReads => Given("units")
      /\ input \in Sums => Given("sum")
  BY DEF Shown, DecimalReads, Decimals, UnitReads, UnitTexts, Sums, Given
<1>6. /\ input \in Balances => Given("account")
      /\ input \in OutcomesGiven => Given("outcome")
      /\ input \in ViewsGiven => Given("view")
  BY DEF Balances, OutcomesGiven, ViewsGiven, Given
<1> QED
  BY <1>1, <1>2, <1>3, <1>4, <1>5, <1>6 DEF Typed, Given

\* The digits the exercise gives.
LEMMA PartsAreDigits == \A p \in Parts : p \in Seq(0 .. 11)
<1> SUFFICES ASSUME NEW p \in Parts PROVE p \in Seq(0 .. 11)
  OBVIOUS
<1>1. PICK n \in 0 .. 3 : p \in [1 .. n -> {0, 1, 9, 10, Plus}]
  BY DEF Parts
<1>2. p \in [1 .. n -> 0 .. 11] /\ n \in Nat
  BY <1>1 DEF Plus
<1> QED
  BY <1>2

\* A function into a smaller set.
LEMMA Larger == ASSUME NEW S, NEW A, NEW B, A \subseteq B, NEW f \in [S -> A] PROVE f \in [S -> B]
OBVIOUS

\* A method with fields of smaller sets.
LEMMA Wider ==
    ASSUME NEW K, NEW N, NEW R, NEW C, NEW F, NEW A, NEW D, NEW K2, NEW N2, NEW R2, NEW C2, NEW F2, NEW A2, NEW D2,
           K \subseteq K2, N \subseteq N2, R \subseteq R2, C \subseteq C2, F \subseteq F2, A \subseteq A2, D \subseteq D2
    PROVE  [kind : K, name : N, receiver : R, call : C, formats : F, args : A, default : D] \subseteq
           [kind : K2, name : N2, receiver : R2, call : C2, formats : F2, args : A2, default : D2]
OBVIOUS

\* The methods a trait is written with.
LEMMA ItemsWritten == TraitItems \subseteq Items
<1>1. /\ {"fn"} \subseteq {"fn", "type"} /\ {1} \subseteq Nat
      /\ {"&self"} \subseteq {"none", "self", "&self", "&mut self"}
      /\ {"absent"} \subseteq {"absent", "plain", "payable", "other"}
      /\ {{}} \subseteq SUBSET {"json", "borsh"}
  OBVIOUS
<1>2. {<<>>} \subseteq {<<>>, <<"named">>, <<"pattern">>, <<"named", "named">>}
  OBVIOUS
<1>3. {FALSE} \subseteq BOOLEAN /\ {TRUE} \subseteq BOOLEAN
  BY Zenon
<1>4. [kind : {"fn"}, name : {1}, receiver : {"none", "self", "&self", "&mut self"},
       call : {"absent", "plain", "payable", "other"}, formats : SUBSET {"json", "borsh"},
       args : {<<>>, <<"named">>, <<"pattern">>, <<"named", "named">>}, default : {FALSE}] \subseteq Items
  BY <1>1, <1>3, Wider, Zenon DEF Items
<1>5. [kind : {"fn", "type"}, name : {1}, receiver : {"&self"}, call : {"absent"}, formats : {{}},
       args : {<<>>}, default : {TRUE}] \subseteq Items
  BY <1>1, <1>2, <1>3, Wider, Zenon DEF Items
<1> QED
  BY <1>4, <1>5, Zenon DEF TraitItems

\* And extended with.
LEMMA ItemsAdded == ASSUME NEW n \in Nat PROVE FurtherItems(n) \subseteq Items
<1>1. /\ {"fn"} \subseteq {"fn", "type"} /\ {n} \subseteq Nat
      /\ {"&self", "&mut self"} \subseteq {"none", "self", "&self", "&mut self"}
      /\ {"absent", "plain"} \subseteq {"absent", "plain", "payable", "other"}
      /\ {{}, {"borsh"}} \subseteq SUBSET {"json", "borsh"}
  OBVIOUS
<1>2. {<<"named">>} \subseteq {<<>>, <<"named">>, <<"pattern">>, <<"named", "named">>}
  OBVIOUS
<1>3. {FALSE} \subseteq BOOLEAN
  BY Zenon
<1>4. [kind : {"fn"}, name : {n}, receiver : {"&self", "&mut self"}, call : {"absent", "plain"},
       formats : {{}, {"borsh"}}, args : {<<"named">>}, default : {FALSE}] \subseteq Items
  BY <1>1, <1>2, <1>3, Wider, Zenon DEF Items
<1> QED
  BY <1>4, Zenon DEF FurtherItems

\* The views the exercise gives.
LEMMA TextWritten ==
    ASSUME NEW decodes \in BOOLEAN, NEW len \in Nat, NEW is \in {"a", "b"} PROVE Base64(decodes, len, is) \in ViewTexts
BY DEF Base64, ViewTexts

LEMMA SimpleAreFlat == SimpleViews \subseteq FlatViews
<1>1. TRUE \in BOOLEAN /\ FALSE \in BOOLEAN
  BY Zenon
<1>2. 32 \in Nat /\ 33 \in Nat /\ "a" \in {"a", "b"} /\ "b" \in {"a", "b"}
  OBVIOUS
<1>3. SomeTexts \subseteq ViewTexts /\ Base64(TRUE, 32, "a") \in ViewTexts
  <2>1. Base64(TRUE, 32, "a") \in ViewTexts
    BY <1>1, <1>2, TextWritten, Zenon
  <2>2. Base64(TRUE, 33, "b") \in ViewTexts
    BY <1>1, <1>2, TextWritten, Zenon
  <2>3. Base64(FALSE, 32, "a") \in ViewTexts
    BY <1>1, <1>2, TextWritten, Zenon
  <2> QED
    BY <2>1, <2>2, <2>3, Zenon DEF SomeTexts
<1>4. /\ DeployViews \cup EncodedViews \subseteq ViewKinds
      /\ PlainViews \cup DelegateViews \subseteq ViewKinds
      /\ {Base64(TRUE, 32, "a")} \subseteq ViewTexts
  BY <1>3, Zenon DEF ViewKinds
<1>5. ASSUME NEW kinds, kinds \subseteq ViewKinds, NEW texts, texts \subseteq ViewTexts
      PROVE  View(kinds, texts) \subseteq FlatViews
  BY <1>5 DEF View, FlatViews
<1> QED
  BY <1>3, <1>4, <1>5, Zenon DEF SimpleViews

LEMMA NestedAreFlat == SomeNested \subseteq Seq(FlatViews)
<1> SUFFICES ASSUME NEW inner \in SomeNested PROVE inner \in Seq(FlatViews)
  OBVIOUS
<1>1. PICK n \in 0 .. MaxNested : inner \in [1 .. n -> SimpleViews]
  BY DEF SomeNested
<1>2. inner \in [1 .. n -> FlatViews]
  BY <1>1, SimpleAreFlat, Larger, Zenon
<1>3. n \in Nat
  BY <1>1, ViewsAssumption
<1> QED
  BY <1>2, <1>3

\* The exercise keeps it.
LEMMA ExerciseTyped == ASSUME Typed, [Exercise]_input PROVE Typed'
<1>1. CASE StartChain
  BY <1>1 DEF StartChain, Typed, Chains
<1>2. CASE ExtendChain
  <2>1. input \in Chains
    BY <1>2, TypedOf DEF ExtendChain
  <2>2. PICK o \in Ops : input' = [input EXCEPT !.ops = Append(@, o)]
    BY <1>2 DEF ExtendChain
  <2>3. input.ops \in Seq(Ops)
    BY <2>1 DEF Chains
  <2>4. Append(input.ops, o) \in Seq(Ops)
    BY <2>3
  <2>5. input' \in Chains
    BY <2>1, <2>2, <2>4 DEF Chains
  <2> QED
    BY <2>5 DEF Typed
<1>3. CASE ConfigureClient
  <2>1. input' \in Clients
    BY <1>3 DEF ConfigureClient, Clients
  <2> QED
    BY <2>1 DEF Typed
<1>4. CASE LoadSigner
  <2>1. input' \in Loads
    BY <1>4 DEF LoadSigner, Loads
  <2> QED
    BY <2>1 DEF Typed
<1>5. CASE Rotate
  <2>1. PICK n \in 0 .. MaxSigners : \E signers \in [1 .. n -> LoneSigners] :
            input' = [of |-> "rotation", signers |-> signers]
    BY <1>5 DEF Rotate
  <2>2. PICK signers \in [1 .. n -> LoneSigners] : input' = [of |-> "rotation", signers |-> signers]
    BY <2>1
  <2>3. signers \in Seq(LoneSigners)
    BY <2>1, <2>2
  <2>4. input' \in Rotations
    BY <2>2, <2>3 DEF Rotations
  <2> QED
    BY <2>4 DEF Typed
<1>6. CASE AskQuery
  <2>1. input' \in Questions
    BY <1>6 DEF AskQuery, Questions
  <2> QED
    BY <2>1 DEF Typed
<1>7. CASE AskBlock
  <2>1. PICK n \in 0 .. MaxRefs : \E refs \in [1 .. n -> Refs] : input' = [of |-> "block", refs |-> refs]
    BY <1>7 DEF AskBlock
  <2>2. PICK refs \in [1 .. n -> Refs] : input' = [of |-> "block", refs |-> refs]
    BY <2>1
  <2>3. refs \in Seq(Refs)
    BY <2>1, <2>2
  <2>4. input' \in BlockQuestions
    BY <2>2, <2>3 DEF BlockQuestions
  <2> QED
    BY <2>4 DEF Typed
<1>8. CASE CompareStatuses
  <2>1. input' \in StatusTriples
    BY <1>8 DEF CompareStatuses, StatusTriples
  <2> QED
    BY <2>1 DEF Typed
<1>9. CASE SignDocument
  <2>1. input' \in Documents
    BY <1>9 DEF SignDocument, Documents
  <2> QED
    BY <2>1 DEF Typed
<1>10. CASE VerifyMessage
  <2>1. input' \in Messages
    BY <1>10 DEF VerifyMessage, Messages
  <2> QED
    BY <2>1 DEF Typed
<1>11. CASE ExpandTrait
  <2>1. PICK attr \in {"absent", "json", "borsh", "other"}, feature \in {"plain", "unsafe", "generic"},
             first \in TraitItems :
            input' = [of |-> "trait", attr |-> attr, trait |-> [feature |-> feature, items |-> <<first>>]]
    BY <1>11 DEF ExpandTrait
  <2>2. first \in Items
    BY ItemsWritten
  <2>3. <<first>> \in Seq(Items)
    BY <2>2
  <2>4. input' \in Traits
    BY <2>1, <2>3 DEF Traits
  <2> QED
    BY <2>4 DEF Typed
<1>12. CASE AddMethod
  <2>1. input \in Traits
    BY <1>12, TypedOf DEF AddMethod
  <2>2. PICK item \in FurtherItems(Len(input.trait.items) + 1) :
            input' = [input EXCEPT !.trait.items = Append(@, item)]
    BY <1>12 DEF AddMethod
  <2>3. input.trait.items \in Seq(Items)
    BY <2>1 DEF Traits
  <2>4. Len(input.trait.items) + 1 \in Nat
    BY <2>3
  <2>5. item \in Items
    BY <2>2, <2>4, ItemsAdded
  <2>6. Append(input.trait.items, item) \in Seq(Items)
    BY <2>3, <2>5
  <2>7. input' \in Traits
    BY <2>1, <2>2, <2>6 DEF Traits
  <2> QED
    BY <2>7 DEF Typed
<1>13. CASE MakeKey
  <2>1. KeysGiven'
    BY <1>13, Zenon DEF MakeKey, KeysGiven, KeyGiven
  <2> QED
    BY <2>1 DEF Typed
<1>14. CASE ReadText
  <2>1. TextsGiven'
    BY <1>14, Zenon DEF ReadText, TextsGiven, TextGiven
  <2> QED
    BY <2>1 DEF Typed
<1>15. CASE ReadPath
  <2>1. PICK n \in 0 .. MaxPath : \E path \in [1 .. n -> PathTokens] : input' = [of |-> "path", path |-> path]
    BY <1>15 DEF ReadPath
  <2>2. PICK path \in [1 .. n -> PathTokens] : input' = [of |-> "path", path |-> path]
    BY <2>1
  <2>3. path \in Seq(PathTokens)
    BY <2>1, <2>2
  <2>4. input' \in Paths
    BY <2>2, <2>3 DEF Paths
  <2> QED
    BY <2>4 DEF Typed
<1>16. CASE MakePhrase
  <2>1. input' \in Phrases
    BY <1>16 DEF MakePhrase
  <2> QED
    BY <2>1 DEF Typed
<1>17. CASE ShowAmount \/ ReadAmount \/ ReadUnits \/ AddAmounts
  <2>1. CASE ShowAmount
    <3>1. input' \in Shown
      BY <2>1 DEF ShowAmount, Shown
    <3> QED
      BY <3>1 DEF Typed
  <2>2. CASE ReadAmount
    <3>1. PICK n \in 1 .. 2, decimals \in 0 .. MaxDecimals, build \in Builds : \E text \in [1 .. n -> Parts] :
              input' = [of |-> "decimal", text |-> text, decimals |-> decimals, build |-> build]
      BY <2>2 DEF ReadAmount
    <3>2. PICK text \in [1 .. n -> Parts] :
              input' = [of |-> "decimal", text |-> text, decimals |-> decimals, build |-> build]
      BY <3>1
    <3>3. text \in Seq(Seq(0 .. 11)) /\ Len(text) \in {1, 2}
      <4>1. Parts \subseteq Seq(0 .. 11)
        BY PartsAreDigits
      <4>2. text \in [1 .. n -> Seq(0 .. 11)]
        BY <3>2, <4>1, Larger, Zenon
      <4>3. n \in Nat
        BY <3>1
      <4>4. text \in Seq(Seq(0 .. 11)) /\ Len(text) = n
        BY <4>2, <4>3
      <4> QED
        BY <3>1, <4>4
    <3>4. input' \in Decimals /\ input'.text = text
      BY <3>1, <3>2, <3>3 DEF Decimals
    <3>5. input' \in DecimalReads
      BY <3>3, <3>4 DEF DecimalReads
    <3> QED
      BY <3>5 DEF Typed
  <2>3. CASE ReadUnits
    <3>1. PICK n \in 1 .. 3, unit \in Units : \E text \in [1 .. n -> {p \in Parts : Len(p) < 3 \/ n < 3}] :
              input' = [of |-> "units", text |-> text, unit |-> unit]
      BY <2>3 DEF ReadUnits
    <3>2. PICK text \in [1 .. n -> {p \in Parts : Len(p) < 3 \/ n < 3}] :
              input' = [of |-> "units", text |-> text, unit |-> unit]
      BY <3>1
    <3>3. text \in Seq(Seq(0 .. 11)) /\ Len(text) \in 1 .. 3
      <4>1. {p \in Parts : Len(p) < 3 \/ n < 3} \subseteq Seq(0 .. 11)
        BY PartsAreDigits
      <4>2. text \in [1 .. n -> Seq(0 .. 11)]
        BY <3>2, <4>1, Larger, Zenon
      <4>3. n \in Nat
        BY <3>1
      <4>4. text \in Seq(Seq(0 .. 11)) /\ Len(text) = n
        BY <4>2, <4>3
      <4> QED
        BY <3>1, <4>4
    <3>4. input' \in UnitTexts /\ input'.text = text
      BY <3>1, <3>2, <3>3 DEF UnitTexts
    <3>5. input' \in UnitReads
      BY <3>3, <3>4 DEF UnitReads
    <3> QED
      BY <3>5 DEF Typed
  <2>4. CASE AddAmounts
    <3>1. PICK a \in [raw : SomeRaw, decimals : {2, 3}, symbol : {"S", "T"}],
               b \in [raw : SomeRaw, decimals : {2, 3}, symbol : {"S", "T"}] : input' = [of |-> "sum", a |-> a, b |-> b]
      BY <2>4 DEF AddAmounts
    <3>2. SomeRaw \subseteq 0 .. Modulus - 1
      BY AmountsAssumption DEF SomeRaw
    <3>3. ASSUME NEW x \in [raw : SomeRaw, decimals : {2, 3}, symbol : {"S", "T"}] PROVE x \in SomeAmounts
      <4>1. x.raw \in 0 .. Modulus - 1
        BY <3>2
      <4> QED
        BY <4>1 DEF SomeAmounts
    <3>4. input' \in Sums
      BY <3>1, <3>3, Zenon DEF Sums
    <3> QED
      BY <3>4 DEF Typed
  <2> QED
    BY <1>17, <2>1, <2>2, <2>3, <2>4
<1>18. CASE ViewAccount
  <2>1. PICK amount \in 0 .. MaxBalance, locked \in 0 .. MaxBalance, usage \in 0 .. MaxBalance :
            input' = [of |-> "account", view |-> [amount |-> amount, locked |-> locked, storage_usage |-> usage]]
    BY <1>18 DEF ViewAccount
  <2>2. amount \in Nat /\ locked \in Nat /\ usage \in Nat
    BY <2>1, ViewsAssumption
  <2>3. input' \in Balances
    BY <2>1, <2>2 DEF Balances
  <2> QED
    BY <2>3 DEF Typed
<1>19. CASE ReadOutcome
  <2>1. PICK i \in DOMAIN WaitLevels, present \in BOOLEAN, final \in FinalStatuses,
             receipt \in {<<>>, <<"ActionError", "new">>, <<"InvalidTxError", "leaf">>} :
            input' = [of |-> "outcome", level |-> WaitLevels[i], present |-> present, final |-> final,
                      receipt |-> receipt]
    BY <1>19, Zenon DEF ReadOutcome
  <2>2. WaitLevels[i] \in {WaitLevels[k] : k \in DOMAIN WaitLevels}
    BY <2>1
  <2> DEFINE level == WaitLevels[i]
  <2> DEFINE levels == {WaitLevels[k] : k \in DOMAIN WaitLevels}
  <2> DEFINE receipts == {<<>>, <<"ActionError", "new">>, <<"InvalidTxError", "leaf">>}
  <2>3. level \in levels /\ receipt \in receipts
    BY <2>1, <2>2
  <2>4. OutcomesGiven = [of : {"outcome"}, level : levels, present : BOOLEAN, final : FinalStatuses, receipt : receipts]
    BY DEF OutcomesGiven
  <2> HIDE DEF level, levels, receipts
  <2>5. [of |-> "outcome", level |-> level, present |-> present, final |-> final, receipt |-> receipt]
           \in OutcomesGiven
    BY <2>1, <2>3, <2>4
  <2>6. input' \in OutcomesGiven
    BY <2>1, <2>5, Zenon DEF level
  <2> QED
    BY <2>6 DEF Typed
<1>20. CASE ViewAction
  <2>1. PICK v \in SimpleViews, inner \in SomeNested :
            /\ v.kind \notin DelegateViews => inner = <<>>
            /\ input' = [of |-> "view", view |-> [v EXCEPT !.inner = inner]]
    BY <1>20 DEF ViewAction
  <2>2. v \in FlatViews /\ inner \in Seq(FlatViews)
    BY <2>1, SimpleAreFlat, NestedAreFlat
  <2> DEFINE given == [v EXCEPT !.inner = inner]
  <2>3. given \in [kind : ViewKinds, text : ViewTexts, inner : Seq(FlatViews)] /\ given.kind = v.kind /\ given.inner = inner
    BY <2>2 DEF FlatViews
  <2> HIDE DEF given
  <2>4. input' = [of |-> "view", view |-> given]
    BY <2>1 DEF given
  <2>5. input' \in ViewsGiven
    BY <2>1, <2>3, <2>4 DEF ViewsGiven
  <2> QED
    BY <2>5 DEF Typed
<1>21. CASE SplitUrl
  <2>1. PICK scheme \in {"http", "https", "ftp", "missing"}, n \in 0 .. MaxUrl : \E rest \in [1 .. n -> UrlBytes] :
            input' = [of |-> "url", scheme |-> scheme, rest |-> rest]
    BY <1>21 DEF SplitUrl
  <2>2. PICK rest \in [1 .. n -> UrlBytes] : input' = [of |-> "url", scheme |-> scheme, rest |-> rest]
    BY <2>1
  <2>3. UrlBytes \subseteq Nat
    BY DEF UrlBytes, Slash, Query, Hash, At, Colon
  <2>4. rest \in Seq(Nat)
    <3>1. rest \in [1 .. n -> Nat]
      BY <2>2, <2>3, Larger, Zenon
    <3>2. n \in Nat
      BY <2>1, WasiAssumption
    <3> QED
      BY <3>1, <3>2
  <2>5. input' \in Addresses
    BY <2>1, <2>2, <2>4 DEF Addresses
  <2> QED
    BY <2>5 DEF Typed
<1>22. CASE Login
  <2>1. Credentials \subseteq Seq(0 .. 255)
    <3>1. {At, Colon, Percent, Slash, 52, 97} \subseteq 0 .. 255
      BY DEF At, Colon, Percent, Slash
    <3> DEFINE Chars == {At, Colon, Percent, Slash, 52, 97}
    <3>2. Credentials = UNION {[1 .. n -> Chars] : n \in 0 .. 2}
      BY DEF Credentials
    <3> HIDE DEF Chars
    <3>3. ASSUME NEW n \in 0 .. 2, NEW s \in [1 .. n -> Chars] PROVE s \in Seq(0 .. 255)
      <4>1. s \in [1 .. n -> 0 .. 255]
        <5>1. Chars \subseteq 0 .. 255
          BY <3>1 DEF Chars
        <5> QED
          BY <5>1, Larger, Zenon
      <4>2. n \in Nat
        OBVIOUS
      <4> QED
        BY <4>1, <4>2
    <3> QED
      BY <3>2, <3>3
  <2>2. PICK user \in Credentials, pass \in Credentials : input' = [of |-> "login", user |-> user, pass |-> pass]
    BY <1>22, Zenon DEF Login
  <2>3. user \in Seq(0 .. 255) /\ pass \in Seq(0 .. 255)
    BY <2>1, <2>2, Zenon
  <2>4. input' \in Logins
    BY <2>2, <2>3 DEF Logins
  <2> QED
    BY <2>4 DEF Typed
<1>23. CASE Exchange
  <2>1. PICK fault \in Refusals \cup CodedCalls \cup Consumed \cup Broken \cup {"none"},
             code \in DeniedCodes \cup ReachCodes, status \in {200, 429, 500},
             good \in BOOLEAN, n \in 0 .. MaxChunks, whole \in 0 .. MaxChunks :
                /\ IF fault = "read" THEN n < whole ELSE n = whole
                /\ input' = [of |-> "exchange", url |-> [scheme |-> IF good THEN "http" ELSE "ftp", rest |-> <<104>>],
                             whole |-> whole,
                             host |-> [fault |-> fault, code |-> code, status |-> status,
                                       chunks |-> [i \in 1 .. n |-> <<i>>]]]
    BY <1>23, Zenon DEF Exchange
  <2>2. n \in Nat /\ whole \in Nat
    BY <2>1, WasiAssumption
  <2> DEFINE scheme == IF good THEN "http" ELSE "ftp"
  <2>3. input' = ExchangeOf(fault, code, status, scheme, n, whole) /\ fault \in Faults
    BY <2>1, Zenon DEF ExchangeOf, Faults
  <2> HIDE DEF scheme
  <2>4. (fault = "read" => n < whole) /\ (fault # "read" => n = whole)
    BY <2>1
  <2>5. IsExchange(input')
    BY <2>2, <2>3, <2>4, ExchangeAsked, ZenonT(30)
  <2> QED
    BY <2>5 DEF Typed
<1>24. CASE UNCHANGED input
  <2>1. (KeysGiven => KeysGiven') /\ (TextsGiven => TextsGiven')
    BY <1>24, Zenon DEF KeysGiven, KeyGiven, TextsGiven, TextGiven
  <2> QED
    BY <1>24, <2>1 DEF Typed
<1> QED
  BY <1>1, <1>2, <1>3, <1>4, <1>5, <1>6, <1>7, <1>8, <1>9, <1>10, <1>11, <1>12, <1>13, <1>14, <1>15, <1>16,
     <1>17, <1>18, <1>19, <1>20, <1>21, <1>22, <1>23, <1>24
  DEF Exercise

\* Every input the exercise reaches is typed.
LEMMA AlwaysTyped == ValuesSpec => []Typed
<1>1. Untouched => Typed
  BY DEF Untouched, Typed
<1>2. Typed /\ [Exercise]_input => Typed'
  BY ExerciseTyped
<1> QED
  BY <1>1, <1>2, PTL DEF ValuesSpec

\* TransactionBuilder: for every set of accounts and every chain of calls, of
\* any length, the transaction is the one the calls describe.
THEOREM ChainsBuildWhatWasWritten == ValuesSpec => []BuildsWhatWasWritten
<1>1. Typed => BuildsWhatWasWritten
  BY TypedOf, ChainsBuild
<1> QED
  BY <1>1, AlwaysTyped, PTL

\* Signing: for every account length the protocol admits, every content and
\* every clock, what is signed in one domain is of no use in another and is
\* read back as written, and a message is accepted as signed and in time.
THEOREM DocumentsSignedForOneUse == ValuesSpec => []SignedForOneUse
<1>1. Typed => SignedForOneUse
  BY TypedOf, DocumentsSigned
<1> QED
  BY <1>1, AlwaysTyped, PTL

\* Client: for every set of urls and chain ids and rotations of any length, a
\* client and its signers are what was asked for, or an error.
THEOREM ClientsConfiguredAsAsked == ValuesSpec => []ConfiguredAsAsked
<1>1. Typed => ConfiguredAsAsked
  BY TypedOf, ClientsConfigured
<1> QED
  BY <1>1, AlwaysTyped, PTL

\* ContractMacro: for traits of any number of methods, the generated methods
\* make the requests the trait declares, called or composed.
THEOREM TraitsGeneratedAsDeclared == ValuesSpec => []GeneratedAsDeclared
<1>1. Typed => GeneratedAsDeclared
  BY TypedOf, TraitsGenerated
<1> QED
  BY <1>1, AlwaysTyped, PTL

\* Queries: for every answer of a node, every set of block ids and any number
\* of references, no failure reads as absence, the error names what was asked,
\* and a request is about the block it was told.
THEOREM QuestionsAlwaysAnswered == ValuesSpec => []AnswersTheQuestion
<1>1. Typed => AnswersTheQuestion
  BY TypedOf, QuestionsAnswered
<1> QED
  BY <1>1, AlwaysTyped, PTL

\* Keys: for every message, every path and every text of a key, a key, its
\* handle and its signatures are read back as they are, an accepted key signs
\* and verifies, verifies its own signatures only, and a phrase derives the key
\* of its words, passphrase and whole path.
THEOREM KeysAlwaysKeepTheirIdentity == ValuesSpec => []KeysKeepTheirIdentity
<1>1. Typed => KeysKeepTheirIdentity
  BY TypedOf, KeysIdentical
<1> QED
  BY <1>1, AlwaysTyped, PTL

\* WasiTransport: for every URL, every user and password of any bytes and any
\* number of chunks, a request goes where its URL says, with the credentials it
\* has, and comes back whole or as an error that is asked again only if it may
\* come out otherwise.
THEOREM ExchangesAlwaysWhole == ValuesSpec => []ExchangesAreWhole
<1>1. Typed => ExchangesAreWhole
  BY TypedOf, WholeExchanges
<1> QED
  BY <1>1, AlwaysTyped, PTL

\* Amounts: for every width of the integers, every number of decimals and
\* digits of any length, an amount is written so that it reads back, a text is
\* read as exactly the number its digits make or refused, and sums neither wrap
\* nor mix tokens.
THEOREM AmountsAlwaysExact == ValuesSpec => []AmountsAreExact
<1>1. Typed => AmountsAreExact
  BY TypedOf, AmountsExact
<1> QED
  BY <1>1, AlwaysTyped, PTL

\* Views: for every balance, every path of errors, known or not, every status
\* and level, and every view of an action, what the client makes of a node's
\* answer claims no more than the answer.
THEOREM ViewsAlwaysHonest == ValuesSpec => []ViewsAreHonest
<1>1. Typed => ViewsAreHonest
  BY TypedOf, ViewsHonest
<1> QED
  BY <1>1, AlwaysTyped, PTL
=============================================================================
