--------------------------- MODULE OnceCellsProofs ---------------------------
(***************************************************************************)
(* OnceCells for any number of tasks, token clients and upgrades.          *)
(***************************************************************************)
EXTENDS OnceCells, TLAPS

\* An initialiser runs with the permit of an empty cell; a call that has
\* gone on to its second request has found the cell filled.
Control(t) ==
    /\ pc[t] = "init" => permit[call[t].cell] = t /\ cell[call[t].cell] = Empty
    /\ pc[t] = "view" => call[t].method = "balance_of" /\ cell[call[t].cell] # Empty
    /\ pc[t] # "done" => result[t].status # "ok"

\* An amount carries the metadata of its client's cell, which is filled.
Cached(t) ==
    pc[t] = "done" /\ result[t].status = "ok" /\ call[t].method = "balance_of" =>
        cell[call[t].cell] # Empty /\ result[t].metadata = cell[call[t].cell]

CellInv == TypeOK /\ CleanupMatches /\ \A t \in Tasks : Control(t) /\ Cached(t)
-----------------------------------------------------------------------------
\* Every method, and the first permit it asks for, is about a cell.
LEMMA SandboxIsCell == Sandbox \in Cells /\ \A client \in Clients :
                           /\ <<client, "metadata">> \in Cells
                           /\ <<client, "bounds">> \in Cells
  BY DEF Cells, Sandbox

\* Initially all cells are empty and no handler is registered.
LEMMA CellInit == Init => CellInv
<1> SUFFICES ASSUME Init PROVE CellInv
  OBVIOUS
<1>1. NoCall \in [method : Methods, cell : Cells]
  BY SandboxIsCell DEF NoCall, Methods
<1>2. Outcome("pending") \in Outcomes /\ Outcome("pending").status = "pending"
  BY SizesAssumption DEF Outcome, Outcomes, Results
<1>3. TypeOK
  BY <1>1, <1>2, SizesAssumption DEF Init, TypeOK, Empty
<1>4. CleanupMatches
  BY SandboxIsCell DEF Init, CleanupMatches
<1>5. \A t \in Tasks : Control(t) /\ Cached(t)
  BY <1>2 DEF Init, Control, Cached
<1> QED  BY <1>3, <1>4, <1>5 DEF CellInv

\* The outcomes the methods return are outcomes.
LEMMA OutcomeTypes ==
    /\ \A s \in Results : Outcome(s) \in Outcomes /\ Outcome(s).status # "ok"
    /\ \A v \in Nat : Value(v) \in Outcomes /\ Value(v).metadata = v
    /\ \A raw \in Balances, v \in Nat :
          [status |-> "ok", raw |-> raw, metadata |-> v] \in Outcomes
  BY SizesAssumption DEF Outcome, Outcomes, Results, Value

\* A call that starts.
LEMMA CellCall ==
    ASSUME CellInv, NEW t \in Tasks, NEW method \in Methods, NEW c \in Cells, Call(t, method, c)
    PROVE  CellInv'
<1> USE DEF CellInv
<1>1. TypeOK'
  BY DEF Call, TypeOK
<1>2. CleanupMatches'
  BY DEF Call, CleanupMatches
<1>3. \A u \in Tasks : Control(u)' /\ Cached(u)'
  BY DEF Call, TypeOK, Control, Cached
<1> QED  BY <1>1, <1>2, <1>3

\* A task that finds the value.
LEMMA CellTakeValue ==
    ASSUME CellInv, NEW t \in Tasks, TakeValue(t)
    PROVE  CellInv'
<1> USE DEF CellInv
<1>1. call[t].cell \in Cells /\ cell[call[t].cell] \in Nat
  BY DEF TypeOK
<1>2. TypeOK'
  <2>1. result' \in [Tasks -> Outcomes] /\ pc' \in [Tasks -> {"idle", "enter", "init", "view", "done"}]
    <3>1. Value(cell[call[t].cell]) \in Outcomes
      BY <1>1, OutcomeTypes
    <3> QED  BY <3>1 DEF TakeValue, Resume, Return, TypeOK
  <2>2. \A u \in Tasks : pc[u] = "init" => pc'[u] = "init"
    BY DEF TakeValue, Resume, Return, TypeOK
  <2> QED  BY <2>1, <2>2 DEF TakeValue, TypeOK
<1>3. CleanupMatches'
  BY DEF TakeValue, CleanupMatches
<1>4. \A u \in Tasks : Control(u)' /\ Cached(u)'
  BY DEF TakeValue, Resume, Return, TypeOK, Control, Cached
<1> QED  BY <1>2, <1>3, <1>4

\* A task that gets the permit.
LEMMA CellAcquire ==
    ASSUME CellInv, NEW t \in Tasks, Acquire(t)
    PROVE  CellInv'
<1> USE DEF CellInv
<1>1. call[t].cell \in Cells
  BY DEF TypeOK
<1>2. TypeOK'
  BY <1>1, NamesAssumption DEF Acquire, GetPermit, TypeOK
<1>3. CleanupMatches'
  BY DEF Acquire, GetPermit, CleanupMatches
<1>4. \A u \in Tasks : Control(u)' /\ Cached(u)'
  BY <1>1, NamesAssumption DEF Acquire, GetPermit, TypeOK, Control, Cached
<1> QED  BY <1>2, <1>3, <1>4

\* The end of a successful initialiser, for either kind of cell.
LEMMA CellFilled ==
    ASSUME CellInv, NEW t \in Tasks, pc[t] = "init", NEW v \in Nat, v # Empty,
           cell' = [cell EXCEPT ![call[t].cell] = v], ReleasePermit(t), Resume(t, v),
           UNCHANGED <<call, version>>, containers' \in Nat, registered' \in Nat
    PROVE  TypeOK' /\ \A u \in Tasks : Control(u)' /\ Cached(u)'
<1> USE DEF CellInv
<1>1. call[t].cell \in Cells /\ permit[call[t].cell] = t /\ cell[call[t].cell] = Empty
  BY DEF TypeOK, Control
<1>2. result' \in [Tasks -> Outcomes] /\ pc' \in [Tasks -> {"idle", "enter", "init", "view", "done"}]
  BY OutcomeTypes DEF Resume, Return, TypeOK
<1>3. \A u \in Tasks \ {t} : pc'[u] = pc[u] /\ result'[u] = result[u]
  BY DEF Resume, Return, TypeOK
<1>4. permit' = [permit EXCEPT ![call[t].cell] = Free]
  BY DEF ReleasePermit
<1>5. \A c \in Cells : permit'[c] # Free => c # call[t].cell /\ permit'[c] = permit[c] /\ permit[c] # t
  BY <1>1, <1>4 DEF TypeOK
<1>6. TypeOK'
  <2>1. permit' \in [Cells -> Tasks \cup {Free}] /\ cell' \in [Cells -> Nat]
    BY <1>4 DEF TypeOK
  <2>2. \A c \in Cells : permit'[c] # Free => pc'[permit'[c]] = "init" /\ call'[permit'[c]].cell = c
    BY <1>3, <1>5 DEF TypeOK
  <2> QED  BY <1>2, <2>1, <2>2 DEF TypeOK
<1>7. \A u \in Tasks \ {t} : Control(u)' /\ Cached(u)'
  <2> TAKE u \in Tasks \ {t}
  <2>1. call[u].cell \in Cells /\ pc'[u] = pc[u] /\ result'[u] = result[u] /\ call' = call
    BY <1>3 DEF TypeOK
  <2>2. pc[u] = "init" => call[u].cell # call[t].cell
    BY <1>1 DEF Control
  <2>3. cell[call[u].cell] # Empty => cell'[call[u].cell] = cell[call[u].cell]
    BY <1>1, <2>1 DEF TypeOK
  <2>4. pc[u] = "init" => permit'[call[u].cell] = u /\ cell'[call[u].cell] = Empty
    BY <1>1, <1>4, <2>1, <2>2 DEF Control, TypeOK
  <2> QED  BY <2>1, <2>3, <2>4 DEF Control, Cached
<1>8. Control(t)' /\ Cached(t)'
  BY <1>1, OutcomeTypes DEF Resume, Return, TypeOK, Control, Cached
<1> QED  BY <1>6, <1>7, <1>8

\* A call that returns without touching a cell, and gives back a permit it
\* may hold.
LEMMA CellReturns ==
    ASSUME CellInv, NEW t \in Tasks, pc[t] \in {"enter", "init", "view"},
           NEW outcome \in Outcomes, Return(t, outcome),
           permit' = [c \in Cells |-> IF permit[c] = t THEN Free ELSE permit[c]],
           UNCHANGED <<cell, call, version, containers, registered>>,
           outcome.status = "ok" /\ call[t].method = "balance_of" =>
               cell[call[t].cell] # Empty /\ outcome.metadata = cell[call[t].cell]
    PROVE  CellInv'
<1> USE DEF CellInv
<1>1. \A u \in Tasks \ {t} : pc'[u] = pc[u] /\ result'[u] = result[u]
  BY DEF Return, TypeOK
<1>2. pc'[t] = "done" /\ result'[t] = outcome
  BY DEF Return, TypeOK
<1>3. TypeOK'
  BY <1>1 DEF Return, TypeOK
<1>4. CleanupMatches'
  BY DEF CleanupMatches
<1>5. \A u \in Tasks \ {t} : Control(u)' /\ Cached(u)'
  BY <1>1, NamesAssumption DEF TypeOK, Control, Cached
<1>6. Control(t)' /\ Cached(t)'
  BY <1>2 DEF Control, Cached
<1> QED  BY <1>3, <1>4, <1>5, <1>6

\* Outside its initialiser a task holds no permit; in it, only its cell's.
LEMMA PermitOfTask ==
    ASSUME CellInv, NEW t \in Tasks
    PROVE  /\ pc[t] # "init" => permit = [c \in Cells |-> IF permit[c] = t THEN Free ELSE permit[c]]
           /\ pc[t] = "init" => [permit EXCEPT ![call[t].cell] = Free]
                                  = [c \in Cells |-> IF permit[c] = t THEN Free ELSE permit[c]]
<1> USE DEF CellInv
<1>1. \A c \in Cells : permit[c] = t => pc[t] = "init" /\ call[t].cell = c
  BY NamesAssumption DEF TypeOK
<1>2. permit \in [Cells -> Tasks \cup {Free}] /\ call[t].cell \in Cells
  BY DEF TypeOK
<1>3. CASE pc[t] # "init"
  BY <1>1, <1>2, <1>3
<1>4. CASE pc[t] = "init"
  BY <1>1, <1>2, <1>4 DEF Control
<1> QED  BY <1>3, <1>4

\* Every step keeps the invariant.
LEMMA CellStep == CellInv /\ [Next]_vars => CellInv'
<1> SUFFICES ASSUME CellInv, [Next]_vars PROVE CellInv'
  OBVIOUS
<1>1. ASSUME NEW t \in Tasks, Start(t) PROVE CellInv'
  BY <1>1, CellCall, SandboxIsCell
  DEF Start, metadata, balance_of, storage_balance_bounds, shared, Methods
<1>2. ASSUME NEW t \in Tasks, NEW v \in 1 .. version, FetchOk(t, v) PROVE CellInv'
  <2>0. v \in Nat /\ v # Empty /\ containers' \in Nat /\ registered' \in Nat
    BY <1>2 DEF FetchOk, CellInv, TypeOK, Empty
  <2>1. TypeOK' /\ \A u \in Tasks : Control(u)' /\ Cached(u)'
    BY <1>2, <2>0, CellFilled DEF FetchOk
  <2>2. call[t].cell # Sandbox /\ call[t].cell \in Cells
    BY <1>2 DEF FetchOk, CellInv, TypeOK
  <2>3. CleanupMatches'
    BY <1>2, <2>2, SandboxIsCell DEF FetchOk, CellInv, TypeOK, CleanupMatches
  <2> QED  BY <2>1, <2>3 DEF CellInv
<1>3. ASSUME NEW t \in Tasks, StartOk(t) PROVE CellInv'
  <2>1. containers + 1 \in Nat /\ containers + 1 # Empty /\ registered + 1 \in Nat
    BY DEF CellInv, TypeOK, Empty
  <2>2. TypeOK' /\ \A u \in Tasks : Control(u)' /\ Cached(u)'
    BY <1>3, <2>1, CellFilled DEF StartOk
  <2>3. cell[Sandbox] = Empty
    BY <1>3 DEF StartOk, CellInv, Control
  <2>4. CleanupMatches'
    BY <1>3, <2>1, <2>3, SandboxIsCell DEF StartOk, CellInv, TypeOK, CleanupMatches
  <2> QED  BY <2>2, <2>4 DEF CellInv
<1>4. ASSUME NEW t \in Tasks, InitFails(t) PROVE CellInv'
  <2>1. PICK s \in Results : Return(t, Outcome(s))
    BY <1>4 DEF InitFails, Results
  <2> QED  BY <1>4, <2>1, CellReturns, OutcomeTypes, PermitOfTask DEF InitFails, ReleasePermit
<1>5. ASSUME NEW t \in Tasks, ViewFails(t) PROVE CellInv'
  BY <1>5, CellReturns, OutcomeTypes, PermitOfTask DEF ViewFails, Results
<1>6. ASSUME NEW t \in Tasks, NEW raw \in Balances, ViewOk(t, raw) PROVE CellInv'
  <2> DEFINE amount == [status |-> "ok", raw |-> raw, metadata |-> cell[call[t].cell]]
  <2>1. cell[call[t].cell] \in Nat /\ cell[call[t].cell] # Empty
    BY <1>6 DEF ViewOk, CellInv, TypeOK, Control
  <2>2. amount \in Outcomes /\ amount.metadata = cell[call[t].cell]
    BY <2>1, OutcomeTypes
  <2>3. Return(t, amount) /\ pc[t] = "view" /\ UNCHANGED <<cell, permit, call, version, containers, registered>>
    BY <1>6 DEF ViewOk
  <2> HIDE DEF amount
  <2> QED  BY <2>1, <2>2, <2>3, CellReturns, PermitOfTask
<1>7. ASSUME NEW t \in Tasks, DropFuture(t) PROVE CellInv'
  BY <1>7, CellReturns, OutcomeTypes DEF DropFuture, Results
<1>8. CASE Upgrade
  <2>1. version' \in 1 .. MaxUpgrades + 1
    BY <1>8, SizesAssumption DEF Upgrade, CellInv, TypeOK
  <2> QED  BY <1>8, <2>1 DEF Upgrade, CellInv, TypeOK, CleanupMatches, Control, Cached
<1>9. CASE UNCHANGED vars
  BY <1>9 DEF vars, CellInv, TypeOK, CleanupMatches, Control, Cached
<1> QED
  BY <1>1, <1>2, <1>3, <1>4, <1>5, <1>6, <1>7, <1>8, <1>9, CellTakeValue, CellAcquire
  DEF Next, Progress, Terminated

\* The invariant holds throughout.
LEMMA CellInvariant == Spec => []CellInv
  BY CellInit, CellStep, PTL DEF Spec
-----------------------------------------------------------------------------
\* Every variable keeps its type, and a permit is held only by a task inside
\* the initialiser of that cell.
THEOREM TypeCorrect == Spec => []TypeOK
  BY CellInvariant, PTL DEF CellInv

\* get_or_try_init lets one initialiser run per cell, for any number of
\* concurrent first calls, failures and dropped futures.
THEOREM InitializersExclude == Spec => []OneInitializer
<1>1. CellInv => OneInitializer
  BY DEF CellInv, Control, OneInitializer
<1> QED  BY <1>1, CellInvariant, PTL

\* The cleanup of the shared sandbox is registered exactly once, together
\* with the only container that is ever started successfully.
THEOREM SandboxStartedOnce == Spec => []CleanupMatches
  BY CellInvariant, PTL DEF CellInv

\* Amounts of one token client can be added whatever the contract's metadata
\* did in the meantime.
THEOREM AmountsOfAClientAddUp == Spec => []AmountsAddUp
<1>1. ASSUME CellInv PROVE AmountsAddUp
  <2> SUFFICES ASSUME NEW client \in Clients, NEW x \in Amounts(client), NEW y \in Amounts(client),
                      x.raw + y.raw < U128
               PROVE  checked_add(x, y) # {}
    BY DEF AmountsAddUp
  <2>1. PICK t \in Tasks : /\ x = FtAmount(result[t].raw, result[t].metadata)
                           /\ result[t].status = "ok"
                           /\ call[t] = [method |-> "balance_of", cell |-> <<client, "metadata">>]
    BY DEF Amounts
  <2>2. PICK u \in Tasks : /\ y = FtAmount(result[u].raw, result[u].metadata)
                           /\ result[u].status = "ok"
                           /\ call[u] = [method |-> "balance_of", cell |-> <<client, "metadata">>]
    BY DEF Amounts
  <2>3. x.metadata = cell[<<client, "metadata">>] /\ y.metadata = cell[<<client, "metadata">>]
    BY <1>1, <2>1, <2>2 DEF CellInv, Control, Cached, FtAmount
  <2>4. result[t].raw \in Nat /\ result[u].raw \in Nat /\ U128 \in Nat
    BY <1>1, SizesAssumption DEF CellInv, TypeOK, Outcomes
  <2>5. x.raw \in Nat /\ y.raw \in Nat
    BY <2>1, <2>2, <2>4 DEF FtAmount
  <2> QED  BY <2>3, <2>4, <2>5 DEF checked_add
<1> QED  BY <1>1, CellInvariant, PTL

\* A cached value is never replaced.
THEOREM CachedForGood == Spec => WriteOnce
<1>1. ASSUME CellInv, [Next]_vars
      PROVE  [\A c \in Cells : cell[c] # Empty => cell'[c] = cell[c]]_vars
  <2>1. ASSUME NEW t \in Tasks, NEW v \in 1 .. version, FetchOk(t, v), NEW c \in Cells, cell[c] # Empty
        PROVE  cell'[c] = cell[c]
    BY <1>1, <2>1 DEF FetchOk, CellInv, TypeOK, Control
  <2>2. ASSUME NEW t \in Tasks, StartOk(t), NEW c \in Cells, cell[c] # Empty
        PROVE  cell'[c] = cell[c]
    BY <1>1, <2>2 DEF StartOk, CellInv, TypeOK, Control
  <2>3. CASE UNCHANGED cell
    BY <2>3
  <2>4. \/ UNCHANGED cell
        \/ \E t \in Tasks : StartOk(t) \/ \E v \in 1 .. version : FetchOk(t, v)
    BY <1>1 DEF Next, Start, Progress, metadata, balance_of, storage_balance_bounds, shared, Call,
       TakeValue, Acquire, GetPermit, InitFails, ViewFails, ViewOk, DropFuture, Upgrade, Terminated, vars
  <2> QED  BY <2>1, <2>2, <2>3, <2>4
<1> QED  BY <1>1, CellInvariant, PTL DEF Spec, WriteOnce
=============================================================================
