------------------------------ MODULE OnceCells ------------------------------
(***************************************************************************)
(* The values near-kit fills in on first use, each in a tokio OnceCell:    *)
(*   - FungibleToken::metadata and storage_bounds, NonFungibleToken::      *)
(*     metadata: one cell each per token client (a clone starts empty);    *)
(*   - SHARED_SANDBOX: one cell per process, whose value is a container.   *)
(* Tasks run concurrently and each makes one call.  The cell is external:  *)
(* the task that gets its permit runs the initialiser, the others wait; a  *)
(* value closes the cell, and a failed or dropped initialiser gives the    *)
(* permit back to the next task.                                           *)
(***************************************************************************)
EXTENDS Naturals, FiniteSets

CONSTANTS
    Tasks,
    Clients,        \* token clients, clones included
    Process,        \* the owner of the shared sandbox's cell
    Free,           \* no task
    Balances,       \* raw balances the contract may answer
    U128,           \* number of values of u128; 2^128 in the code
    MaxUpgrades     \* bound: changes of the contract's metadata

ASSUME NamesAssumption == Process \notin Clients /\ Free \notin Tasks
ASSUME SizesAssumption ==
    U128 \in Nat \ {0} /\ Balances \subseteq 0 .. U128 - 1 /\ MaxUpgrades \in Nat

VARIABLES
    cell,         \* cell[c]: the value of cell c, or Empty
    permit,       \* permit[c]: the task that runs c's initialiser, or Free
    pc,           \* "idle", "enter", "init", "view" or "done"
    call,         \* call[t]: the method task t called and the cell it needs
    result,       \* result[t]: what the call returned
    version,      \* version of the metadata and bounds the contract serves
    containers,   \* containers started for the shared sandbox
    registered    \* atexit handlers registered

vars == <<cell, permit, pc, call, result, version, containers, registered>>

Empty == 0
Sandbox == <<Process, "sandbox">>
Cells == (Clients \X {"metadata", "bounds"}) \cup {Sandbox}

Methods == {"metadata", "balance_of", "storage_balance_bounds", "shared"}
NoCall == [method |-> "metadata", cell |-> Sandbox]

(* FtAmount: the raw number with the decimals and symbol of a version. *)
FtAmount(raw, metadata) == [raw |-> raw, metadata |-> metadata]
Results == {"pending", "error", "panicked", "dropped"}
Outcomes == [status : Results \cup {"ok"}, raw : 0 .. U128 - 1, metadata : Nat]
Outcome(status) == [status |-> status, raw |-> 0, metadata |-> 0]
Value(v) == [status |-> "ok", raw |-> 0, metadata |-> v]

TypeOK ==
    /\ cell \in [Cells -> Nat]
    /\ permit \in [Cells -> Tasks \cup {Free}]
    /\ pc \in [Tasks -> {"idle", "enter", "init", "view", "done"}]
    /\ call \in [Tasks -> [method : Methods, cell : Cells]]
    /\ result \in [Tasks -> Outcomes]
    /\ version \in 1 .. MaxUpgrades + 1
    /\ containers \in Nat
    /\ registered \in Nat
    /\ \A c \in Cells : permit[c] # Free => pc[permit[c]] = "init" /\ call[permit[c]].cell = c

Init ==
    /\ cell = [c \in Cells |-> Empty]
    /\ permit = [c \in Cells |-> Free]
    /\ pc = [t \in Tasks |-> "idle"]
    /\ call = [t \in Tasks |-> NoCall]
    /\ result = [t \in Tasks |-> Outcome("pending")]
    /\ version = 1
    /\ containers = 0
    /\ registered = 0
-----------------------------------------------------------------------------
(* The methods. *)

Call(t, method, c) ==
    /\ pc[t] = "idle"
    /\ pc' = [pc EXCEPT ![t] = "enter"]
    /\ call' = [call EXCEPT ![t] = [method |-> method, cell |-> c]]
    /\ UNCHANGED <<cell, permit, result, version, containers, registered>>

metadata(t, client) == Call(t, "metadata", <<client, "metadata">>)

\* balance_of and total_supply: the metadata, then a number to go with it.
balance_of(t, client) == Call(t, "balance_of", <<client, "metadata">>)

storage_balance_bounds(t, client) == Call(t, "storage_balance_bounds", <<client, "bounds">>)

\* SandboxConfig::shared and SandboxBuilder::shared.
shared(t) == Call(t, "shared", Sandbox)

Return(t, outcome) ==
    /\ pc' = [pc EXCEPT ![t] = "done"]
    /\ result' = [result EXCEPT ![t] = outcome]

\* The call has the cell's value v.
Resume(t, v) ==
    IF call[t].method = "balance_of"
    THEN pc' = [pc EXCEPT ![t] = "view"] /\ UNCHANGED result
    ELSE Return(t, Value(v))
-----------------------------------------------------------------------------
(* OnceCell::get_or_try_init and get_or_init. *)

TakeValue(t) ==
    /\ pc[t] = "enter" /\ cell[call[t].cell] # Empty
    /\ Resume(t, cell[call[t].cell])
    /\ UNCHANGED <<cell, permit, call, version, containers, registered>>

GetPermit(t) ==
    /\ permit' = [permit EXCEPT ![call[t].cell] = t]
    /\ pc' = [pc EXCEPT ![t] = "init"]
    /\ UNCHANGED <<cell, call, result, version, containers, registered>>

\* Variant: get, then fetch and set, without waiting for each other.
Acquire_racing(t) ==
    /\ pc[t] = "enter" /\ cell[call[t].cell] = Empty
    /\ pc' = [pc EXCEPT ![t] = "init"]
    /\ UNCHANGED <<permit, cell, call, result, version, containers, registered>>

\* Variant: the initialiser runs although there is a value.
Acquire_refetch(t) ==
    /\ pc[t] = "enter" /\ permit[call[t].cell] = Free
    /\ GetPermit(t)

Acquire(t) ==
    /\ pc[t] = "enter" /\ cell[call[t].cell] = Empty /\ permit[call[t].cell] = Free
    /\ GetPermit(t)

ReleasePermit(t) == permit' = [permit EXCEPT ![call[t].cell] = Free]

\* The view call answers with version v, an older one from a late answer or
\* from a node that lags behind.
FetchOk(t, v) ==
    /\ pc[t] = "init" /\ call[t].cell # Sandbox
    /\ cell' = [cell EXCEPT ![call[t].cell] = v]
    /\ ReleasePermit(t)
    /\ Resume(t, v)
    /\ UNCHANGED <<call, version, containers, registered>>

\* Sandbox::start, then register_shared_cleanup, before anybody sees it.
StartOk(t) ==
    /\ pc[t] = "init" /\ call[t].cell = Sandbox
    /\ containers' = containers + 1
    /\ registered' = registered + 1
    /\ cell' = [cell EXCEPT ![Sandbox] = containers + 1]
    /\ ReleasePermit(t)
    /\ Resume(t, containers + 1)
    /\ UNCHANGED <<call, version>>

\* Variant: the cleanup is registered before the container is started.
InitFails_registered(t) ==
    /\ pc[t] = "init"
    /\ ReleasePermit(t)
    /\ Return(t, Outcome(IF call[t].cell = Sandbox THEN "panicked" ELSE "error"))
    /\ registered' = IF call[t].cell = Sandbox THEN registered + 1 ELSE registered
    /\ UNCHANGED <<cell, call, version, containers>>

\* Variant: a failed initialiser does not let the next task in.
InitFails_stuck(t) ==
    /\ pc[t] = "init"
    /\ Return(t, Outcome(IF call[t].cell = Sandbox THEN "panicked" ELSE "error"))
    /\ UNCHANGED <<cell, permit, call, version, containers, registered>>

\* The view call or its decoding fails; `expect` in Sandbox::start panics.
InitFails(t) ==
    /\ pc[t] = "init"
    /\ ReleasePermit(t)
    /\ Return(t, Outcome(IF call[t].cell = Sandbox THEN "panicked" ELSE "error"))
    /\ UNCHANGED <<cell, call, version, containers, registered>>

\* Variant: the amount gets the metadata the contract serves by now.
ViewOk_fresh(t, raw) ==
    /\ pc[t] = "view"
    /\ Return(t, [status |-> "ok", raw |-> raw, metadata |-> version])
    /\ UNCHANGED <<cell, permit, call, version, containers, registered>>

\* FtAmount::from_metadata, with the reference into the cell.
ViewOk(t, raw) ==
    /\ pc[t] = "view"
    /\ Return(t, [status |-> "ok", raw |-> raw, metadata |-> cell[call[t].cell]])
    /\ UNCHANGED <<cell, permit, call, version, containers, registered>>

\* The second view call fails, or its answer is no u128.
ViewFails(t) ==
    /\ pc[t] = "view"
    /\ Return(t, Outcome("error"))
    /\ UNCHANGED <<cell, permit, call, version, containers, registered>>

\* The caller drops the future at one of its await points.
DropFuture(t) ==
    /\ pc[t] \in {"enter", "init", "view"}
    /\ permit' = [c \in Cells |-> IF permit[c] = t THEN Free ELSE permit[c]]
    /\ Return(t, Outcome("dropped"))
    /\ UNCHANGED <<cell, call, version, containers, registered>>

\* The contract is upgraded and serves other metadata.
Upgrade ==
    /\ version <= MaxUpgrades
    /\ version' = version + 1
    /\ UNCHANGED <<cell, permit, pc, call, result, containers, registered>>
-----------------------------------------------------------------------------
Progress(t) ==
    \/ TakeValue(t) \/ Acquire(t)
    \/ StartOk(t) \/ InitFails(t) \/ \E v \in 1 .. version : FetchOk(t, v)
    \/ ViewFails(t) \/ \E raw \in Balances : ViewOk(t, raw)

Start(t) ==
    \/ \E client \in Clients :
          metadata(t, client) \/ balance_of(t, client) \/ storage_balance_bounds(t, client)
    \/ shared(t)

Terminated == (\A t \in Tasks : pc[t] = "done") /\ UNCHANGED vars

Next ==
    \/ \E t \in Tasks : Start(t) \/ Progress(t) \/ DropFuture(t)
    \/ Upgrade
    \/ Terminated

Spec == Init /\ [][Next]_vars

FairSpec == Spec /\ \A t \in Tasks : WF_vars(Progress(t))
-----------------------------------------------------------------------------
(* Properties. *)

\* However many tasks make their first call at once, one of them fetches:
\* no cell ever has two initialisers running, so at most one container of
\* the shared sandbox is being started.
OneInitializer ==
    \A t, u \in Tasks :
        pc[t] = "init" /\ pc[u] = "init" /\ call[t].cell = call[u].cell => t = u

\* A value once cached is never replaced: the references handed out stay
\* good although the contract changes ("Metadata is cached after the first
\* call").
WriteOnce ==
    [][\A c \in Cells : cell[c] # Empty => cell'[c] = cell[c]]_vars

\* FtAmount::checked_add, in the raw numbers' width; the empty set is None.
checked_add(x, y) ==
    IF x.metadata # y.metadata \/ x.raw + y.raw >= U128
    THEN {} ELSE {FtAmount(x.raw + y.raw, x.metadata)}

Amounts(client) ==
    {FtAmount(result[t].raw, result[t].metadata) :
        t \in {u \in Tasks : /\ result[u].status = "ok"
                             /\ call[u] = [method |-> "balance_of", cell |-> <<client, "metadata">>]}}

\* Amounts one token client returned can always be added, short of an
\* overflow: they carry the same decimals and symbol even when the contract's
\* metadata changed between the calls or during one.
AmountsAddUp ==
    \A client \in Clients : \A x, y \in Amounts(client) :
        x.raw + y.raw < U128 => checked_add(x, y) # {}

\* The shared container's cleanup is registered once, exactly when there is
\* a container to clean up, through failing and dropped first calls.
CleanupMatches ==
    /\ registered = (IF cell[Sandbox] = Empty THEN 0 ELSE 1)
    /\ containers = registered

\* Every call returns: a failed or dropped initialiser leaves nobody waiting.
CallsReturn == \A t \in Tasks : pc[t] = "enter" ~> pc[t] = "done"
=============================================================================
