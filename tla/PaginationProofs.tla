-------------------------- MODULE PaginationProofs --------------------------
(***************************************************************************)
(* Proofs about Pagination for every set of keys, blocks and prefixes and  *)
(* every page size.  The invariant says what has been collected when a     *)
(* further page is about to be requested: exactly the selected keys of the *)
(* pinned block up to the cursor.                                          *)
(***************************************************************************)
EXTENDS Pagination, TLAPS

Selected(k) == k \in content[at] \cap req.prefix

(* Before the first page nothing is collected, and a listing starts at the *)
(* beginning with a positive limit.                                        *)
FirstInv ==
    /\ pc \in {"idle", "first"} => result = "none" /\ \A k \in Keys : values[k] = 0
    /\ pc = "first" /\ req.op \in Listings => req.after = None /\ req.limit > 0

(* Before a further page everything up to the cursor is collected once and *)
(* the request is pinned to the block of the first page.                   *)
NextInv ==
    pc = "next" =>
        /\ result = "none"
        /\ req.op \in Listings
        /\ at \in Blocks
        /\ req.block = at
        /\ req.limit > 0
        /\ \A k \in Keys : values[k] = IF Selected(k) /\ k <= req.after THEN 1 ELSE 0

PageInv == TypeOK /\ FirstInv /\ NextInv /\ SnapshotExact /\ NeverTooLarge

(* One page of a paginated answer, taken behind the cursor, extends what   *)
(* is collected from "up to the old cursor" to "up to the new one", or to  *)
(* everything when it has none.                                            *)
LEMMA PageExtends ==
    ASSUME NEW b \in Blocks, NEW page \in Answers(b), TypeOK, Paginated,
           \A k \in Keys : values[k] =
               IF k \in content[b] \cap req.prefix /\ k <= req.after THEN 1 ELSE 0
    PROVE  /\ page.last_key \in Keys \cup {None}
           /\ Extended(page) \in [Keys -> Nat]
           /\ page.last_key = None =>
                \A k \in Keys : Extended(page)[k] =
                    IF k \in content[b] \cap req.prefix THEN 1 ELSE 0
           /\ page.last_key # None =>
                \A k \in Keys : Extended(page)[k] =
                    IF k \in content[b] \cap req.prefix /\ k <= page.last_key THEN 1 ELSE 0
<1> DEFINE rest == Remaining(b)
<1>1. PICK p \in PagesOf(rest) : page \in {[keys |-> p, last_key |-> l] : l \in LastKeys(p, rest)}
  BY DEF Answers
<1>2. PICK l \in LastKeys(p, rest) : page = [keys |-> p, last_key |-> l]
  BY <1>1
<1>3. page.keys = p /\ page.last_key = l
  BY <1>2
<1>4. rest \subseteq Keys /\ \A k \in Keys : k \in rest <=> k \in content[b] \cap req.prefix /\ k > req.after
  BY DEF Remaining, TypeOK, Requests
<1>5. p \subseteq rest /\ \A k \in p, r \in rest \ p : k < r
  BY DEF PagesOf
<1>6. \/ l = None /\ p = rest
      \/ l \in p /\ \A other \in p : other <= l
  BY DEF LastKeys
<1>7. req.after \in Nat /\ (\A k \in Keys : k \in Nat /\ k # 0) /\ values \in [Keys -> Nat]
  <2>1. \A k \in Keys : k \in Nat /\ k # 0
    BY KeysAssumption DEF None
  <2>2. req.after \in Keys \cup {0} /\ values \in [Keys -> Nat]
    BY DEF TypeOK, Requests, None
  <2> QED  BY <2>1, <2>2
<1>8. page.last_key \in Keys \cup {None}
  BY <1>3, <1>4, <1>5, <1>6
<1>9. Extended(page) \in [Keys -> Nat]
  BY <1>7 DEF Extended
<1>10. \A k \in Keys : Extended(page)[k] = IF k \in p THEN values[k] + 1 ELSE values[k]
  BY <1>3 DEF Extended
<1>11. ASSUME l = None, NEW k \in Keys
       PROVE  Extended(page)[k] = IF k \in content[b] \cap req.prefix THEN 1 ELSE 0
  <2>1. p = rest
    BY <1>4, <1>5, <1>6, <1>7, <1>11 DEF None
  <2> QED  BY <2>1, <1>4, <1>7, <1>10
<1>12. ASSUME l # None, NEW k \in Keys
       PROVE  Extended(page)[k] =
                  IF k \in content[b] \cap req.prefix /\ k <= l THEN 1 ELSE 0
  <2>1. l \in p /\ \A other \in p : other <= l
    BY <1>6, <1>12
  <2>2. l > req.after /\ l \in Nat
    BY <2>1, <1>4, <1>5, <1>7
  <2>3. k \in p <=> k \in rest /\ k <= l
    BY <2>1, <2>2, <1>4, <1>5, <1>7
  <2> QED  BY <2>2, <2>3, <1>4, <1>7, <1>10
<1> QED  BY <1>3, <1>8, <1>9, <1>11, <1>12

(* Nothing is collected initially. *)
LEMMA PageInvInit == Init => PageInv
  BY SizesAssumption DEF Init, PageInv, TypeOK, Requests, Operations, Listings, BlockReferences,
     FirstInv, NextInv, SnapshotExact, NeverTooLarge, None

(* Every call, page, failure and movement of the chain keeps the invariant. *)
LEMMA PageInvStep == PageInv /\ [Next]_vars => PageInv'
<1> SUFFICES ASSUME PageInv, [Next]_vars PROVE PageInv'
  OBVIOUS
<1> USE DEF PageInv
<1>1. ASSUME NEW op \in Operations, NEW prefix \in SUBSET Keys, NEW after \in Keys \cup {None},
             NEW limit \in Nat, NEW block \in BlockReferences, Call(op, prefix, after, limit, block),
             op \in Listings => after = None /\ limit > 0
      PROVE  PageInv'
  <2>1. req' \in Requests /\ req'.after = after /\ req'.limit = limit /\ req'.op = op
    BY <1>1 DEF Call, Requests
  <2>2. /\ pc = "idle" /\ pc' = "first" /\ result' = "none"
        /\ UNCHANGED <<content, known, values, at, result>>
    BY <1>1 DEF Call, nodeVars, FirstInv
  <2> QED  BY <2>1, <2>2, <1>1 DEF TypeOK, FirstInv, NextInv, SnapshotExact, NeverTooLarge
<1>2. CASE \E block \in BlockReferences : view_access_key_list(block)
  <2> PICK block \in BlockReferences : view_access_key_list(block)
    BY <1>2
  <2> QED  BY <1>1, SizesAssumption DEF view_access_key_list, Operations, Listings
<1>3. CASE \E prefix \in Prefixes, size \in PageSizes, block \in BlockReferences :
             view_state_all(prefix, size, block)
  <2> PICK prefix \in Prefixes, size \in PageSizes, block \in BlockReferences :
             view_state_all(prefix, size, block)
    BY <1>3
  <2>1. PageLimit(size) \in Nat /\ PageLimit(size) > 0
    BY SizesAssumption DEF PageLimit
  <2> QED  BY <2>1, <1>1, PrefixesAssumption DEF view_state_all, Operations, Listings
<1>4. CASE \E after \in Keys \cup {None}, size \in PageSizes, block \in BlockReferences :
             view_access_key_list_page(after, size, block)
  <2> PICK after \in Keys \cup {None}, size \in PageSizes, block \in BlockReferences :
             view_access_key_list_page(after, size, block)
    BY <1>4
  <2> QED  BY <1>1, SizesAssumption DEF view_access_key_list_page, Operations, Listings
<1>5. CASE \E prefix \in Prefixes, after \in Keys \cup {None}, size \in PageSizes,
              block \in BlockReferences : view_state(prefix, after, size, block)
  <2> PICK prefix \in Prefixes, after \in Keys \cup {None}, size \in PageSizes,
              block \in BlockReferences : view_state(prefix, after, size, block)
    BY <1>5
  <2> QED  BY <1>1, SizesAssumption, PrefixesAssumption DEF view_state, Operations, Listings
<1>6. ASSUME NEW b \in Blocks, NEW page \in Answers(b), Paginated, req.op \in Listings,
             req.limit > 0, result = "none",
             \A k \in Keys : values[k] =
                 IF k \in content[b] \cap req.prefix /\ k <= req.after THEN 1 ELSE 0,
             values' = Extended(page), at' = b, Follow(page, b), UNCHANGED nodeVars
      PROVE  PageInv'
  <2>1. /\ page.last_key \in Keys \cup {None}
        /\ Extended(page) \in [Keys -> Nat]
        /\ page.last_key = None =>
             \A k \in Keys : Extended(page)[k] =
                 IF k \in content[b] \cap req.prefix THEN 1 ELSE 0
        /\ page.last_key # None =>
             \A k \in Keys : Extended(page)[k] =
                 IF k \in content[b] \cap req.prefix /\ k <= page.last_key THEN 1 ELSE 0
    BY <1>6, PageExtends
  <2>2. CASE page.last_key = None
    <3>1. pc' = "done" /\ result' = "ok" /\ req' = req
      BY <2>2, <1>6 DEF Follow, Return
    <3> QED  BY <3>1, <2>1, <2>2, <1>6
             DEF TypeOK, FirstInv, NextInv, SnapshotExact, NeverTooLarge, nodeVars, BlockReferences
  <2>3. CASE page.last_key # None
    <3>1. /\ pc' = "next" /\ result' = "none"
          /\ req' = [op |-> req.op, prefix |-> req.prefix, after |-> page.last_key,
                     limit |-> req.limit, block |-> b]
      BY <2>3, <1>6 DEF Follow
    <3>2. /\ req' \in Requests /\ req'.after = page.last_key /\ req'.block = b
          /\ req'.op = req.op /\ req'.limit = req.limit /\ req'.prefix = req.prefix
      BY <3>1, <2>1 DEF TypeOK, Requests, BlockReferences
    <3> QED  BY <3>1, <3>2, <2>1, <2>3, <1>6
             DEF TypeOK, FirstInv, NextInv, Selected, SnapshotExact, NeverTooLarge, nodeVars, BlockReferences
  <2> QED  BY <2>2, <2>3
<1>7. CASE FirstPage
  <2>1. PICK b \in Resolutions : /\ at' = b
                                 /\ \E page \in Answers(b) : values' = Extended(page) /\ Follow(page, Pinned(b))
    BY <1>7 DEF FirstPage
  <2>2. PICK page \in Answers(b) : values' = Extended(page) /\ Follow(page, b)
    BY <2>1 DEF Pinned
  <2>3. b \in Blocks
    BY DEF Resolutions, TypeOK
  <2>4. pc = "first" /\ result = "none" /\ UNCHANGED nodeVars /\ \A k \in Keys : values[k] = 0
    BY <1>7 DEF FirstPage, FirstInv
  <2>5. CASE req.op \in Listings
    <3>1. req.after = None /\ req.limit > 0
      BY <2>4, <2>5 DEF FirstInv
    <3>2. Paginated
      BY <3>1 DEF Paginated
    <3>3. \A k \in Keys : values[k] =
              IF k \in content[b] \cap req.prefix /\ k <= req.after THEN 1 ELSE 0
      BY <2>4, <3>1, KeysAssumption DEF None
    <3> QED  BY <2>1, <2>2, <2>3, <2>4, <2>5, <3>1, <3>2, <3>3, <1>6
  <2>6. CASE req.op \notin Listings
    <3>1. pc' = "done" /\ result' = "ok" /\ req' = req
      BY <2>2, <2>6 DEF Follow, Return
    <3>2. values' \in [Keys -> Nat]
      BY <2>2 DEF Extended, TypeOK
    <3> QED  BY <3>1, <3>2, <2>1, <2>3, <2>4, <2>6
             DEF TypeOK, FirstInv, NextInv, SnapshotExact, NeverTooLarge, nodeVars, BlockReferences
  <2> QED  BY <2>5, <2>6
<1>8. CASE NextPage
  <2>1. PICK b \in Resolutions :
             \E page \in Answers(b) : values' = Extended(page) /\ Follow(page, req.block)
    BY <1>8 DEF NextPage
  <2>2. PICK page \in Answers(b) : values' = Extended(page) /\ Follow(page, req.block)
    BY <2>1
  <2>3. /\ pc = "next" /\ result = "none" /\ UNCHANGED <<nodeVars, at>>
        /\ req.op \in Listings /\ at \in Blocks /\ req.block = at /\ req.limit > 0
        /\ \A k \in Keys : values[k] = IF Selected(k) /\ k <= req.after THEN 1 ELSE 0
    BY <1>8 DEF NextPage, NextInv
  <2>4. b = at
    BY <2>3, BlocksAssumption DEF Resolutions
  <2>5. Paginated
    BY <2>3 DEF Paginated
  <2> QED  BY <2>2, <2>3, <2>4, <2>5, <1>6 DEF Selected
<1>9. CASE TooLarge
  <2>1. /\ pc' = "done" /\ result' = "too_large"
        /\ UNCHANGED <<content, known, req, values, at>>
    BY <1>9 DEF TooLarge, Return, nodeVars
  <2>2. req.op \notin Listings
    BY <1>9 DEF TooLarge, Paginated, FirstInv, NextInv
  <2> QED  BY <2>1, <2>2 DEF TypeOK, FirstInv, NextInv, SnapshotExact, NeverTooLarge
<1>10. CASE RequestFails
  <2>1. /\ pc' = "done" /\ result' = "error"
        /\ UNCHANGED <<content, known, req, values, at>>
    BY <1>10 DEF RequestFails, Return, nodeVars
  <2> QED  BY <2>1 DEF TypeOK, FirstInv, NextInv, SnapshotExact, NeverTooLarge
<1>11. CASE \E b \in Blocks : NewBlock(b) \/ Collect(b)
  <2>1. known' \subseteq Blocks /\ UNCHANGED <<content, pc, req, values, at, result>>
    BY <1>11 DEF NewBlock, Collect, TypeOK
  <2> QED  BY <2>1 DEF TypeOK, FirstInv, NextInv, Selected, SnapshotExact, NeverTooLarge
<1>12. CASE UNCHANGED vars
  BY <1>12 DEF vars, TypeOK, FirstInv, NextInv, Selected, SnapshotExact, NeverTooLarge
<1> QED
  BY <1>2, <1>3, <1>4, <1>5, <1>7, <1>8, <1>9, <1>10, <1>11, <1>12 DEF Next

(* The invariant holds throughout. *)
LEMMA PageInvariant == Spec => []PageInv
  BY PageInvInit, PageInvStep, PTL DEF Spec

(* The request, the collected list and the reported block keep their types *)
(* on every path through the page loops.                                   *)
THEOREM TypeCorrect == Spec => []TypeOK
  BY PageInvariant, PTL DEF PageInv

(* view_state_all and view_access_key_list return exactly the selected     *)
(* keys of the block they name, each once, for every listing, page size,   *)
(* cut of the pages and movement of the chain.                             *)
THEOREM ListingsAreSnapshots == Spec => []SnapshotExact
  BY PageInvariant, PTL DEF PageInv

(* Neither helper ever sends a request the node's size gate can refuse.    *)
THEOREM ListingsPassTheSizeGate == Spec => []NeverTooLarge
  BY PageInvariant, PTL DEF PageInv
=============================================================================
