----------------------------- MODULE Pagination -----------------------------
(***************************************************************************)
(* The paginated readers of RpcClient: view_access_key_list and            *)
(* view_state_all collect a listing page by page while the chain moves,    *)
(* and the two page methods fetch one page the caller describes.           *)
(*                                                                         *)
(* One call is followed from its arguments to its result.  A request to    *)
(* the node is one step: RpcCall describes what happens inside it, and     *)
(* here it either brings an answer or an error that `?` returns.           *)
(*                                                                         *)
(* The node is external.  A moving reference (a finality, a height, a sync *)
(* checkpoint) is resolved afresh by every request, to any block the       *)
(* answering node knows; a block hash is answered from that block or not   *)
(* at all.  Between two requests blocks appear and are garbage-collected.  *)
(***************************************************************************)
EXTENDS Naturals, FiniteSets

CONSTANTS
    Keys,        \* the keys a listing can hold, positive numbers in trie order
    Blocks,      \* block hashes
    Moving,      \* a reference that every request resolves again
    Prefixes,    \* the sets of keys the `prefix` argument can select
    PageSizes,   \* `page_size` and `limit` arguments, 0 included
    NodeCap,     \* the most entries the node puts into one answer
    DEFAULT_VIEW_STATE_PAGE_SIZE,
    DEFAULT_VIEW_ACCESS_KEYS_PAGE_SIZE

None == 0

ASSUME KeysAssumption == Keys \subseteq Nat \ {None}
ASSUME BlocksAssumption == Moving \notin Blocks
ASSUME PrefixesAssumption == \A p \in Prefixes : p \subseteq Keys
ASSUME SizesAssumption ==
    /\ PageSizes \subseteq Nat
    /\ NodeCap \in Nat \ {0}
    /\ DEFAULT_VIEW_STATE_PAGE_SIZE \in Nat \ {0}
    /\ DEFAULT_VIEW_ACCESS_KEYS_PAGE_SIZE \in Nat \ {0}

BlockReferences == Blocks \cup {Moving}

VARIABLES
    content,   \* what the listed account holds at each block
    known,     \* the blocks the node answers from at present
    pc,        \* "idle", "first", "next" or "done"
    req,       \* the request about to be sent
    values,    \* how often each key is in the list collected so far
    at,        \* the block the first page was read at; Moving before
    result     \* what the call returned

nodeVars == <<content, known>>
vars == <<content, known, pc, req, values, at, result>>

Listings == {"view_access_key_list", "view_state_all"}
Operations == Listings \cup {"view_access_key_list_page", "view_state"}
Requests == [op : Operations, prefix : SUBSET Keys, after : Keys \cup {None},
             limit : Nat, block : BlockReferences]

(***************************************************************************)
(* The four calls                                                          *)
(***************************************************************************)
Init ==
    /\ content \in [Blocks -> SUBSET Keys]
    /\ known \in SUBSET Blocks
    /\ pc = "idle"
    /\ req = [op |-> "view_state", prefix |-> {}, after |-> None, limit |-> 0, block |-> Moving]
    /\ values = [k \in Keys |-> 0]
    /\ at = Moving
    /\ result = "none"

Call(op, prefix, after, limit, block) ==
    /\ pc = "idle"
    /\ pc' = "first"
    /\ req' = [op |-> op, prefix |-> prefix, after |-> after, limit |-> limit, block |-> block]
    /\ UNCHANGED <<nodeVars, values, at, result>>

view_access_key_list(block) ==
    Call("view_access_key_list", Keys, None, DEFAULT_VIEW_ACCESS_KEYS_PAGE_SIZE, block)

(* The `limit` view_state_all sends for a `page_size`. *)
PageLimit_as_given(page_size) == page_size
PageLimit(page_size) == IF page_size > 0 THEN page_size ELSE DEFAULT_VIEW_STATE_PAGE_SIZE

view_state_all(prefix, page_size, block) ==
    Call("view_state_all", prefix, None, PageLimit(page_size), block)

view_access_key_list_page(after, limit, block) ==
    Call("view_access_key_list_page", Keys, after, limit, block)

(* A `limit` of None and of Some(0) are both left out of the request: 0. *)
view_state(prefix, after, limit, block) == Call("view_state", prefix, after, limit, block)

(***************************************************************************)
(* The node's side of one request                                          *)
(***************************************************************************)
Resolutions == IF req.block = Moving THEN known ELSE known \cap {req.block}

Remaining(b) == {k \in content[b] \cap req.prefix : k > req.after}

(* A request with neither a cursor nor a limit is not paginated. *)
Paginated == req.limit > 0 \/ req.after # None

EntryLimit == IF req.limit \in 1..NodeCap THEN req.limit ELSE NodeCap

(* The node also cuts a page at a size in bytes, so any non-empty initial  *)
(* segment within the limit can be the page.                               *)
PagesOf(rest) ==
    {p \in SUBSET rest :
        /\ Cardinality(p) <= EntryLimit
        /\ p = {} => rest = {}
        /\ \A k \in p, r \in rest \ p : k < r}

(* The cursor of a page: its last key; none at the end of the listing. *)
LastKeys(page, rest) ==
    {k \in page : \A other \in page : other <= k} \cup (IF page = rest THEN {None} ELSE {})

(* What one request can bring: a page with its cursor. *)
Answers(b) ==
    LET rest == Remaining(b)
    IN  IF Paginated
        THEN UNION {{[keys |-> p, last_key |-> l] : l \in LastKeys(p, rest)} : p \in PagesOf(rest)}
        ELSE {[keys |-> rest, last_key |-> None]}

(***************************************************************************)
(* Collecting the pages                                                    *)
(***************************************************************************)
Extended(page) == [k \in Keys |-> IF k \in page.keys THEN values[k] + 1 ELSE values[k]]

Return(r) == pc' = "done" /\ result' = r

(* BlockReference::at_hash: later pages are read at the first page's block. *)
Pinned_not(b) == req.block
Pinned(b) == b

(* The cursor is followed until the node reports none; the page methods    *)
(* return their page whatever its cursor.                                  *)
Follow(page, block) ==
    IF page.last_key = None \/ req.op \notin Listings
    THEN /\ Return("ok")
         /\ req' = req
    ELSE /\ pc' = "next"
         /\ req' = [op |-> req.op, prefix |-> req.prefix, after |-> page.last_key,
                    limit |-> req.limit, block |-> block]
         /\ result' = result

FirstPage ==
    /\ pc = "first"
    /\ \E b \in Resolutions :
        /\ at' = b
        /\ \E page \in Answers(b) :
            /\ values' = Extended(page)
            /\ Follow(page, Pinned(b))
    /\ UNCHANGED nodeVars

NextPage ==
    /\ pc = "next"
    /\ \E b \in Resolutions :
        \E page \in Answers(b) :
            /\ values' = Extended(page)
            /\ Follow(page, req.block)
    /\ UNCHANGED <<nodeVars, at>>

(* TOO_LARGE_CONTRACT_STATE and TOO_MANY_ACCESS_KEYS: the node refuses to  *)
(* list without pages what does not fit into one.                          *)
TooLarge ==
    /\ pc \in {"first", "next"}
    /\ ~Paginated
    /\ \E b \in Resolutions : Cardinality(Remaining(b)) > NodeCap
    /\ Return("too_large")
    /\ UNCHANGED <<nodeVars, req, values, at>>

(* Any request can fail: an unknown block, a transport error after the     *)
(* retries of `call`.  `?` returns it and drops the pages collected.       *)
RequestFails_again ==
    /\ pc \in {"first", "next"}
    /\ UNCHANGED vars
RequestFails ==
    /\ pc \in {"first", "next"}
    /\ Return("error")
    /\ UNCHANGED <<nodeVars, req, values, at>>

Reader == FirstPage \/ NextPage \/ TooLarge \/ RequestFails

(* The chain and the node's garbage collection. *)
NewBlock(b) ==
    /\ b \notin known
    /\ known' = known \cup {b}
    /\ UNCHANGED <<content, pc, req, values, at, result>>

Collect(b) ==
    /\ b \in known
    /\ known' = known \ {b}
    /\ UNCHANGED <<content, pc, req, values, at, result>>

Next ==
    \/ \E block \in BlockReferences : view_access_key_list(block)
    \/ \E prefix \in Prefixes, size \in PageSizes, block \in BlockReferences :
          view_state_all(prefix, size, block)
    \/ \E after \in Keys \cup {None}, size \in PageSizes, block \in BlockReferences :
          view_access_key_list_page(after, size, block)
    \/ \E prefix \in Prefixes, after \in Keys \cup {None}, size \in PageSizes, block \in BlockReferences :
          view_state(prefix, after, size, block)
    \/ FirstPage
    \/ NextPage
    \/ TooLarge
    \/ RequestFails
    \/ \E b \in Blocks : NewBlock(b) \/ Collect(b)

Spec == Init /\ [][Next]_vars

(* The executor polls the future and every request is answered or fails. *)
FairSpec == Spec /\ WF_vars(Reader)

(***************************************************************************)
(* Properties                                                              *)
(***************************************************************************)
TypeOK ==
    /\ content \in [Blocks -> SUBSET Keys]
    /\ known \subseteq Blocks
    /\ pc \in {"idle", "first", "next", "done"}
    /\ req \in Requests
    /\ values \in [Keys -> Nat]
    /\ at \in BlockReferences
    /\ pc = "next" \/ result = "ok" => at \in Blocks
    /\ result \in {"none", "ok", "too_large", "error"}

(* A listing that succeeds holds every selected key of one block exactly   *)
(* once, and names that block: nothing is dropped or duplicated although   *)
(* the reference moves and pages are cut anywhere (view_state_all,         *)
(* view_access_key_list).                                                  *)
SnapshotExact ==
    result = "ok" /\ req.op \in Listings =>
        \A k \in Keys : values[k] = IF k \in content[at] \cap req.prefix THEN 1 ELSE 0

(* The listing helpers never meet the node's size gate for unpaginated     *)
(* requests, whatever page size the caller asks for, 0 included.           *)
NeverTooLarge == req.op \in Listings => result # "too_large"

(* Every call returns: the loop over `last_key` ends. *)
ListingEnds == pc \in {"first", "next"} ~> pc = "done"
=============================================================================
