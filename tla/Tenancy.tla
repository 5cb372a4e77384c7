------------------------------ MODULE Tenancy -------------------------------
(* tenancy: the tenant hierarchy that all services share in Redis. A service *)
(* that owns the tenant store loads it when it starts (loader/loader.go),    *)
(* modifier/modifier.go adds and removes tenants, accessor.go reads. Every   *)
(* Redis command is a step of its own: go-redis sends the commands of the    *)
(* function given to Watch one by one, there is no MULTI.                    *)
EXTENDS Naturals, FiniteSets

CONSTANTS Tenant, NoTenant,
          TenantStores, \* what the tenant store may hold: the parent of each tenant
          Loader,       \* the service instances that load the hierarchy
          Client,       \* the goroutines that use the accessor and the modifier
          MaxOps,       \* of each mode, how many loads and calls begin
          MaxFaults

Mode == {"bootstrap", "serving", "churn"}

VARIABLES mode,         \* "bootstrap": one load at a time, clients only read;
                        \* "serving": no loads, one modification at a time;
                        \* "churn": anything at any time
          store,
          status, root, zset,   \* StatusKey, RootTenantKey and ZsetKey
          lpc,          \* where a loader is
          cachedRoot,   \* TenancyAccessor.cachedRootID
          call,         \* the call a client is in
          edited,       \* whether the modifier has ever changed the hierarchy
          ops, faults

keys == <<status, root, zset>>
vars == <<mode, store, status, root, zset, lpc, cachedRoot, call, edited, ops, faults>>

Relations == Tenant \X {"childOf", "parentOf"} \X Tenant
Pair(t, p) == {<<t, "childOf", p>>, <<p, "parentOf", t>>}
Parents(t) == {p \in Tenant : <<t, "childOf", p>> \in zset}
Children(t) == {c \in Tenant : <<t, "parentOf", c>> \in zset}

Roots == {t \in DOMAIN store : store[t] = NoTenant}
Hierarchy == UNION {Pair(t, store[t]) : t \in DOMAIN store \ Roots}
Complete == root \in Roots /\ zset = Hierarchy

Returned == {"idle", "loaded", "joined", "error", "crashed"}
InTransaction == {"txDel", "scan", "getRoot", "setFailed", "zadd", "setLoaded"}
LoaderPC == Returned \cup InTransaction \cup {"delZset", "delRoot", "abort"}

Idle == [op |-> "none", step |-> "idle", tenant |-> NoTenant, parent |-> NoTenant,
         checked |-> FALSE, at |-> {}, seen |-> {}, calm |-> TRUE]
Steps == {"idle", "parent", "root", "ancestors", "walk", "children", "level", "write", "done"}
Calls == [op : {"none", "add", "remove", "path", "descendants"}, step : Steps,
          tenant : Tenant \cup {NoTenant}, parent : Tenant \cup {NoTenant}, checked : BOOLEAN,
          at : SUBSET Tenant, seen : SUBSET Tenant, calm : BOOLEAN]

\* Every state variable has a value of its type.
TypeOK ==
    /\ mode \in Mode
    /\ store \in TenantStores
    /\ status \in {"none", "in_progress", "failed", "loaded"}
    /\ root \in Tenant \cup {NoTenant}
    /\ zset \subseteq Relations
    /\ lpc \in [Loader -> LoaderPC]
    /\ cachedRoot \in Tenant \cup {NoTenant}
    /\ call \in [Client -> Calls]
    /\ edited \in BOOLEAN /\ ops \in Nat /\ faults \in Nat

Init ==
    /\ mode \in Mode /\ store \in TenantStores
    /\ IF mode = "bootstrap"
         THEN status = "none" /\ root = NoTenant /\ zset = {}
         ELSE status = "loaded" /\ root \in Roots /\ zset = Hierarchy
    /\ lpc = [l \in Loader |-> "idle"] /\ cachedRoot = NoTenant
    /\ call = [c \in Client |-> Idle]
    /\ edited = FALSE /\ ops = 0 /\ faults = 0

-----------------------------------------------------------------------------
(* LoadTenantHierarchy                                                       *)

clientVars == <<cachedRoot, edited, ops>>
Goto(l, from, to) == lpc[l] = from /\ lpc' = [lpc EXCEPT ![l] = to]
Frame == UNCHANGED <<mode, store, call, clientVars, faults>>

\* A service instance starts, or starts again: the status becomes IN_PROGRESS.
Begin(l) ==
    /\ mode # "serving" /\ lpc[l] \in Returned /\ ops < MaxOps[mode]
    /\ mode = "bootstrap" => \A k \in Loader : lpc[k] \in Returned
    /\ lpc' = [lpc EXCEPT ![l] = "delZset"]
    /\ status' = "in_progress"
    /\ call' = [c \in Client |-> [call[c] EXCEPT !.calm = @ /\ call[c].step \in {"idle", "done"}]]
    /\ ops' = ops + 1
    /\ UNCHANGED <<mode, store, root, zset, cachedRoot, edited, faults>>

\* The previous data is cleared, once before and once under Watch.
DelZset(l) ==
    /\ Goto(l, "delZset", "delRoot") \/ Goto(l, "txDel", "scan")
    /\ zset' = {}
    /\ Frame /\ UNCHANGED <<status, root>>

DelRoot(l) ==
    /\ Goto(l, "delRoot", "txDel")
    /\ root' = NoTenant
    /\ Frame /\ UNCHANGED <<status, zset>>

\* The iteration over the store: the tenant without a parent is the root.
Scan(l) ==
    /\ Goto(l, "scan", "getRoot")
    /\ IF Roots = {} THEN root' = root ELSE root' \in Roots
    /\ Frame /\ UNCHANGED <<status, zset>>

GetRootKey(l) ==
    /\ Goto(l, "getRoot", IF root = NoTenant THEN "setFailed" ELSE "zadd")
    /\ Frame /\ UNCHANGED keys

SetFailed(l) ==
    /\ Goto(l, "setFailed", "abort")
    /\ status' = "failed"
    /\ Frame /\ UNCHANGED <<root, zset>>

\* Mutant: only one direction of the relations is loaded.
ZAddChildren(l) ==
    /\ Goto(l, "zadd", "setLoaded")
    /\ zset' = zset \cup {r \in Hierarchy : r[2] = "childOf"}
    /\ Frame /\ UNCHANGED <<status, root>>

\* Both directions of all relations, with one command.
ZAdd(l) ==
    /\ Goto(l, "zadd", "setLoaded")
    /\ zset' = zset \cup Hierarchy
    /\ Frame /\ UNCHANGED <<status, root>>

SetLoaded(l) ==
    /\ Goto(l, "setLoaded", "loaded")
    /\ status' = "loaded"
    /\ Frame /\ UNCHANGED <<root, zset>>

\* The transaction function returned an error: another instance may have loaded.
Abort(l) ==
    /\ Goto(l, "abort", IF status = "loaded" THEN "joined" ELSE "error")
    /\ Frame /\ UNCHANGED keys

\* A command of Redis or the iterator of the store fails, or the process dies. A root
\* that cannot be read is like one that is not there.
LoaderFault(l) ==
    /\ faults < MaxFaults /\ lpc[l] \notin Returned
    /\ \/ lpc' = [lpc EXCEPT ![l] = IF @ = "getRoot" THEN "setFailed"
                                    ELSE IF @ \in InTransaction THEN "abort" ELSE "error"]
       \/ lpc' = [lpc EXCEPT ![l] = "crashed"]
    /\ faults' = faults + 1
    /\ UNCHANGED <<mode, store, status, root, zset, call, clientVars>>

Load(l) ==
    \/ DelZset(l) \/ DelRoot(l) \/ Scan(l) \/ GetRootKey(l)
    \/ SetFailed(l) \/ ZAdd(l) \/ SetLoaded(l) \/ Abort(l)

-----------------------------------------------------------------------------
(* The accessor and the modifier                                             *)

Busy(c) == call[c].step \notin {"idle", "done"}
Modifies(c) == Busy(c) /\ call[c].op \in {"add", "remove"}
Reads == UNCHANGED <<mode, store, keys, lpc, edited, ops>>
Set(c, record) == call' = [call EXCEPT ![c] = record]
Return(c) == Set(c, Idle)
Fault == mode = "churn" /\ faults < MaxFaults /\ faults' = faults + 1

FirstStep == [add |-> "parent", remove |-> "children", path |-> "ancestors", descendants |-> "level"]

\* AddTenant, RemoveTenant, GetTenancyPath or GetDescendants is called.
Call(c, op, t, p) ==
    /\ ~Busy(c) /\ ops < MaxOps[mode]
    /\ op \in {"add", "remove"} => /\ mode # "bootstrap"
                                   /\ mode = "serving" => \A d \in Client : ~Modifies(d)
    /\ (op = "add") = (p # NoTenant)
    /\ Set(c, [Idle EXCEPT !.op = op, !.step = FirstStep[op], !.tenant = t, !.parent = p])
    /\ ops' = ops + 1
    /\ UNCHANGED <<mode, store, keys, lpc, cachedRoot, edited, faults>>

\* Where a call goes when IsLoaded said yes.
Checked(c) ==
    CASE call[c].step = "ancestors" ->
            [call[c] EXCEPT !.step = "walk",
                            !.at = {IF call[c].op = "add" THEN call[c].parent ELSE call[c].tenant}]
      [] call[c].step = "level" -> [call[c] EXCEPT !.checked = TRUE, !.at = {call[c].tenant}]
      [] OTHER -> [call[c] EXCEPT !.checked = TRUE]

\* Mutant: nobody asks for the status.
IsLoadedAlways(c) ==
    /\ Busy(c) /\ ~call[c].checked /\ call[c].step # "write"
    /\ Set(c, Checked(c))
    /\ Reads /\ UNCHANGED <<cachedRoot, faults>>

\* IsLoaded, with which the methods of the accessor begin; another status than
\* LOADED, or an error, ends the call.
IsLoaded(c) ==
    /\ Busy(c) /\ ~call[c].checked /\ call[c].step # "write"
    /\ \/ status = "loaded" /\ Set(c, Checked(c)) /\ faults' = faults
       \/ status # "loaded" /\ Return(c) /\ faults' = faults
       \/ Fault /\ Return(c)
    /\ Reads /\ UNCHANGED cachedRoot

At(c, step) == call[c].step = step /\ call[c].checked

\* ZRangeByLex: its error is dropped, and leaves an empty answer.
Query(answer, truth) == (answer = truth /\ faults' = faults) \/ (answer = {} /\ Fault)

\* AddTenant and RemoveTenant ask for the parent of the tenant; more than one is
\* an error.
AskParent(c) == \E found \in SUBSET Tenant :
    /\ At(c, "parent")
    /\ Query(found, Parents(call[c].tenant))
    /\ CASE call[c].op = "add" /\ found = {} ->
               Set(c, [call[c] EXCEPT !.step = "root", !.checked = FALSE])
         [] call[c].op = "remove" /\ Cardinality(found) = 1 ->
               \E p \in found : Set(c, [call[c] EXCEPT !.step = "write", !.parent = p])
         [] OTHER -> Return(c)
    /\ Reads /\ UNCHANGED cachedRoot

AskChildren(c) == \E found \in SUBSET Tenant :
    /\ At(c, "children")
    /\ Query(found, Children(call[c].tenant))
    /\ IF found = {} THEN Set(c, [call[c] EXCEPT !.step = "parent", !.checked = FALSE]) ELSE Return(c)
    /\ Reads /\ UNCHANGED cachedRoot

\* GetRoot reads the key once and keeps the answer.
AskRoot(c) ==
    LET found == IF cachedRoot = NoTenant THEN root ELSE cachedRoot IN
    /\ At(c, "root")
    /\ \/ /\ cachedRoot' = found /\ faults' = faults
          /\ IF found \in {NoTenant, call[c].tenant} THEN Return(c)
             ELSE Set(c, [call[c] EXCEPT !.step = "ancestors", !.checked = FALSE])
       \/ cachedRoot = NoTenant /\ Fault /\ Return(c) /\ UNCHANGED cachedRoot
    /\ Reads

\* Mutant: AddTenant does not look for a cycle.
WalkedUnchecked(c) ==
    IF call[c].op = "path" THEN Set(c, [call[c] EXCEPT !.step = "done"])
    ELSE Set(c, [call[c] EXCEPT !.step = "write"])

\* GetAncestors is through: GetTenancyPath returns them, and AddTenant goes on if
\* the tenant is not among them.
Walked(c) ==
    IF call[c].op = "path" THEN Set(c, [call[c] EXCEPT !.step = "done"])
    ELSE IF call[c].tenant \in call[c].seen \cup {call[c].parent} THEN Return(c)
    ELSE Set(c, [call[c] EXCEPT !.step = "write"])

\* One round of GetAncestors.
Walk(c) == \E found \in SUBSET Tenant :
    /\ At(c, "walk")
    /\ Query(found, UNION {Parents(t) : t \in call[c].at})
    /\ CASE found = {} -> Walked(c)
         [] Cardinality(found) = 1 ->
               Set(c, [call[c] EXCEPT !.checked = FALSE, !.at = found, !.seen = @ \cup found])
         [] OTHER -> Return(c)
    /\ Reads /\ UNCHANGED cachedRoot

\* One round of GetDescendants: the children of a level, with one pipeline.
Level(c) ==
    /\ At(c, "level")
    /\ LET found == UNION {Children(t) : t \in call[c].at} IN
       \/ /\ faults' = faults
          /\ Set(c, [call[c] EXCEPT !.at = found, !.seen = @ \cup found,
                                    !.step = IF found = {} THEN "done" ELSE @])
       \/ Fault /\ Return(c)
    /\ Reads /\ UNCHANGED cachedRoot

\* ZAdd or ZRem of both directions with one command.
Write(c) ==
    /\ Busy(c) /\ call[c].step = "write"
    /\ \/ /\ zset' = IF call[c].op = "add" THEN zset \cup Pair(call[c].tenant, call[c].parent)
                     ELSE zset \ Pair(call[c].tenant, call[c].parent)
          /\ edited' = TRUE /\ faults' = faults
       \/ Fault /\ UNCHANGED <<zset, edited>>
    /\ Return(c)
    /\ UNCHANGED <<mode, store, status, root, lpc, cachedRoot, ops>>

Advance(c) ==
    \/ IsLoaded(c) \/ AskParent(c) \/ AskChildren(c) \/ AskRoot(c)
    \/ Walk(c) \/ Level(c) \/ Write(c)

Next ==
    \/ \E l \in Loader : Begin(l) \/ Load(l) \/ LoaderFault(l)
    \/ \E c \in Client :
          \/ Advance(c)
          \/ \E op \in DOMAIN FirstStep, t \in Tenant, p \in Tenant \cup {NoTenant} : Call(c, op, t, p)

Spec == Init /\ [][Next]_vars

\* Redis answers, with success or an error.
FairSpec == /\ Spec
            /\ \A l \in Loader : WF_vars(Load(l))
            /\ \A c \in Client : WF_vars(Advance(c))

-----------------------------------------------------------------------------
\* The two directions of a relation are there together, whatever fails, dies or
\* overlaps: readers that go up and readers that go down see the same tree.
SymmetricRelations ==
    \A t, p \in Tenant : <<t, "childOf", p>> \in zset <=> <<p, "parentOf", t>> \in zset

\* loader.go on the deletions: "in case the transaction below failed, we get empty
\* data instead of stale data". When loads do not overlap, the status LOADED means
\* the whole store is there, although any load may fail or die at any command.
LoadedIsComplete == mode = "bootstrap" /\ status = "loaded" => Complete

\* Overlapping loads that all come through leave the whole store and LOADED
\* behind: the one that deletes last also adds last.
SuccessIsComplete ==
    (\A l \in Loader : lpc[l] \in {"idle", "loaded"}) /\ (\E l \in Loader : lpc[l] = "loaded") /\ ~edited
        => status = "loaded" /\ Complete

\* What the accessor returns is the whole path, or the whole subtree, unless a
\* load begins under the call; a call made in the middle of a load is refused. (A query
\* that fails is left out: ZRangeByLex answers as if there were nothing, accessor.go.)
ReadsAreComplete ==
    \A c \in Client :
        call[c].step = "done" /\ call[c].calm /\ mode = "bootstrap" /\ call[c].tenant \in DOMAIN store =>
          /\ call[c].op = "path" => call[c].at \subseteq Roots
          /\ call[c].op = "descendants" =>
               \A t \in DOMAIN store : store[t] \in call[c].seen \cup {call[c].tenant} => t \in call[c].seen

\* modifier.go: a tenant has one parent, the root has none, and no relation
\* "introduces a cycle in the tenant hierarchy" (every set of tenants has one
\* whose parent is outside), when modifications do not overlap and no read fails.
Forest ==
    mode = "serving" =>
        /\ \A t \in Tenant : \A p, q \in Parents(t) : p = q
        /\ Parents(root) = {}
        /\ \A S \in SUBSET Tenant : S # {} => \E t \in S : Parents(t) \cap S = {}

\* loader.go and modifier.go: what Redis holds is a hierarchy with both directions of
\* each relation, the whole of the store after the loads that came through, and a
\* tree after the modifications.
Consistent == SymmetricRelations /\ LoadedIsComplete /\ SuccessIsComplete /\ Forest

\* The loops of GetAncestors and GetDescendants, which nothing bounds, end even
\* when tenants are moved under them.
WalksEnd ==
    \A c \in Client : mode = "serving" /\ call[c].step \in {"walk", "level"} ~> ~Busy(c)
=============================================================================
