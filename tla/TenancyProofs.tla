---------------------------- MODULE TenancyProofs ---------------------------
(* The tenant hierarchy in Redis, for any number of tenants, service         *)
(* instances, clients, operations and faults.                                *)
EXTENDS Tenancy, FiniteSetTheorems, TLAPS

-----------------------------------------------------------------------------
(* What a step leaves alone.                                                 *)

\* Only Write of a client changes what is in Redis.
LEMMA AdvanceFrame ==
  ASSUME NEW c \in Client, Advance(c)
  PROVE  /\ UNCHANGED <<mode, store, status, root, lpc, ops>>
         /\ UNCHANGED <<zset, edited>> \/ Write(c)
<1>1. CASE IsLoaded(c) BY <1>1 DEF IsLoaded, Reads, keys
<1>2. CASE AskParent(c) BY <1>2 DEF AskParent, Reads, keys
<1>3. CASE AskChildren(c) BY <1>3 DEF AskChildren, Reads, keys
<1>4. CASE AskRoot(c) BY <1>4 DEF AskRoot, Reads, keys
<1>5. CASE Walk(c) BY <1>5 DEF Walk, Reads, keys
<1>6. CASE Level(c) BY <1>6 DEF Level, Reads, keys
<1>7. CASE Write(c) BY <1>7 DEF Write
<1> QED BY <1>1, <1>2, <1>3, <1>4, <1>5, <1>6, <1>7 DEF Advance

LEMMA CallFrame ==
  ASSUME NEW c \in Client, NEW op, NEW t, NEW p, Call(c, op, t, p)
  PROVE  UNCHANGED <<mode, store, status, root, zset, lpc, cachedRoot, edited, faults>>
BY DEF Call, keys

LEMMA LoadFrame ==
  ASSUME NEW l \in Loader, Begin(l) \/ Load(l) \/ LoaderFault(l)
  PROVE  /\ UNCHANGED <<mode, store, edited, cachedRoot>>
         /\ UNCHANGED call \/ \E calm \in [Client -> BOOLEAN] :
                                call' = [d \in Client |-> [call[d] EXCEPT !.calm = calm[d]]]
<1>1. CASE Begin(l)
  <2> DEFINE calm == [d \in Client |-> call[d].calm /\ call[d].step \in {"idle", "done"}]
  <2>1. calm \in [Client -> BOOLEAN]
    OBVIOUS
  <2>2. call' = [d \in Client |-> [call[d] EXCEPT !.calm = calm[d]]]
    BY <1>1 DEF Begin
  <2>3. UNCHANGED <<mode, store, edited, cachedRoot>>
    BY <1>1 DEF Begin
  <2> QED BY <2>1, <2>2, <2>3
<1>2. CASE Load(l)
  BY <1>2 DEF Load, DelZset, DelRoot, Scan, GetRootKey, SetFailed, ZAdd, SetLoaded, Abort, Frame, clientVars
<1>3. CASE LoaderFault(l)
  BY <1>3 DEF LoaderFault, clientVars
<1> QED BY <1>1, <1>2, <1>3

-----------------------------------------------------------------------------
(* Both directions of a relation.                                            *)

LEMMA SymmetricPair ==
  ASSUME NEW a, NEW b, NEW t, NEW p
  PROVE  <<t, "childOf", p>> \in Pair(a, b) <=> <<p, "parentOf", t>> \in Pair(a, b)
BY DEF Pair

LEMMA SymmetricHierarchy ==
  \A t, p \in Tenant : <<t, "childOf", p>> \in Hierarchy <=> <<p, "parentOf", t>> \in Hierarchy
BY DEF Hierarchy, Pair

LEMMA SymmetricStep == SymmetricRelations /\ [Next]_vars => SymmetricRelations'
<1> SUFFICES ASSUME SymmetricRelations, [Next]_vars PROVE SymmetricRelations'
  OBVIOUS
<1>1. ASSUME NEW l \in Loader, DelZset(l) PROVE SymmetricRelations'
  BY <1>1 DEF DelZset, SymmetricRelations
<1>2. ASSUME NEW l \in Loader, ZAdd(l) PROVE SymmetricRelations'
  BY <1>2, SymmetricHierarchy DEF ZAdd, SymmetricRelations
<1>3. ASSUME NEW l \in Loader,
             Begin(l) \/ DelRoot(l) \/ Scan(l) \/ GetRootKey(l) \/ SetFailed(l) \/ SetLoaded(l) \/ Abort(l)
               \/ LoaderFault(l)
      PROVE  zset' = zset
  BY <1>3 DEF Begin, DelRoot, Scan, GetRootKey, SetFailed, SetLoaded, Abort, LoaderFault, keys
<1>4. ASSUME NEW c \in Client, Write(c) PROVE SymmetricRelations'
  <2>1. \/ zset' = zset
        \/ zset' = zset \cup Pair(call[c].tenant, call[c].parent)
        \/ zset' = zset \ Pair(call[c].tenant, call[c].parent)
    BY <1>4 DEF Write
  <2> DEFINE written == Pair(call[c].tenant, call[c].parent)
  <2>2. \A t, p \in Tenant : <<t, "childOf", p>> \in written <=> <<p, "parentOf", t>> \in written
    BY SymmetricPair
  <2> HIDE DEF written
  <2>3. zset' = zset \/ zset' = zset \cup written \/ zset' = zset \ written
    BY <2>1 DEF written
  <2> QED BY <2>2, <2>3 DEF SymmetricRelations
<1>5. ASSUME NEW c \in Client, Advance(c) PROVE SymmetricRelations'
  BY <1>4, <1>5, AdvanceFrame DEF SymmetricRelations
<1>6. ASSUME NEW c \in Client, NEW op, NEW t, NEW p, Call(c, op, t, p) PROVE SymmetricRelations'
  BY <1>6, CallFrame DEF SymmetricRelations
<1>7. CASE UNCHANGED vars
  BY <1>7 DEF vars, SymmetricRelations
<1>8. zset' = zset => SymmetricRelations'
  BY DEF SymmetricRelations
<1> QED BY <1>1, <1>2, <1>3, <1>5, <1>6, <1>7, <1>8 DEF Next, Load

\* loader.go, modifier.go: readers that go up and readers that go down see the same
\* relations, whatever loads, calls and faults come in whatever order.
THEOREM SymmetricRelationsAlways == Spec => []SymmetricRelations
<1>1. Init => SymmetricRelations
  BY SymmetricHierarchy DEF Init, SymmetricRelations
<1> QED BY <1>1, SymmetricStep, PTL DEF Spec

-----------------------------------------------------------------------------
(* Overlapping loads.                                                        *)

\* A load that has not come through, or has given up.
Bad == {"setFailed", "abort", "joined", "error", "crashed"}
BeforeRoot == {"delZset", "delRoot", "txDel", "scan", "getRoot"}
BeforeAdd == BeforeRoot \cup {"zadd"}
Active == BeforeAdd \cup {"setLoaded"}

\* If no load has failed, what is missing in Redis some load has yet to write.
LoadInv ==
    /\ lpc \in [Loader -> LoaderPC]
    /\ root \in Roots \cup {NoTenant}
    /\ edited \/ zset \subseteq Hierarchy
    /\ (\A l \in Loader : lpc[l] \notin Bad) =>
         /\ (\E l \in Loader : lpc[l] = "loaded") => status = "loaded" \/ \E l \in Loader : lpc[l] \in Active
         /\ (\E l \in Loader : lpc[l] \in {"zadd", "setLoaded", "loaded"}) =>
              root \in Roots \/ \E l \in Loader : lpc[l] \in BeforeRoot
         /\ (\E l \in Loader : lpc[l] \in {"setLoaded", "loaded"}) =>
              edited \/ zset = Hierarchy \/ \E l \in Loader : lpc[l] \in BeforeAdd

LEMMA StoreFrame == store' = store => Roots' = Roots /\ Hierarchy' = Hierarchy
BY DEF Roots, Hierarchy

LEMMA LoadInvStep == LoadInv /\ [Next]_vars => LoadInv'
<1> SUFFICES ASSUME LoadInv, [Next]_vars PROVE LoadInv'
  OBVIOUS
<1> USE DEF Bad, BeforeRoot, BeforeAdd, Active, LoaderPC, Returned, InTransaction
<1>1. ASSUME NEW l \in Loader, Begin(l) PROVE LoadInv'
  BY <1>1, StoreFrame DEF Begin, LoadInv
<1>2. ASSUME NEW l \in Loader, DelZset(l) PROVE LoadInv'
  BY <1>2, StoreFrame DEF DelZset, LoadInv, Goto, Frame, clientVars
<1>3. ASSUME NEW l \in Loader, DelRoot(l) PROVE LoadInv'
  BY <1>3, StoreFrame DEF DelRoot, LoadInv, Goto, Frame, clientVars
<1>4. ASSUME NEW l \in Loader, Scan(l) PROVE LoadInv'
  BY <1>4, StoreFrame DEF Scan, LoadInv, Goto, Frame, clientVars
<1>5. ASSUME NEW l \in Loader, GetRootKey(l) PROVE LoadInv'
  BY <1>5, StoreFrame DEF GetRootKey, LoadInv, Goto, Frame, clientVars, keys
<1>6. ASSUME NEW l \in Loader, SetFailed(l) \/ Abort(l) \/ LoaderFault(l) PROVE LoadInv'
  BY <1>6, StoreFrame DEF SetFailed, Abort, LoaderFault, LoadInv, Goto, Frame, clientVars, keys
<1>7. ASSUME NEW l \in Loader, ZAdd(l) PROVE LoadInv'
  BY <1>7, StoreFrame DEF ZAdd, LoadInv, Goto, Frame, clientVars
<1>8. ASSUME NEW l \in Loader, SetLoaded(l) PROVE LoadInv'
  BY <1>8, StoreFrame DEF SetLoaded, LoadInv, Goto, Frame, clientVars
<1>9. ASSUME NEW c \in Client, Advance(c) PROVE LoadInv'
  <2>1. UNCHANGED <<mode, store, status, root, lpc>> /\ (UNCHANGED <<zset, edited>> \/ edited')
    BY <1>9, AdvanceFrame DEF Write
  <2> QED BY <2>1, StoreFrame DEF LoadInv
<1>10. ASSUME NEW c \in Client, NEW op, NEW t, NEW p, Call(c, op, t, p) PROVE LoadInv'
  BY <1>10, CallFrame, StoreFrame DEF LoadInv
<1>11. CASE UNCHANGED vars
  BY <1>11, StoreFrame DEF vars, LoadInv
<1> QED BY <1>1, <1>2, <1>3, <1>4, <1>5, <1>6, <1>7, <1>8, <1>9, <1>10, <1>11 DEF Next, Load

\* LoadTenantHierarchy (loader.go): loads that overlap in any way and all come
\* through leave the whole store and LOADED behind.
THEOREM SuccessIsCompleteAlways == Spec => []SuccessIsComplete
<1>1. Init => LoadInv
  BY DEF Init, LoadInv, LoaderPC, Returned
<1>2. LoadInv => SuccessIsComplete
  BY DEF LoadInv, SuccessIsComplete, Complete, Bad, Active, BeforeAdd, BeforeRoot
<1> QED BY <1>1, <1>2, LoadInvStep, PTL DEF Spec
-----------------------------------------------------------------------------
(* The calls of the clients.                                                 *)

\* The steps each method takes.
Sound(r) ==
    /\ r \in Calls
    /\ r.op = "none" => r.step = "idle"
    /\ r.op = "path" => r.step \in {"ancestors", "walk", "done"}
    /\ r.op = "descendants" => r.step \in {"level", "done"}
    /\ r.op = "add" => r.step \in {"parent", "root", "ancestors", "walk", "write"}
    /\ r.op = "remove" => r.step \in {"children", "parent", "write"}
    /\ r.op # "none" => r.tenant \in Tenant
    /\ r.op = "add" \/ r.step = "write" => r.parent \in Tenant

CallsSound == call \in [Client -> Calls] /\ \A c \in Client : Sound(call[c])

LEMMA IdleSound == Sound(Idle)
BY DEF Sound, Idle, Calls, Steps

\* A call stays the same call until it returns.
Follows(h, r) == Sound(h) /\ (h = Idle \/ (h.op = r.op /\ h.tenant = r.tenant /\ (r.op = "add" => h.parent = r.parent)))

\* What a step makes of the call of its own client.
LEMMA SetSound ==
  ASSUME CallsSound, NEW c \in Client, NEW h, Follows(h, call[c]), Set(c, h)
  PROVE  CallsSound' /\ Follows(call'[c], call[c]) /\ \A d \in Client \ {c} : call'[d] = call[d]
BY DEF CallsSound, Set, Sound, Follows

LEMMA CheckedSound ==
  ASSUME CallsSound, NEW c \in Client, Busy(c)
  PROVE  Follows(Checked(c), call[c])
<1> DEFINE r == call[c]
<1>1. Sound(r)
  BY DEF CallsSound
<1>2. CASE r.step = "ancestors"
  <2> DEFINE from == IF r.op = "add" THEN r.parent ELSE r.tenant
  <2>1. Checked(c) = [r EXCEPT !.step = "walk", !.at = {from}]
    BY <1>2 DEF Checked
  <2>2. from \in Tenant /\ r.op \in {"add", "path"}
    BY <1>1, <1>2 DEF Sound, Calls
  <2>3. {from} \in SUBSET Tenant
    BY <2>2
  <2> HIDE DEF from
  <2>4. Checked(c) \in Calls
    BY <1>1, <2>1, <2>3 DEF Sound, Calls, Steps
  <2>5. /\ Checked(c).op = r.op /\ Checked(c).step = "walk" /\ Checked(c).tenant = r.tenant
        /\ Checked(c).parent = r.parent
    BY <1>1, <2>1 DEF Sound, Calls
  <2> QED BY <1>1, <2>2, <2>4, <2>5 DEF Sound, Follows
<1>3. CASE r.step = "level"
  <2>1. Checked(c) = [r EXCEPT !.checked = TRUE, !.at = {r.tenant}]
    BY <1>3 DEF Checked
  <2>2. r.tenant \in Tenant
    BY <1>1, <1>3 DEF Sound
  <2>3. {r.tenant} \in SUBSET Tenant
    BY <2>2
  <2>4. Checked(c) \in Calls
    BY <1>1, <2>1, <2>3 DEF Sound, Calls
  <2>5. /\ Checked(c).op = r.op /\ Checked(c).step = r.step /\ Checked(c).tenant = r.tenant
        /\ Checked(c).parent = r.parent
    BY <1>1, <2>1 DEF Sound, Calls
  <2> QED BY <1>1, <2>4, <2>5 DEF Sound, Follows
<1>4. CASE r.step \notin {"ancestors", "level"}
  <2>1. Checked(c) = [r EXCEPT !.checked = TRUE]
    BY <1>4 DEF Checked
  <2> QED BY <1>1, <2>1 DEF Sound, Calls, Follows
<1> QED BY <1>2, <1>3, <1>4
LEMMA AdvanceSound ==
  ASSUME CallsSound, NEW c \in Client, Advance(c)
  PROVE  CallsSound' /\ Follows(call'[c], call[c]) /\ \A d \in Client \ {c} : call'[d] = call[d]
<1> DEFINE r == call[c]
<1>1. Sound(r) /\ r \in Calls
  BY DEF CallsSound
<1> DEFINE Goal == CallsSound' /\ Follows(call'[c], call[c]) /\ \A d \in Client \ {c} : call'[d] = call[d]
<1>2. Return(c) => Goal
  BY IdleSound, SetSound DEF Return, Follows
<1>3. CASE IsLoaded(c)
  BY <1>2, <1>3, CheckedSound, SetSound DEF IsLoaded
<1>4. CASE AskParent(c)
  <2>1. /\ r.step = "parent"
        /\ \/ r.op = "add" /\ Set(c, [r EXCEPT !.step = "root", !.checked = FALSE])
           \/ r.op = "remove" /\ \E p \in Tenant : Set(c, [r EXCEPT !.step = "write", !.parent = p])
           \/ Return(c)
    <3>1. PICK found \in SUBSET Tenant :
            /\ At(c, "parent")
            /\ CASE r.op = "add" /\ found = {} -> Set(c, [r EXCEPT !.step = "root", !.checked = FALSE])
                 [] r.op = "remove" /\ Cardinality(found) = 1 ->
                      \E p \in found : Set(c, [r EXCEPT !.step = "write", !.parent = p])
                 [] OTHER -> Return(c)
      BY <1>4 DEF AskParent
    <3>2. r.step = "parent"
      BY <3>1 DEF At
    <3>3. CASE r.op = "add" /\ found = {}
      BY <3>1, <3>2, <3>3
    <3>4. CASE r.op = "remove" /\ Cardinality(found) = 1
      BY <3>1, <3>2, <3>4
    <3>5. CASE ~(r.op = "add" /\ found = {}) /\ ~(r.op = "remove" /\ Cardinality(found) = 1)
      BY <3>1, <3>2, <3>5
    <3> QED BY <3>3, <3>4, <3>5
  <2>2. r.op = "add" => Follows([r EXCEPT !.step = "root", !.checked = FALSE], r)
    BY <1>1 DEF Follows, Sound, Calls, Steps
  <2>3. ASSUME NEW p \in Tenant, r.op = "remove" PROVE Follows([r EXCEPT !.step = "write", !.parent = p], r)
    BY <1>1, <2>1, <2>3 DEF Follows, Sound, Calls, Steps
  <2> QED BY <1>2, <2>1, <2>2, <2>3, SetSound
<1>5. CASE AskChildren(c)
  <2>1. r.step = "children" /\ (Set(c, [r EXCEPT !.step = "parent", !.checked = FALSE]) \/ Return(c))
    BY <1>5 DEF AskChildren, At
  <2>2. Follows([r EXCEPT !.step = "parent", !.checked = FALSE], r)
    BY <1>1, <2>1 DEF Follows, Sound, Calls, Steps
  <2> QED BY <1>2, <2>1, <2>2, SetSound
<1>6. CASE AskRoot(c)
  <2>1. r.step = "root" /\ (Set(c, [r EXCEPT !.step = "ancestors", !.checked = FALSE]) \/ Return(c))
    BY <1>6 DEF AskRoot, At
  <2>2. Follows([r EXCEPT !.step = "ancestors", !.checked = FALSE], r)
    BY <1>1, <2>1 DEF Follows, Sound, Calls, Steps
  <2> QED BY <1>2, <2>1, <2>2, SetSound
<1>7. CASE Walk(c)
  <2>1. /\ r.step = "walk"
        /\ \/ Walked(c) \/ Return(c)
           \/ \E found \in SUBSET Tenant :
                Set(c, [r EXCEPT !.checked = FALSE, !.at = found, !.seen = @ \cup found])
    BY <1>7 DEF Walk, At
  <2>2. CASE Walked(c)
    <3>1. \/ r.op = "path" /\ Set(c, [r EXCEPT !.step = "done"])
          \/ r.op # "path" /\ Set(c, [r EXCEPT !.step = "write"])
          \/ Return(c)
      BY <2>2 DEF Walked
    <3>2. r.op = "path" => Follows([r EXCEPT !.step = "done"], r)
      BY <1>1 DEF Follows, Sound, Calls, Steps
    <3>3. r.op # "path" => r.op = "add"
      BY <1>1, <2>1 DEF Follows, Sound, Calls
    <3>4. r.op = "add" => Follows([r EXCEPT !.step = "write"], r)
      BY <1>1 DEF Follows, Sound, Calls, Steps
    <3> QED BY <1>2, <3>1, <3>2, <3>3, <3>4, SetSound
  <2>3. ASSUME NEW found \in SUBSET Tenant
        PROVE  Follows([r EXCEPT !.checked = FALSE, !.at = found, !.seen = @ \cup found], r)
    <3> DEFINE seen == r.seen \cup found
    <3>1. seen \in SUBSET Tenant
      BY <1>1 DEF Calls
    <3> HIDE DEF seen
    <3>2. Follows([r EXCEPT !.checked = FALSE, !.at = found, !.seen = seen], r)
      BY <1>1, <3>1 DEF Follows, Sound, Calls
    <3> QED BY <3>2 DEF seen
  <2> QED BY <1>2, <2>1, <2>2, <2>3, SetSound
<1>8. CASE Level(c)
  <2> DEFINE found == UNION {Children(t) : t \in r.at}
             seen == r.seen \cup found
             next == [r EXCEPT !.at = found, !.seen = seen, !.step = IF found = {} THEN "done" ELSE @]
  <2>1. r.step = "level" /\ (Set(c, next) \/ Return(c))
    BY <1>8 DEF Level, At
  <2>2. found \in SUBSET Tenant
    BY DEF Children
  <2>3. seen \in SUBSET Tenant
    BY <1>1, <2>2 DEF Calls
  <2> HIDE DEF found, seen
  <2>4. Follows(next, r)
    BY <1>1, <2>1, <2>2, <2>3 DEF Follows, Sound, Calls, Steps
  <2> QED BY <1>2, <2>1, <2>4, SetSound
<1>9. CASE Write(c)
  BY <1>2, <1>9 DEF Write
<1> QED BY <1>3, <1>4, <1>5, <1>6, <1>7, <1>8, <1>9 DEF Advance
\* A call begins.
LEMMA CallSound ==
  ASSUME CallsSound, NEW c \in Client, NEW op \in DOMAIN FirstStep, NEW t \in Tenant,
         NEW p \in Tenant \cup {NoTenant}, Call(c, op, t, p)
  PROVE  CallsSound' /\ call'[c].op = op /\ call'[c].step = FirstStep[op]
           /\ \A d \in Client \ {c} : call'[d] = call[d]
<1> DEFINE h == [Idle EXCEPT !.op = op, !.step = FirstStep[op], !.tenant = t, !.parent = p]
<1>1. op \in {"add", "remove", "path", "descendants"}
  BY DEF FirstStep
<1>2. /\ op = "add" => FirstStep[op] = "parent" /\ p \in Tenant
      /\ op = "remove" => FirstStep[op] = "children"
      /\ op = "path" => FirstStep[op] = "ancestors"
      /\ op = "descendants" => FirstStep[op] = "level"
  BY DEF FirstStep, Call
<1> HIDE DEF FirstStep
<1>3. h \in Calls
  BY <1>1, <1>2, IdleSound DEF Idle, Calls, Steps
<1>4. h.op = op /\ h.step = FirstStep[op] /\ h.tenant = t /\ h.parent = p
  BY DEF Idle
<1>5. Sound(h)
  BY <1>1, <1>2, <1>3, <1>4 DEF Sound
<1>6. call' = [call EXCEPT ![c] = h]
  BY DEF Call, Set
<1> HIDE DEF h
<1> QED BY <1>3, <1>4, <1>5, <1>6 DEF CallsSound

\* A load changes nothing of a call but the record of its calm.
LEMMA LoadSound ==
  ASSUME CallsSound, NEW l \in Loader, Begin(l) \/ Load(l) \/ LoaderFault(l)
  PROVE  CallsSound' /\ \A c \in Client : call'[c].op = call[c].op /\ call'[c].step = call[c].step
<1>1. CASE UNCHANGED call
  BY <1>1 DEF CallsSound, Sound
<1>2. ASSUME NEW calm \in [Client -> BOOLEAN],
             call' = [d \in Client |-> [call[d] EXCEPT !.calm = calm[d]]]
      PROVE  CallsSound' /\ \A c \in Client : call'[c].op = call[c].op /\ call'[c].step = call[c].step
  <2>1. ASSUME NEW c \in Client
        PROVE  Sound(call'[c]) /\ call'[c].op = call[c].op /\ call'[c].step = call[c].step
    BY <1>2 DEF CallsSound, Sound, Calls
  <2>2. call' \in [Client -> Calls]
    BY <1>2, <2>1 DEF Sound
  <2> QED BY <2>1, <2>2 DEF CallsSound, Sound
<1> QED BY <1>1, <1>2, LoadFrame

LEMMA CallsSoundStep == CallsSound /\ [Next]_vars => CallsSound'
<1> SUFFICES ASSUME CallsSound, [Next]_vars PROVE CallsSound'
  OBVIOUS
<1>1. CASE UNCHANGED vars
  BY <1>1 DEF vars, CallsSound, Sound
<1> QED BY <1>1, LoadSound, AdvanceSound, CallSound DEF Next
-----------------------------------------------------------------------------
(* One load at a time.                                                       *)

\* In the middle of a load the status says so, and what there is in Redis is what
\* the load has got to.
BootInv ==
    mode = "bootstrap" =>
        /\ \A c \in Client : call[c].op \notin {"add", "remove"}
        /\ \A k, l \in Loader : lpc[k] \notin Returned /\ lpc[l] \notin Returned => k = l
        /\ \A l \in Loader : lpc[l] \notin Returned => status # "loaded"
        /\ \A l \in Loader : lpc[l] \in {"delRoot", "txDel", "scan", "getRoot", "zadd"} => zset = {}
        /\ \A l \in Loader : lpc[l] \in {"zadd", "setLoaded"} => root \in Roots
        /\ \A l \in Loader : lpc[l] = "setLoaded" => zset = Hierarchy
        /\ status = "loaded" => Complete

LEMMA BootLoad ==
  ASSUME LoadInv, CallsSound, BootInv, NEW l \in Loader, Begin(l) \/ Load(l) \/ LoaderFault(l)
  PROVE  BootInv'
<1> USE DEF LoaderPC, Returned, InTransaction
<1>1. lpc \in [Loader -> LoaderPC] /\ root \in Roots \cup {NoTenant}
  BY DEF LoadInv
<1>2. mode' = mode /\ Roots' = Roots /\ Hierarchy' = Hierarchy
  BY LoadFrame, StoreFrame
<1>3. \A c \in Client : call'[c].op = call[c].op
  BY LoadSound
<1> HIDE DEF Roots, Hierarchy
<1>4. CASE Begin(l)
  BY <1>1, <1>2, <1>3, <1>4 DEF Begin, BootInv, Complete
<1>5. CASE DelZset(l)
  BY <1>1, <1>2, <1>3, <1>5 DEF DelZset, BootInv, Complete, Goto
<1>6. CASE DelRoot(l)
  BY <1>1, <1>2, <1>3, <1>6 DEF DelRoot, BootInv, Complete, Goto
<1>7. CASE Scan(l)
  BY <1>1, <1>2, <1>3, <1>7 DEF Scan, BootInv, Complete, Goto
<1>8. CASE GetRootKey(l)
  BY <1>1, <1>2, <1>3, <1>8 DEF GetRootKey, BootInv, Complete, Goto, keys
<1>9. CASE SetFailed(l)
  BY <1>1, <1>2, <1>3, <1>9 DEF SetFailed, BootInv, Complete, Goto
<1>10. CASE ZAdd(l)
  BY <1>1, <1>2, <1>3, <1>10 DEF ZAdd, BootInv, Complete, Goto
<1>11. CASE SetLoaded(l)
  BY <1>1, <1>2, <1>3, <1>11 DEF SetLoaded, BootInv, Complete, Goto
<1>12. CASE Abort(l)
  BY <1>1, <1>2, <1>3, <1>12 DEF Abort, BootInv, Complete, Goto, keys
<1>13. CASE LoaderFault(l)
  BY <1>1, <1>2, <1>3, <1>13 DEF LoaderFault, BootInv, Complete
<1> QED BY <1>4, <1>5, <1>6, <1>7, <1>8, <1>9, <1>10, <1>11, <1>12, <1>13 DEF Load

\* Clients only read.
LEMMA BootClient ==
  ASSUME CallsSound, BootInv, NEW c \in Client,
         \/ Advance(c)
         \/ \E op \in DOMAIN FirstStep, t \in Tenant, p \in Tenant \cup {NoTenant} : Call(c, op, t, p)
  PROVE  BootInv'
<1> SUFFICES ASSUME mode' = "bootstrap" PROVE BootInv'
  BY DEF BootInv
<1>1. CASE Advance(c)
  <2>1. UNCHANGED <<mode, store, status, root, lpc>>
    BY <1>1, AdvanceFrame
  <2>2. ~Write(c)
    BY <2>1 DEF BootInv, CallsSound, Sound, Calls, Write, Busy
  <2>3. zset' = zset
    BY <1>1, <2>2, AdvanceFrame
  <2>4. \A d \in Client : call'[d].op \in {call[d].op, "none"}
    BY <1>1, AdvanceSound DEF Follows, Idle
  <2> QED BY <2>1, <2>3, <2>4, StoreFrame DEF BootInv, Complete
<1>2. ASSUME NEW op \in DOMAIN FirstStep, NEW t \in Tenant, NEW p \in Tenant \cup {NoTenant}, Call(c, op, t, p)
      PROVE  BootInv'
  <2>1. UNCHANGED <<mode, store, status, root, zset, lpc>>
    BY <1>2, CallFrame
  <2>2. op \notin {"add", "remove"}
    BY <1>2, <2>1 DEF Call
  <2>3. \A d \in Client : call'[d].op \in {call[d].op, op}
    BY <1>2, CallSound
  <2> QED BY <2>1, <2>2, <2>3, StoreFrame DEF BootInv, Complete
<1> QED BY <1>1, <1>2

\* LoadTenantHierarchy (loader.go): while loads do not overlap a status of LOADED
\* means the whole store is in Redis, although any load may fail or die at any
\* command.
THEOREM LoadedIsCompleteAlways == Spec => []LoadedIsComplete
<1> DEFINE Inv == LoadInv /\ CallsSound /\ BootInv
<1>1. Init => Inv
  <2> SUFFICES ASSUME Init PROVE Inv
    OBVIOUS
  <2>1. LoadInv
    BY DEF Init, LoadInv, LoaderPC, Returned
  <2>2. CallsSound
    BY IdleSound DEF Init, CallsSound, Sound
  <2>3. BootInv
    BY DEF Init, BootInv, Idle, Returned
  <2> QED BY <2>1, <2>2, <2>3
<1>2. Inv /\ [Next]_vars => Inv'
  <2> SUFFICES ASSUME Inv, [Next]_vars PROVE BootInv'
    BY LoadInvStep, CallsSoundStep
  <2>1. CASE UNCHANGED vars
    BY <2>1, StoreFrame DEF vars, BootInv, Complete
  <2> QED BY <2>1, BootLoad, BootClient DEF Next
<1>3. Inv => LoadedIsComplete
  BY DEF BootInv, LoadedIsComplete
<1> QED BY <1>1, <1>2, <1>3, PTL DEF Spec
-----------------------------------------------------------------------------
(* One modification at a time.                                               *)

\* What is loaded has no cycle: every set of tenants has one whose parent is not in
\* it.
TreeStores ==
    \A s \in TenantStores, S \in SUBSET Tenant :
        S # {} => \E t \in S : \A p \in S : ~(t \in DOMAIN s /\ s[t] = p)

OneParent == \A t \in Tenant : \A p, q \in Parents(t) : p = q
Acyclic == \A S \in SUBSET Tenant : S # {} => \E t \in S : Parents(t) \cap S = {}

\* A new parent whose ancestors, which `up' holds all of, do not include the tenant
\* keeps the hierarchy a tree.
LEMMA AddKeepsAcyclic ==
  ASSUME Acyclic, NEW tenant \in Tenant, NEW parent \in Tenant, NEW up \in SUBSET Tenant,
         Parents(tenant) = {}, parent \in up, tenant \notin up,
         \A x \in up : Parents(x) \subseteq up,
         \A t \in Tenant : Parents(t)' = IF t = tenant THEN {parent} ELSE Parents(t)
  PROVE  Acyclic'
<1> SUFFICES ASSUME NEW S \in SUBSET Tenant, S # {}
             PROVE  \E t \in S : Parents(t)' \cap S = {}
  BY DEF Acyclic
<1>1. CASE S \cap up # {}
  <2>1. PICK t \in S \cap up : Parents(t) \cap (S \cap up) = {}
    BY <1>1 DEF Acyclic
  <2>2. Parents(t)' = Parents(t) /\ Parents(t) \subseteq up
    BY <2>1
  <2> QED BY <2>1, <2>2
<1>2. CASE S \cap up = {}
  <2>1. PICK t \in S : Parents(t) \cap S = {}
    BY DEF Acyclic
  <2>2. Parents(t)' \cap S = {}
    BY <1>2, <2>1
  <2> QED BY <2>2
<1> QED BY <1>1, <1>2

\* How far AddTenant has got with its checks: the tenant has no parent and is not
\* the root, and the ancestors of the new parent are among those seen, up to the one
\* to be asked next.
AddInv(r) ==
    LET up == r.seen \cup {r.parent} IN
    r.op = "add" =>
        /\ r.step \in {"parent", "root", "ancestors"} => r.seen = {}
        /\ r.step \in {"root", "ancestors", "walk", "write"} => Parents(r.tenant) = {}
        /\ r.step \in {"ancestors", "walk", "write"} => r.tenant # root
        /\ r.step = "walk" => r.at \subseteq up /\ \A x \in up \ r.at : Parents(x) \subseteq up
        /\ r.step = "write" => r.tenant \notin up /\ \A x \in up : Parents(x) \subseteq up

ForestInv ==
    mode = "serving" =>
        /\ OneParent /\ Acyclic /\ Parents(root) = {}
        /\ \A l \in Loader : lpc[l] \in Returned
        /\ cachedRoot \in {NoTenant, root}
        /\ \A c, d \in Client :
              call[c].op \in {"add", "remove"} /\ call[d].op \in {"add", "remove"} => c = d
        /\ \A c \in Client : AddInv(call[c])

\* AddTenant's own step before it writes.
LEMMA AddStep ==
  ASSUME CallsSound, mode = "serving", NEW c \in Client, AddInv(call[c]), cachedRoot \in {NoTenant, root},
         call[c].op = "add", Advance(c), ~Write(c), UNCHANGED <<zset, root>>
  PROVE  AddInv(call[c])' /\ cachedRoot' \in {NoTenant, root}
<1> DEFINE r == call[c]
<1>1. Sound(r) /\ r \in Calls
  BY DEF CallsSound
<1>2. \A t : Parents(t)' = Parents(t)
  BY DEF Parents
<1>3. Return(c) => AddInv(call[c])'
  BY DEF Return, Set, CallsSound, AddInv, Idle
<1>4. ~Fault
  BY DEF Fault
<1>5. CASE IsLoaded(c)
  <2>1. cachedRoot' = cachedRoot /\ (Return(c) \/ Set(c, Checked(c))) /\ Busy(c)
    BY <1>5 DEF IsLoaded
  <2>2. CASE r.step = "ancestors"
    <3> DEFINE h == [r EXCEPT !.step = "walk", !.at = {r.parent}]
    <3>1. Checked(c) = h
      BY <2>2 DEF Checked
    <3>2. h.op = r.op /\ h.step = "walk" /\ h.at = {r.parent} /\ h.seen = r.seen /\ h.parent = r.parent
            /\ h.tenant = r.tenant
      BY <1>1 DEF Calls
    <3> HIDE DEF h
    <3>3. Set(c, h) => call'[c] = h
      BY DEF Set, CallsSound
    <3> QED BY <1>2, <1>3, <2>1, <2>2, <3>1, <3>2, <3>3 DEF AddInv
  <2>3. CASE r.step # "ancestors"
    <3> DEFINE h == [r EXCEPT !.checked = TRUE]
    <3>1. Checked(c) = h
      BY <1>1, <2>3 DEF Checked, Sound
    <3>2. h.op = r.op /\ h.step = r.step /\ h.at = r.at /\ h.seen = r.seen /\ h.parent = r.parent
            /\ h.tenant = r.tenant
      BY <1>1 DEF Calls
    <3> HIDE DEF h
    <3>3. Set(c, h) => call'[c] = h
      BY DEF Set, CallsSound
    <3> QED BY <1>2, <1>3, <2>1, <3>1, <3>2, <3>3 DEF AddInv
  <2> QED BY <2>2, <2>3
<1>6. CASE AskParent(c)
  <2>1. PICK found \in SUBSET Tenant :
          /\ At(c, "parent") /\ Query(found, Parents(r.tenant))
          /\ CASE r.op = "add" /\ found = {} -> Set(c, [r EXCEPT !.step = "root", !.checked = FALSE])
               [] r.op = "remove" /\ Cardinality(found) = 1 ->
                    \E p \in found : Set(c, [r EXCEPT !.step = "write", !.parent = p])
               [] OTHER -> Return(c)
    BY <1>6 DEF AskParent
  <2>2. cachedRoot' = cachedRoot /\ r.step = "parent" /\ found = Parents(r.tenant)
    BY <1>4, <1>6, <2>1 DEF AskParent, At, Query
  <2>3. CASE found = {}
    <3> DEFINE h == [r EXCEPT !.step = "root", !.checked = FALSE]
    <3>1. Set(c, h)
      BY <2>1, <2>3
    <3>2. h.op = r.op /\ h.step = "root" /\ h.seen = r.seen /\ h.tenant = r.tenant
      BY <1>1 DEF Calls
    <3> HIDE DEF h
    <3>3. call'[c] = h
      BY <3>1 DEF Set, CallsSound
    <3> QED BY <1>2, <2>2, <2>3, <3>2, <3>3 DEF AddInv
  <2>4. CASE found # {}
    BY <1>3, <2>1, <2>2, <2>4
  <2> QED BY <2>3, <2>4
<1>7. CASE AskChildren(c)
  BY <1>1, <1>7 DEF AskChildren, At, Sound
<1>8. CASE AskRoot(c)
  <2> DEFINE h == [r EXCEPT !.step = "ancestors", !.checked = FALSE]
             found == IF cachedRoot = NoTenant THEN root ELSE cachedRoot
  <2>1. /\ r.step = "root" /\ cachedRoot' = found
        /\ Return(c) \/ (found # r.tenant /\ Set(c, h))
    BY <1>4, <1>8 DEF AskRoot, At
  <2>2. found = root
    OBVIOUS
  <2>3. h.op = r.op /\ h.step = "ancestors" /\ h.seen = r.seen /\ h.tenant = r.tenant
    BY <1>1 DEF Calls
  <2> HIDE DEF h, found
  <2>4. Set(c, h) => call'[c] = h
    BY DEF Set, CallsSound
  <2> QED BY <1>2, <1>3, <2>1, <2>2, <2>3, <2>4 DEF AddInv
<1>9. CASE Walk(c)
  <2>1. PICK found \in SUBSET Tenant :
          /\ At(c, "walk") /\ Query(found, UNION {Parents(t) : t \in r.at})
          /\ CASE found = {} -> Walked(c)
               [] Cardinality(found) = 1 ->
                    Set(c, [r EXCEPT !.checked = FALSE, !.at = found, !.seen = @ \cup found])
               [] OTHER -> Return(c)
    BY <1>9 DEF Walk
  <2>2. cachedRoot' = cachedRoot /\ r.step = "walk" /\ found = UNION {Parents(t) : t \in r.at}
    BY <1>4, <1>9, <2>1 DEF Walk, At, Query
  <2>3. \A x \in r.at : Parents(x) \subseteq found
    BY <2>2
  <2>4. CASE found = {}
    <3> DEFINE h == [r EXCEPT !.step = "write"]
    <3>1. Return(c) \/ (r.tenant \notin r.seen \cup {r.parent} /\ Set(c, h))
      <4>1. Walked(c)
        BY <2>1, <2>4, FS_EmptySet
      <4> QED BY <4>1 DEF Walked
    <3>2. h.op = r.op /\ h.step = "write" /\ h.seen = r.seen /\ h.tenant = r.tenant /\ h.parent = r.parent
      BY <1>1 DEF Calls
    <3> HIDE DEF h
    <3>3. Set(c, h) => call'[c] = h
      BY DEF Set, CallsSound
    <3>4. \A x \in r.seen \cup {r.parent} : Parents(x) \subseteq r.seen \cup {r.parent}
      BY <2>2, <2>3, <2>4 DEF AddInv
    <3> QED BY <1>2, <1>3, <2>2, <3>1, <3>2, <3>3, <3>4 DEF AddInv
  <2>5. CASE found # {} /\ Cardinality(found) = 1
    <3> DEFINE seen == r.seen \cup found
               h == [r EXCEPT !.checked = FALSE, !.at = found, !.seen = seen]
    <3>1. Set(c, h)
      BY <2>1, <2>5
    <3>2. h.op = r.op /\ h.step = "walk" /\ h.seen = seen /\ h.tenant = r.tenant /\ h.parent = r.parent
            /\ h.at = found
      BY <1>1, <2>2 DEF Calls
    <3> HIDE DEF h
    <3>3. call'[c] = h
      BY <3>1 DEF Set, CallsSound
    <3>4. \A x \in (seen \cup {r.parent}) \ found : Parents(x) \subseteq seen \cup {r.parent}
      BY <2>2, <2>3 DEF AddInv
    <3> QED BY <1>2, <2>2, <3>2, <3>3, <3>4 DEF AddInv
  <2>6. CASE found # {} /\ Cardinality(found) # 1
    BY <1>3, <2>1, <2>2, <2>6
  <2> QED BY <2>4, <2>5, <2>6
<1>10. CASE Level(c)
  BY <1>1, <1>10 DEF Level, At, Sound
<1> QED BY <1>5, <1>6, <1>7, <1>8, <1>9, <1>10 DEF Advance
\* AddTenant and RemoveTenant write.
LEMMA WriteStep ==
  ASSUME CallsSound, mode = "serving", mode' = mode, ForestInv, NEW c \in Client, Write(c)
  PROVE  ForestInv'
<1> DEFINE r == call[c]
           up == r.seen \cup {r.parent}
<1>1. Sound(r) /\ r.step = "write" /\ r \in Calls
  BY DEF CallsSound, Write
<1>2. r.op \in {"add", "remove"} /\ r.tenant \in Tenant /\ r.parent \in Tenant /\ r.seen \in SUBSET Tenant
  BY <1>1 DEF Sound, Calls
<1>3. UNCHANGED <<root, lpc, cachedRoot>> /\ call' = [call EXCEPT ![c] = Idle]
  BY DEF Write, Return, Set
<1>4. \A d \in Client : call'[d].op \notin {"add", "remove"}
  BY <1>2, <1>3 DEF CallsSound, ForestInv, Idle
<1>5. zset' = IF r.op = "add" THEN zset \cup Pair(r.tenant, r.parent) ELSE zset \ Pair(r.tenant, r.parent)
  BY DEF Write, Fault
<1>6. OneParent /\ Acyclic /\ Parents(root) = {} /\ AddInv(r)
  BY DEF ForestInv
<1>7. CASE r.op = "add"
  <2>1. /\ Parents(r.tenant) = {} /\ r.tenant # root /\ r.tenant \notin up
        /\ \A x \in up : Parents(x) \subseteq up
    BY <1>1, <1>6, <1>7 DEF AddInv
  <2>2. \A t : Parents(t)' = IF t = r.tenant THEN {r.parent} ELSE Parents(t)
    <3>1. ASSUME NEW t, NEW p \in Tenant
          PROVE  p \in Parents(t)' <=> p \in Parents(t) \/ (t = r.tenant /\ p = r.parent)
      BY <1>5, <1>7 DEF Parents, Pair
    <3>2. \A t : Parents(t) \subseteq Tenant /\ Parents(t)' \subseteq Tenant
      BY DEF Parents
    <3> QED BY <1>2, <2>1, <3>1, <3>2
  <2>3. up \in SUBSET Tenant /\ r.parent \in up
    BY <1>2
  <2>4. Acyclic'
    BY <1>2, <1>6, <2>1, <2>2, <2>3, AddKeepsAcyclic
  <2>5. OneParent' /\ Parents(root)' = {}
    BY <1>3, <1>6, <2>1, <2>2 DEF OneParent
  <2> QED BY <1>3, <1>4, <2>4, <2>5 DEF ForestInv, AddInv
<1>8. CASE r.op # "add"
  <2>1. \A t : Parents(t)' \subseteq Parents(t)
    BY <1>5, <1>8 DEF Parents
  <2>2. Acyclic'
    BY <1>6, <2>1 DEF Acyclic
  <2>3. OneParent' /\ Parents(root)' = {}
    BY <1>3, <1>6, <2>1 DEF OneParent
  <2> QED BY <1>3, <1>4, <2>2, <2>3 DEF ForestInv, AddInv
<1> QED BY <1>7, <1>8

LEMMA SameParents ==
  zset' = zset /\ root' = root =>
      /\ \A t : Parents(t)' = Parents(t)
      /\ OneParent' = OneParent /\ Acyclic' = Acyclic
BY DEF Parents, OneParent, Acyclic

LEMMA ForestStep == CallsSound /\ ForestInv /\ [Next]_vars => ForestInv'
<1> SUFFICES ASSUME CallsSound, ForestInv, [Next]_vars PROVE ForestInv'
  OBVIOUS
<1>0. mode' = mode
  BY LoadFrame, AdvanceFrame, CallFrame DEF Next, vars
<1> SUFFICES ASSUME mode = "serving" PROVE ForestInv'
  BY <1>0 DEF ForestInv
<1>1. ASSUME NEW l \in Loader PROVE ~(Begin(l) \/ Load(l) \/ LoaderFault(l))
  <2>1. lpc[l] \in Returned
    BY DEF ForestInv
  <2> QED BY <2>1 DEF Begin, Load, LoaderFault, DelZset, DelRoot, Scan, GetRootKey, SetFailed, ZAdd,
                SetLoaded, Abort, Goto, Returned
<1>2. ASSUME NEW c \in Client, Advance(c), ~Write(c) PROVE ForestInv'
  <2>1. UNCHANGED <<mode, root, lpc, zset>>
    BY <1>2, AdvanceFrame
  <2>2. Follows(call'[c], call[c]) /\ \A d \in Client \ {c} : call'[d] = call[d]
    BY <1>2, AdvanceSound
  <2>3. \A d \in Client : call'[d].op \in {call[d].op, "none"}
    BY <2>2 DEF Follows, Idle
  <2>4. AddInv(call[c])' /\ cachedRoot' \in {NoTenant, root}
    <3>1. CASE call[c].op = "add"
      BY <1>2, <2>1, <3>1, AddStep DEF ForestInv
    <3>2. CASE call[c].op # "add"
      <4>1. AddInv(call[c])'
        BY <2>3, <3>2 DEF AddInv
      <4>2. cachedRoot' \in {NoTenant, root}
        BY <1>2 DEF ForestInv, Advance, IsLoaded, AskParent, AskChildren, AskRoot, Walk, Level
      <4> QED BY <4>1, <4>2
    <3> QED BY <3>1, <3>2
  <2>5. \A d \in Client \ {c} : AddInv(call[d])'
    BY <2>1, <2>2, SameParents DEF ForestInv, AddInv
  <2>6. \A d \in Client : AddInv(call[d])'
    BY <2>4, <2>5
  <2>7. Parents(root)' = Parents(root)
    BY <2>1, SameParents
  <2> QED BY <2>1, <2>3, <2>4, <2>6, <2>7, SameParents DEF ForestInv
<1>3. ASSUME NEW c \in Client, Write(c) PROVE ForestInv'
  BY <1>3, WriteStep DEF Write
<1>4. ASSUME NEW c \in Client, NEW op \in DOMAIN FirstStep, NEW t \in Tenant,
             NEW p \in Tenant \cup {NoTenant}, Call(c, op, t, p)
      PROVE  ForestInv'
  <2>1. UNCHANGED <<mode, root, lpc, zset, cachedRoot>>
    BY <1>4, CallFrame
  <2>2. call'[c].op = op /\ call'[c].step = FirstStep[op] /\ \A d \in Client \ {c} : call'[d] = call[d]
    BY <1>4, CallSound
  <2>3. op \in {"add", "remove"} => \A d \in Client : call[d].op \notin {"add", "remove"}
    BY <1>4 DEF Call, Modifies, Busy, CallsSound, Sound
  <2>4. AddInv(call[c])'
    <3>1. op = "add" => FirstStep[op] = "parent"
      BY DEF FirstStep
    <3>2. call'[c].seen = {}
      BY <1>4 DEF Call, Set, CallsSound, Idle
    <3> QED BY <2>2, <3>1, <3>2 DEF AddInv
  <2>5. \A d \in Client \ {c} : AddInv(call[d])'
    BY <2>1, <2>2, SameParents DEF ForestInv, AddInv
  <2>6. \A d, e \in Client :
          call'[d].op \in {"add", "remove"} /\ call'[e].op \in {"add", "remove"} => d = e
    BY <2>2, <2>3 DEF ForestInv
  <2> QED BY <2>1, <2>4, <2>5, <2>6, SameParents DEF ForestInv
<1>5. CASE UNCHANGED vars
  BY <1>5, SameParents DEF vars, ForestInv, AddInv
<1> QED BY <1>1, <1>2, <1>3, <1>4, <1>5 DEF Next

\* AddTenant and RemoveTenant (modifier.go): if the hierarchy is loaded without a
\* cycle it stays a tree with the same root, however many tenants there are,
\* whatever is called, and although the cycle check reads one relation at a time.
THEOREM ForestAlways == TreeStores /\ NoTenant \notin Tenant => (Spec => []Forest)
<1> SUFFICES ASSUME TreeStores, NoTenant \notin Tenant PROVE Spec => []Forest
  OBVIOUS
<1>1. Init => CallsSound /\ ForestInv
  <2> SUFFICES ASSUME Init PROVE CallsSound /\ ForestInv
    OBVIOUS
  <2>1. CallsSound
    BY IdleSound DEF Init, CallsSound, Sound
  <2> SUFFICES ASSUME mode = "serving" PROVE ForestInv
    BY <2>1 DEF ForestInv
  <2>2. \A t : Parents(t) = {p \in Tenant : t \in DOMAIN store \ Roots /\ store[t] = p}
    BY DEF Init, Parents, Hierarchy, Pair
  <2>3. OneParent /\ Acyclic /\ Parents(root) = {}
    BY <2>2 DEF Init, OneParent, Acyclic, TreeStores
  <2>4. \A c \in Client : call[c].op = "none"
    BY DEF Init, Idle
  <2> QED BY <2>1, <2>3, <2>4 DEF Init, ForestInv, AddInv, Returned
<1>2. (CallsSound /\ ForestInv) /\ [Next]_vars => (CallsSound /\ ForestInv)'
  BY ForestStep, CallsSoundStep
<1>3. ForestInv => Forest
  BY DEF ForestInv, Forest, OneParent, Acyclic
<1> QED BY <1>1, <1>2, <1>3, PTL DEF Spec

\* loader.go, modifier.go: all of it together, for every set of tenants, loaders and
\* clients, and for every store without a cycle.
THEOREM ConsistentAlways == TreeStores /\ NoTenant \notin Tenant => (Spec => []Consistent)
<1> SUFFICES ASSUME TreeStores, NoTenant \notin Tenant PROVE Spec => []Consistent
  OBVIOUS
<1>1. SymmetricRelations /\ LoadedIsComplete /\ SuccessIsComplete /\ Forest => Consistent
  BY DEF Consistent
<1>2. Spec => []Forest
  BY ForestAlways
<1> QED BY <1>1, <1>2, SymmetricRelationsAlways, LoadedIsCompleteAlways, SuccessIsCompleteAlways, PTL
=============================================================================
