------------------------------ MODULE MCStores ------------------------------
(* What is cached and read by others, and that every call on it returns: the *)
(* memory cache, which this module extends, the tenant hierarchy in Redis    *)
(* and the instances of a discovered service. `part' says which of them a    *)
(* behaviour is about; the others stay in one of their initial states.       *)
EXTENDS MemCache, Sequences, FiniteSets, TLC

CONSTANTS NoTask, NoTenant, Fallback, NoService, NoCallback

VARIABLES part

\* Tenancy: a chain of three tenants.
VARIABLES mode, hierarchy, status, root, zset, lpc, cachedRoot, call, edited, ops, faults
Tenants == INSTANCE Tenancy WITH
    Tenant <- {"t1", "t2", "t3"}, TenantStores <- {("t1" :> NoTenant) @@ ("t2" :> "t1") @@ ("t3" :> "t2")},
    Loader <- {"l"}, Client <- Caller, MaxOps <- [bootstrap |-> 0, serving |-> 3, churn |-> 0],
    MaxFaults <- 1, store <- hierarchy
tenantVars == <<mode, hierarchy, status, root, zset, lpc, cachedRoot, call, edited, ops, faults>>

VARIABLES kind, registry, ctx, looping, current, queue, refresh, answer, started, cache,
          lastIndex, doing, fetched, notify, known, reads, errors
Instances == INSTANCE Instancer WITH
    Reader <- {"r1", "r2"}, Refresh <- "refresh", Insts <- {"i1", "none"}, MaxChanges <- 1,
    MaxFaults <- 1, MaxCalls <- 2, MaxWork <- 2, pc <- looping, status <- refresh, at <- doing,
    calls <- reads, faults <- errors
instanceVars == <<kind, registry, ctx, looping, current, queue, refresh, answer, started, cache,
                  lastIndex, doing, fetched, notify, known, reads, errors>>

-----------------------------------------------------------------------------
storeVars == <<part, vars, tenantVars, instanceVars>>

StoresInit ==
    /\ part \in {"cache", "tenancy", "instancer"}
    /\ Init
    /\ Tenants!Init
    /\ mode = IF part = "tenancy" THEN "serving" ELSE "bootstrap"
    /\ Instances!Init
    /\ kind \in IF part = "instancer" THEN {"consul", "dns with fallback"} ELSE {"dns"}

InCache(A) == part = "cache" /\ A /\ UNCHANGED <<part, tenantVars, instanceVars>>
InTenants(A) == part = "tenancy" /\ A /\ UNCHANGED <<part, vars, instanceVars>>
InInstances(A) == part = "instancer" /\ A /\ UNCHANGED <<part, vars, tenantVars>>

StoresNext == InCache(Next) \/ InTenants(Tenants!Next) \/ InInstances(Instances!Next)

\* The reader of the instances that stands for a caller of the other stores.
ReaderOf(c) == IF c = CHOOSE d \in Caller : TRUE THEN "r1" ELSE "r2"

\* The fairness of the component the behaviour is about. As that is always the same
\* one, fairness to an action of one and to an action of another is fairness to
\* either of them.
StoresFairness ==
    /\ \A e \in Entry : WF_storeVars(InCache(Load(e)) \/ InInstances(e = 1 /\ Instances!LoopTakes)
                                        \/ InInstances(e = 2 /\ Instances!LoopGoesOn))
    /\ \A c \in Caller :
         /\ WF_storeVars(\/ InCache(CallStep(c))
                         \/ InTenants(Tenants!Advance(c))
                         \/ InInstances(Instances!Reads(ReaderOf(c))))
         /\ WF_storeVars(InInstances(Instances!Works(ReaderOf(c))))
    /\ WF_storeVars(InInstances(Instances!Start)) /\ WF_storeVars(InInstances(Instances!Works("refresh")))

StoresSpec == StoresInit /\ [][StoresNext]_storeVars /\ StoresFairness

-----------------------------------------------------------------------------
\* tenancy and discovery/sd: the accessor's walks end even when tenants are moved
\* under them (Tenancy!WalksEnd), and a reader of the instances gets an answer, even if
\* Stop comes before the first refresh (Instancer!ReadersReturn). Stated together, as a
\* behaviour is about one of them.
Reading(c) == CASE part = "tenancy" -> call[c].step \in {"walk", "level"}
                [] part = "instancer" -> doing[ReaderOf(c)] # "idle"
                [] OTHER -> FALSE
HasRead(c) == CASE part = "tenancy" -> ~Tenants!Busy(c)
                [] OTHER -> doing[ReaderOf(c)] = "idle"
ReadersReturn == \A c \in Caller : Reading(c) ~> HasRead(c)

\* discovery/sd: after the last change and fault the cache comes to show what the
\* registry says, or the fallback, and a callback is told of it.
Converges == part = "instancer" => Instances!Converges
=============================================================================
