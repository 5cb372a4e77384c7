----------------------------- MODULE Instancer ------------------------------
(* discovery/sd/instancer.go: the cached view that a service has of another  *)
(* service. A task repeated on a loop (TaskLoop) refreshes the cache, from   *)
(* Consul with a blocking query (consulsd/instancer.go) or from DNS          *)
(* (dnssd/instancer.go); with DNS each reader also refreshes it itself.      *)
EXTENDS Naturals, Sequences

CONSTANTS Reader,       \* goroutines that call Service or Instances
          Refresh,      \* the repeated task
          Insts,        \* what the registry may say of the service, "none" among it
          Fallback,     \* the instances configured for DNS
          NoService, NoTask,
          NoCallback,
          MaxChanges, MaxFaults, MaxCalls,
          MaxWork       \* bound on the faults and the calls together

VARIABLES kind,         \* "consul", "dns" or "dns with fallback"
          registry,     \* Consul or DNS: the instances, and the index of the last change
          ctx, pc, current, queue, status, answer,      \* of the loop
          started,      \* where Start is: "no", "sending", "yes"
          cache,        \* i.cache
          lastIndex,    \* i.lastMeta
          at,           \* where each goroutine is
          fetched,      \* what its refresh function returned
          notify,       \* what shouldNotify said
          known,        \* what was cached when the callback was registered, or what it
                        \* saw when it was called last
          calls, faults

loopVars == <<ctx, pc, current, queue, status, answer>>
shared == <<registry, cache, lastIndex, known>>
local == <<at, fetched, notify>>
vars == <<kind, registry, loopVars, started, cache, lastIndex, local, known, calls, faults>>

L == INSTANCE TaskLoop WITH Task <- {Refresh}, Kind <- [t \in {Refresh} |-> "Repeat"]

Goroutine == Reader \cup {Refresh}
Service == [insts : Insts \cup {Fallback, "none"}, err : BOOLEAN, index : 0..MaxChanges + 1]
\* What reflect.DeepEqual and the nil checks of shouldNotify compare.
Seen(svc) == IF svc = NoService THEN svc ELSE <<svc.insts, svc.err>>

\* Every state variable has a value of its type.
TypeOK ==
    /\ kind \in {"consul", "dns", "dns with fallback"}
    /\ registry \in [insts : Insts, index : 1..MaxChanges + 1]
    /\ L!TypeOK
    /\ started \in {"no", "sending", "yes"}
    /\ cache \in Service \cup {NoService}
    /\ known \in {NoCallback, NoService} \/ \E svc \in Service : known = Seen(svc)
    /\ lastIndex \in 0..MaxChanges + 1
    /\ at \in [Goroutine -> {"idle", "query", "store", "notify", "read", "waiting"}]
    /\ fetched \in [Goroutine -> Service \cup {NoService}]
    /\ notify \in [Goroutine -> BOOLEAN]
    /\ calls \in 0..MaxCalls /\ faults \in 0..MaxFaults

Init ==
    /\ kind \in {"consul", "dns", "dns with fallback"}
    /\ \E i \in Insts : registry = [insts |-> i, index |-> 1]
    /\ L!Init /\ started = "no"
    /\ cache = NoService /\ known = NoCallback /\ lastIndex = 0
    /\ at = [g \in Goroutine |-> "idle"]
    /\ fetched = [g \in Goroutine |-> NoService]
    /\ notify = [g \in Goroutine |-> FALSE]
    /\ calls = 0 /\ faults = 0

-----------------------------------------------------------------------------
(* The registry, the life cycle and the callback                             *)

\* Instances come, go or change their health.
RegistryChanges(i) ==
    /\ registry.index <= MaxChanges /\ i # registry.insts
    /\ registry' = [insts |-> i, index |-> registry.index + 1]
    /\ UNCHANGED <<kind, loopVars, started, cache, lastIndex, local, known, calls, faults>>

\* Start, which the constructor calls, runs the loop and sends the task.
Start ==
    /\ \/ started = "no" /\ L!Run /\ started' = "sending"
       \/ started = "sending" /\ L!Call(Refresh) /\ started' = started
    /\ UNCHANGED <<kind, shared, local, calls, faults>>

Stop ==
    /\ started = "yes" /\ L!Cancel
    /\ UNCHANGED <<kind, shared, local, started, calls, faults>>

\* The loop takes the task, whose function begins with the query.
LoopTakes ==
    /\ L!Take
    /\ at' = [at EXCEPT ![Refresh] = "query"]
    /\ started' = "yes"
    /\ UNCHANGED <<kind, shared, fetched, notify, calls, faults>>

LoopGoesOn ==
    /\ L!DoReturns \/ L!LoopReturns \/ L!Wakes(Refresh) \/ L!Stops(Refresh)
    /\ UNCHANGED <<kind, shared, local, started, calls, faults>>

\* RegisterCallback does not call the callback. Its user may look at what is cached.
RegisterCallback ==
    /\ started = "yes"
    /\ known' = Seen(cache)
    /\ UNCHANGED <<kind, registry, loopVars, started, cache, lastIndex, local, calls, faults>>

DeregisterCallback ==
    /\ started = "yes"
    /\ known' = NoCallback
    /\ UNCHANGED <<kind, registry, loopVars, started, cache, lastIndex, local, calls, faults>>

-----------------------------------------------------------------------------
(* A refresh, in the loop or in the goroutine of a reader                    *)

\* What a refresh makes of the answer of the registry: without instances, or when DNS
\* does not know the name, the fallback stands in, and there is no error.
Resolved == IF kind = "dns with fallback" /\ registry.insts = "none" THEN Fallback ELSE registry.insts

Found == [insts |-> Resolved, err |-> FALSE,
          index |-> IF kind = "consul" THEN registry.index ELSE 0]
Failed ==
    IF kind = "dns with fallback" THEN [insts |-> Fallback, err |-> FALSE, index |-> 0]
    ELSE [insts |-> "none", err |-> TRUE, index |-> 0]

Spare == calls + faults < MaxWork

\* Mutant: the index survives an error.
QueriesKeepIndex(g) ==
    /\ at[g] = "query"
    /\ \/ fetched' = [fetched EXCEPT ![g] = Found] /\ faults' = faults
       \/ fetched' = [fetched EXCEPT ![g] = Failed]
          /\ IF g = Refresh /\ ctx = "cancelled" THEN faults' = faults
             ELSE faults < MaxFaults /\ Spare /\ faults' = faults + 1
    /\ lastIndex' = IF ~fetched'[g].err THEN fetched'[g].index ELSE lastIndex
    /\ at' = [at EXCEPT ![g] = "store"]
    /\ UNCHANGED <<kind, registry, loopVars, started, cache, notify, known, calls>>

\* The refresh function answers. The query of Consul is held back until the index
\* has passed lastIndex, or its wait time is over: either way it answers what is
\* there. A query fails when Consul or DNS does, or when the context of the loop
\* has ended; the client returns no meta then.
Queries(g) ==
    /\ at[g] = "query"
    /\ \/ fetched' = [fetched EXCEPT ![g] = Found] /\ faults' = faults
       \/ fetched' = [fetched EXCEPT ![g] = Failed]
          /\ IF g = Refresh /\ ctx = "cancelled" THEN faults' = faults
             ELSE faults < MaxFaults /\ Spare /\ faults' = faults + 1
    /\ lastIndex' = fetched'[g].index
    /\ at' = [at EXCEPT ![g] = "store"]
    /\ UNCHANGED <<kind, registry, loopVars, started, cache, notify, known, calls>>

\* Mutant: only the first answer is stored.
StoresOnce(g) ==
    /\ at[g] = "store"
    /\ cache' = IF cache = NoService THEN fetched[g] ELSE cache
    /\ notify' = [notify EXCEPT ![g] = cache = NoService]
    /\ at' = [at EXCEPT ![g] = "notify"]
    /\ UNCHANGED <<kind, registry, loopVars, started, lastIndex, fetched, known, calls, faults>>

\* onRefresh under cacheMtx.
Stores(g) ==
    /\ at[g] = "store"
    /\ cache' = fetched[g]
    /\ notify' = [notify EXCEPT ![g] = Seen(cache) # Seen(fetched[g])]
    /\ at' = [at EXCEPT ![g] = "notify"]
    /\ UNCHANGED <<kind, registry, loopVars, started, lastIndex, fetched, known, calls, faults>>

\* readyCond.Broadcast. The repeated task ends, a reader goes on to read.
Broadcast(g) ==
    at' = [h \in Goroutine |-> IF h = g THEN IF g = Refresh THEN "idle" ELSE "read"
                               ELSE IF at[h] = "waiting" THEN "read" ELSE at[h]]

\* The deferred part of onRefresh: waiting readers are woken, and the callback, if there
\* is one, is called and reads the cache.
Notifies(g) ==
    /\ at[g] = "notify"
    /\ Broadcast(g)
    /\ known' = IF notify[g] /\ known # NoCallback THEN Seen(cache) ELSE known
    /\ notify' = [notify EXCEPT ![g] = FALSE]
    /\ fetched' = [fetched EXCEPT ![g] = NoService]
    /\ IF g = Refresh THEN L!Ends(Refresh, IF fetched[g].err THEN "error" ELSE "value")
       ELSE UNCHANGED loopVars
    /\ UNCHANGED <<kind, registry, started, cache, lastIndex, calls, faults>>

-----------------------------------------------------------------------------
(* Service and Instances                                                     *)

Calls(r) ==
    /\ at[r] = "idle" /\ started = "yes" /\ calls < MaxCalls /\ Spare
    /\ at' = [at EXCEPT ![r] = IF kind = "consul" THEN "read" ELSE "query"]
    /\ calls' = calls + 1
    /\ UNCHANGED <<kind, shared, loopVars, started, fetched, notify, faults>>

\* service(): returns what is cached, or waits for the first refresh.
Reads(r) ==
    /\ at[r] = "read"
    /\ at' = [at EXCEPT ![r] = IF cache = NoService THEN "waiting" ELSE "idle"]
    /\ UNCHANGED <<kind, shared, loopVars, started, fetched, notify, calls, faults>>

Works(g) == Queries(g) \/ Stores(g) \/ Notifies(g)

Next ==
    \/ \E i \in Insts : RegistryChanges(i)
    \/ Start \/ Stop \/ RegisterCallback \/ DeregisterCallback \/ LoopTakes \/ LoopGoesOn
    \/ \E g \in Goroutine : Works(g)
    \/ \E r \in Reader : Calls(r) \/ Reads(r)

\* Goroutines are scheduled, timers fire and queries are answered: a blocking
\* query at the latest when its wait time is over.
Fairness ==
    /\ WF_vars(Start) /\ WF_vars(LoopTakes) /\ WF_vars(LoopGoesOn)
    /\ \A g \in Goroutine : WF_vars(Works(g))
    /\ \A r \in Reader : WF_vars(Reads(r))

Spec == Init /\ [][Next]_vars
FairSpec == Spec /\ Fairness

-----------------------------------------------------------------------------
\* A callback is told of every change since it was registered: it knows what is cached,
\* or is about to be called. No change of the instances and no beginning or end of an
\* error is lost between refreshes that overlap, or to one that is registered while a
\* refresh is under way.
ChangesAreTold ==
    known \notin {NoCallback, Seen(cache)} => \E g \in Goroutine : at[g] = "notify" /\ notify[g]

\* consulsd/instancer.go on lastMeta: "there is no need to use Lock or locking".
\* Between two queries the index of the next one is that of the answer in the
\* cache, so that a blocking query waits only for what is not cached yet.
NoMissedChange ==
    kind = "consul" /\ at[Refresh] \in {"idle", "query"} =>
        lastIndex = IF cache = NoService THEN 0 ELSE cache.index

\* A reader gets an answer, even if Stop comes before the first refresh.
ReadersReturn == \A r \in Reader : at[r] # "idle" ~> at[r] = "idle"

\* After the last change and the last fault the cache comes to show what the registry
\* says, or the fallback if it knows of no instance, unless the instancer is stopped;
\* and a callback has been told of it, if it was cached after the registration.
Converges ==
    <>[](ctx = "cancelled" \/ /\ Seen(cache) = <<Resolved, FALSE>>
                              /\ known \in {NoCallback, Seen(cache)})
=============================================================================
