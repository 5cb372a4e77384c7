------------------------------- MODULE MCSync --------------------------------
(* The two implementations of dsync side by side: `service' says which of    *)
(* them a behaviour is about. Only that one has a state, the other stays in  *)
(* its initial one; what they call by the same name they keep in the same    *)
(* variable. This module extends RedisLock, and has the variables of         *)
(* ConsulSync that RedisLock has not.                                        *)
EXTENDS RedisLock, TLC

CONSTANTS Services,     \* the implementations a run is about
          n1, n2, a1, a2, b1, c1, d1,
          s1, s2, s3,           \* Consul sessions: s1 and s2 are handed to n1, s3 to n2
          Session, NoSession, Slot, ConsulOps, ConsulFaults,
          MaxConsulFaults       \* bound: how many of them

VARIABLES service, alive, owner, lockDelay, shutdown, session, sessionPC, sessionCtx, created,
          lockSession, refreshFunc, releasing, refreshed, loopSession

Redis == INSTANCE RedisSync
Consul == INSTANCE ConsulSync WITH
    Home <- [s \in Session |-> IF s \in {s1, s2} THEN n1 ELSE n2],
    Caller <- {c1}, Ops <- ConsulOps, FaultKinds <- ConsulFaults, MaxFaults <- MaxConsulFaults

consulVars == <<alive, owner, lockDelay, shutdown, session, sessionPC, sessionCtx, created,
                lockSession, refreshFunc, releasing, refreshed, loopSession>>
redisVars == <<key, named, valid, fresh, attempts, failing>>
syncVars == <<service, consulVars, vars>>

-----------------------------------------------------------------------------
\* Node n1 is the one whose operations and faults a run explores; n2 competes for the
\* lock. Loops a1 and a2 and caller c1 are n1's, the others n2's.
MCAt == [x \in Loop \cup Caller |-> IF x \in {a1, a2, c1} THEN n1 ELSE n2]

AllOps == {"lock", "try", "cancel", "done", "Release"}

OpsContend   == (n1 :> {"lock", "Release"}) @@ (n2 :> {"lock"})
OpsAll       == (n1 :> AllOps) @@ (n2 :> {})
OpsAllStop   == (n1 :> AllOps \cup {"Stop"}) @@ (n2 :> {})

RedisAll     == [n \in Node |-> {"rpc", "pause", "crash"}]
RedisPause   == [n \in Node |-> {"pause"}]
ConsulAll    == [n \in Node |-> {"rpc", "session", "crash"}]
FaultsNone   == [n \in Node |-> {}]

\* The session IDs of one node are interchangeable (runs without liveness only).
SessionSymmetry == Permutations({s1, s2})

-----------------------------------------------------------------------------
SyncInit ==
    /\ service \in Services
    /\ IF service = "redis"
       THEN /\ Init
            /\ alive = {} /\ owner = NoSession /\ lockDelay = FALSE
            /\ Consul!MgrInit
            /\ lockSession = <<>> /\ refreshFunc = <<>> /\ releasing = <<>>
            /\ refreshed = <<>> /\ loopSession = <<>>
       ELSE /\ Consul!Init
            /\ key = NoNode /\ named = {} /\ valid = {} /\ fresh = {}
            /\ attempts = <<>> /\ failing = <<>>

InRedis(A) == service = "redis" /\ A /\ UNCHANGED <<service, consulVars>>
InConsul(A) == service = "consul" /\ A /\ UNCHANGED <<service, redisVars>>

SyncNext == InRedis(Next) \/ InConsul(Consul!Next)

SyncSpec == SyncInit /\ [][SyncNext]_syncVars

\* The fairness of the implementation the behaviour is about, as far as the liveness
\* below needs it, with node n1 alone: over Consul the lock loops need none. As the
\* implementation is always the same one, fairness to an action of one and to an action
\* of the other is fairness to either of them.
SyncFairness ==
    /\ WF_syncVars(InRedis(Expires) \/ InConsul(Consul!Expire(s1)))
    /\ WF_syncVars(InRedis(Calm(Elapses(n1))) \/ InConsul(Consul!Calm(Consul!SessionStep(n1))))
    /\ WF_syncVars(InRedis(Calm(LoopStep(a1))) \/ InConsul(Consul!ReleaseReturns(n1)))
    /\ WF_syncVars(InRedis(Calm(LoopStep(a2))))

FairSyncSpec == SyncSpec /\ SyncFairness

-----------------------------------------------------------------------------
\* Every state variable of the implementation has a value of its type.
TypesOK == IF service = "redis" THEN TypeOK ELSE Consul!TypeOK

\* At most one lockLoop of a lock runs on a live context, and it is the one Release
\* would cancel.
SingleLoop == IF service = "redis" THEN Redis!SingleLoop ELSE Consul!SingleLoop

\* Two nodes never both monitor the lock under a lease that has not ended.
MutualExclusion == IF service = "redis" THEN Redis!MutualExclusion ELSE Consul!MutualExclusion

\* dsync over Consul: a loop that got the lock owns the entry on the server.
Backed == service = "consul" => Consul!Backed

\* updateState: whoever has to know is told, those waiting in Lock and TryLock as well
\* as those that work under the lock.
CallersTold == IF service = "redis" THEN Redis!CallersTold ELSE Consul!CallersTold

Lease == INSTANCE LeaseLock WITH
    grantee <- IF service = "redis" THEN Redis!Grantee ELSE Consul!Grantee,
    holders <- IF service = "redis" THEN Redis!Holders ELSE Consul!Holders

\* Both implement one and the same lock with leases: nodes become holders only by a
\* grant, and lose the lock together with it.
ImplementsLease == Lease!Spec

\* dsync over Redis: the documentation of Lost(), which the code does not keep.
LossClosesChannel == service = "redis" => Redis!LossClosesChannel

-----------------------------------------------------------------------------
\* Once the manager of a node is stopped for good (Consul), or its lock released for good
\* (Redis; dsync/context.go: "releases the lock if already held"), the lock is free of it
\* in the end, whatever loops and calls were in flight: at the latest by the TTL of its
\* session or the expiry of its key.
GivenUpIsFreed ==
    <>[](IF service = "redis" THEN loopContext[n1] = NoLoop ELSE shutdown[n1])
      => <>[]~(IF service = "redis" THEN key = n1 ELSE Consul!HeldBy(n1))

\* RedisLock: a lock that no living process holds, and that a node attempts to acquire,
\* is acquired by some node, or the attempt is given up.
FreeLockIsTaken == service = "redis" => Redis!FreeLockIsTaken
=============================================================================
