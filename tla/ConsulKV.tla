------------------------------ MODULE ConsulKV ------------------------------
(* The Consul server, as dsync/consul uses it: sessions with a TTL and the   *)
(* "delete" behaviour, and one KV entry whose Session field is the owner of  *)
(* the distributed lock. Consul is not part of the repository: every         *)
(* definition here is external, modelled from the calls in lock.go and       *)
(* manager.go (Session().Create, RenewPeriodic, KV().Acquire, Get, Release). *)
EXTENDS Naturals

CONSTANTS Node,         \* service instances, one ConsulSyncManager each
          Session,      \* session IDs
          Home,         \* the node a session ID is handed to
          NoSession,    \* the empty session string ""
          FaultKinds,   \* what may happen to a node: of "rpc", "session", "crash"
          MaxFaults     \* bound: how many of them

ASSUME SessionAssumption == /\ Home \in [Session -> Node]
                            /\ NoSession \notin Session \cup Node
ASSUME FaultAssumption == MaxFaults \in Nat

VARIABLES alive,        \* sessions the server considers valid
          owner,        \* Session field of the lock's KV entry, NoSession if none
          lockDelay,    \* the entry is in the lock-delay period
          faults        \* faults the environment may still inject

kvVars == <<alive, owner, lockDelay, faults>>

KVTypeOK == /\ alive \subseteq Session
            /\ owner \in Session \cup {NoSession}
            /\ lockDelay \in BOOLEAN
            /\ faults \in 0..MaxFaults

KVInit == /\ alive = {}
          /\ owner = NoSession
          /\ lockDelay = FALSE
          /\ faults = MaxFaults

\* A failing call, a lost session or a crash uses up one of the faults.
Fault(n, kind) == /\ kind \in FaultKinds[n]
                  /\ faults > 0
                  /\ faults' = faults - 1

\* PUT ?acquire=s: the outcome of KV().Acquire for a valid session.
Grantable(s) == owner = s \/ (owner = NoSession /\ ~lockDelay)

AcquireKV(s) == owner' = IF s \in alive /\ Grantable(s) THEN s ELSE owner

\* PUT ?release=s: only the owning session clears the entry.
ReleaseKV(s) == owner' = IF owner = s THEN NoSession ELSE owner

\* A session ends: the entry it holds is deleted and enters the lock delay.
InvalidateKV(s) ==
    /\ s \in alive
    /\ alive' = alive \ {s}
    /\ owner' = IF owner = s THEN NoSession ELSE owner
    /\ lockDelay' = (lockDelay \/ owner = s)

\* The lock-delay period is over.
LockDelayOver ==
    /\ lockDelay
    /\ lockDelay' = FALSE
    /\ UNCHANGED <<alive, owner, faults>>
=============================================================================
