---------------------------- MODULE MCConsulSync ----------------------------
(* Two nodes that attempt to acquire the lock; node n1 is the one whose      *)
(* operations and faults a run explores.                                     *)
EXTENDS ConsulSync, TLC

CONSTANTS n1, n2, a1, a2, b1, c1

\* Session IDs: a1 and a2 are handed to n1, b1 to n2.
MCHome == [s \in Session |-> IF s \in {a1, a2} THEN n1 ELSE n2]

OpsLock    == (n1 :> {"lock"}) @@ (n2 :> {"lock"})
OpsRelease == (n1 :> {"lock", "Release"}) @@ (n2 :> {})

FaultsLoss == (n1 :> {"session", "crash"}) @@ (n2 :> {})
FaultsNone == [n \in Node |-> {}]

\* Both nodes keep on wanting the lock: none calls Release or Stop, and Consul answers
\* what it is asked. (MCSync has the runs with everything else.)
RecoveryNext == Next /\ UNCHANGED <<releasing, shutdown>>

RecoverySpec == Init /\ [][RecoveryNext]_vars /\ Fairness
=============================================================================
