------------------------------ MODULE RedisSync ------------------------------
(* What dsync over Redis promises.                                           *)
EXTENDS RedisLock

\* A loop of a lock runs on a live context iff it is the one Release would
\* cancel: lazyStart never starts a second one, stopLoop never forgets one.
SingleLoop ==
    \A l \in Loop : (pc[l] # "none" /\ l \notin cancelled) <=> loopContext[At[l]] = l

\* Where a loop counts as having the lock.
Monitoring == {"monitor", "extend", "extended", "expiring"}

\* The nodes whose current loop monitors an acquired lock that, by their own
\* clock, has not expired.
Holders == {n \in Node : /\ n \in valid
                         /\ \E l \in Loop : /\ loopContext[n] = l
                                            /\ pc[l] \in Monitoring}

\* Mutual exclusion, as far as the expiry can give it: two nodes never both
\* monitor the lock before its expiry.
MutualExclusion == \A n, m \in Holders : n = m

\* The key a process leaves behind is granted to nobody.
Grantee == IF key = Orphan THEN NoNode ELSE key

Lease == INSTANCE LeaseLock WITH grantee <- Grantee, holders <- Holders

\* dsync over Redis implements a lock with leases: nodes become holders only
\* while the key is theirs, and lose it only together with the key.
ImplementsLease == Lease!Spec

\* A caller is blocked in stateCond.Wait, and nobody has notified it.
Asleep(c) == phase[c] \in {"lock", "try"} /\ c \notin awake

\* A loop of node n is still to run its last updateState(stateUnknown).
LoopAlive(n) == \E l \in LoopsOf(n) : pc[l] # "none"

\* No caller sleeps although its matcher would let it return, except after Release,
\* which sets loopContext to nil without a Broadcast: then the loop it has cancelled
\* is still there, and wakes the caller when it ends, as that changes the state; or
\* the state was Unknown already. Only in that last case the wakeup is lost, and the
\* call goes on until its own context ends or a new loop gets somewhere.
NoLostWakeup ==
    \A c \in Caller :
        Asleep(c) /\ (Succeeds(At[c]) \/ GivesUp(At[c], phase[c])) =>
            /\ loopContext[At[c]] = NoLoop
            /\ state[At[c]] = "Unknown" \/ (phase[c] = "lock" /\ LoopAlive(At[c]))

\* The Lost() channel of a caller is open.
Open(c) == phase[c] = "hold" /\ c \notin lost

\* A loop that monitors the lock, or is about to report its loss.
Attends(l) == pc[l] \in Monitoring \cup {"fail"}

\* A loop that will close the Lost() channel by its end, or that is acquiring the
\* lock anew although no error was reported: monitorLock has returned with a timeout,
\* or with none at all when the process was paused beyond the expiry.
Silent(l) == pc[l] # "none" /\ (l \in cancelled \/ failing[l] # "loud")

\* A caller whose Lost() channel is open is on a node whose lock has been Acquired
\* ever since, and that has a loop which monitors it, is cancelled, or acquires it
\* anew after a silent loss: an extension that Redis refuses, or that fails with an
\* error other than a timeout, always closes the channel.
LostIsTold ==
    \A c \in Caller : Open(c) => /\ state[At[c]] = "Acquired"
                                 /\ \E l \in LoopsOf(At[c]) : Attends(l) \/ Silent(l)

\* updateState: whoever has to know is told, those waiting in Lock and TryLock as well
\* as those that work under the lock.
CallersTold == NoLostWakeup /\ LostIsTold

-----------------------------------------------------------------------------
(* Liveness.                                                                 *)

\* A lock that no living process holds, and that a node attempts to acquire, is
\* acquired by some node, or the attempt is given up: crashes and lost answers do
\* not wedge it.
FreeLockIsTaken ==
    \A n \in Node : key \notin Node /\ loopContext[n] # NoLoop
                      ~> key \in Node \/ loopContext[n] = NoLoop

-----------------------------------------------------------------------------
(* What the documentation of dsync.Lock says and the code does not keep.     *)

\* dsync/context.go on Lost: "a channel that is closed if our lock is lost or an error
\* occurred". When another node has the key and no loop of the caller's node believes
\* to monitor it any more, nor is on its way out, the channel is closed.
LossClosesChannel ==
    \A c \in Caller : Open(c) /\ key \in Node \ {At[c]} =>
        \E l \in LoopsOf(At[c]) : Attends(l) \/ l \in cancelled
=============================================================================
