----------------------------- MODULE ConsulSync -----------------------------
(* dsync over Consul as a whole: the lock objects of all nodes for one key,  *)
(* the session loop of every node's ConsulSyncManager, and the server.       *)
EXTENDS ConsulLock

vars == <<kvVars, mgrVars, lockVars, loopVars, callerVars>>

TypeOK == KVTypeOK /\ MgrTypeOK /\ LockTypeOK /\ SessionInHand

Init == KVInit /\ MgrInit /\ LockInit

\* Session IDs are UUIDs: a new one is not in use anywhere.
Fresh(s) == /\ s \notin alive
            /\ lockSession[Home[s]] # s
            /\ \A i \in Slot : loopSession[Home[s]][i] # s

\* The tail of sessionLoop: refresh every lock under m.mtx.
SessionNotify(n) ==
    /\ sessionPC[n] = "notify"
    /\ MgrFree(n)
    /\ LockFree(n)
    /\ Refresh(n)
    /\ sessionPC' = [sessionPC EXCEPT ![n] = "top"]
    /\ UNCHANGED <<shutdown, session, sessionCtx, created>>
    /\ UNCHANGED <<pc, cancelled, loopSession>>
    /\ UNCHANGED <<lockVars, callerVars, kvVars>>

\* Mutant: Stop leaves sessionLoop running.
StopKeepsSession(n) ==
    /\ "Stop" \in Ops[n]
    /\ ~shutdown[n]
    /\ LockFree(n)
    /\ shutdown' = [shutdown EXCEPT ![n] = TRUE]
    /\ ReleaseBegins(n, "Stop")
    /\ UNCHANGED <<session, sessionPC, sessionCtx, created>>
    /\ UNCHANGED kvVars

\* ConsulSyncManager.Stop: no new sessions, sessionLoop cancelled, and every
\* lock released while m.mtx is held.
Stop(n) ==
    /\ "Stop" \in Ops[n]
    /\ ~shutdown[n]
    /\ LockFree(n)
    /\ shutdown' = [shutdown EXCEPT ![n] = TRUE]
    /\ sessionCtx' = [sessionCtx EXCEPT ![n] = TRUE]
    /\ ReleaseBegins(n, "Stop")
    /\ UNCHANGED <<session, sessionPC, created>>
    /\ UNCHANGED kvVars

\* The process of node n dies and is replaced: its sessions are not renewed.
Crash(n) ==
    /\ Fault(n, "crash")
    /\ shutdown' = [shutdown EXCEPT ![n] = FALSE]
    /\ session' = [session EXCEPT ![n] = NoSession]
    /\ sessionPC' = [sessionPC EXCEPT ![n] = "off"]
    /\ sessionCtx' = [sessionCtx EXCEPT ![n] = FALSE]
    /\ created' = [created EXCEPT ![n] = NoSession]
    /\ state' = [state EXCEPT ![n] = "Unknown"]
    /\ loopContext' = [loopContext EXCEPT ![n] = NoLoop]
    /\ lockSession' = [lockSession EXCEPT ![n] = NoSession]
    /\ refreshFunc' = [refreshFunc EXCEPT ![n] = NoLoop]
    /\ releasing' = [releasing EXCEPT ![n] = "no"]
    /\ pc' = [pc EXCEPT ![n] = [i \in Slot |-> "none"]]
    /\ cancelled' = [cancelled EXCEPT ![n] = [i \in Slot |-> FALSE]]
    /\ refreshed' = [refreshed EXCEPT ![n] = [i \in Slot |-> FALSE]]
    /\ loopSession' = [loopSession EXCEPT ![n] = [i \in Slot |-> NoSession]]
    /\ phase' = [phase EXCEPT ![n] = [c \in Caller |-> "idle"]]
    /\ awake' = [awake EXCEPT ![n] = [c \in Caller |-> FALSE]]
    /\ lost' = [lost EXCEPT ![n] = [c \in Caller |-> FALSE]]
    /\ UNCHANGED <<alive, owner, lockDelay>>

-----------------------------------------------------------------------------
\* The steps of the sessionLoop goroutine of node n.
SessionStep(n) ==
    \/ /\ \/ SessionTop(n) /\ MgrFree(n)
          \/ \E s \in Session : SessionCreate(n, s) /\ Fresh(s)
          \/ SessionCreateFails(n)
          \/ \E s \in Session : SessionCreateLost(n, s) /\ Fresh(s)
          \/ SessionPublish(n) /\ MgrFree(n)
          \/ SessionKeepEnds(n)
       /\ UNCHANGED <<lockVars, loopVars, callerVars>>
    \/ SessionNotify(n)

\* The steps of lockLoop i of node n.
LoopStep(n, i) ==
    \/ LoopTop(n, i)
    \/ LoopInstall(n, i)
    \/ LoopWaitForSession(n, i)
    \/ LoopSessionReady(n, i)
    \/ LoopRecordSession(n, i)
    \/ LoopAcquire(n, i)
    \/ LoopAcquireFails(n, i)
    \/ LoopAcquired(n, i)
    \/ LoopReadOwner(n, i)
    \/ LoopReadOwnerFails(n, i)
    \/ LoopHeldByOther(n, i)
    \/ LoopRetry(n, i)
    \/ LoopRevoked(n, i)
    \/ LoopMonitorInterrupted(n, i)
    \/ LoopMonitorFails(n, i)
    \/ LoopMonitorDelay(n, i)
    \/ LoopFail(n, i)
    \/ LoopExit(n, i)

\* The server ends sessions and the lock delay.
Expire(s) == SessionExpires(s) /\ UNCHANGED <<lockVars, loopVars, callerVars>>
Revoke(s) == SessionRevoked(s) /\ UNCHANGED <<lockVars, loopVars, callerVars>>
DelayOver == LockDelayOver /\ UNCHANGED <<mgrVars, lockVars, loopVars, callerVars>>

\* What the application does with the lock of node n.
AppStep(n) ==
    \/ \E c \in Caller :
          \/ \E kind \in {"lock", "try"} : CallLock(n, c, kind)
          \/ CallerLooks(n, c)
          \/ CallerCancelled(n, c)
          \/ CallLost(n, c)
          \/ CallerDone(n, c)
    \/ Release(n)
    \/ ReleaseReturns(n)
    \/ ReleaseFails(n)

Next ==
    \/ \E s \in Session : Expire(s) \/ Revoke(s)
    \/ DelayOver
    \/ \E n \in Node :
          \/ SessionStep(n)
          \/ \E i \in Slot : LoopStep(n, i)
          \/ AppStep(n)
          \/ Stop(n)
          \/ Crash(n)

Spec == Init /\ [][Next]_vars

-----------------------------------------------------------------------------
(* Fairness: goroutines are scheduled, RPCs return, sessions nobody renews   *)
(* run into their TTL and the lock delay ends. Faults are never forced.      *)

Calm(A) == A /\ UNCHANGED faults

Fairness ==
    /\ WF_vars(DelayOver)
    /\ \A s \in Session : WF_vars(Expire(s))
    /\ \A n \in Node :
          /\ WF_vars(Calm(SessionStep(n)))
          /\ WF_vars(ReleaseReturns(n))
          /\ \A i \in Slot : WF_vars(Calm(LoopStep(n, i)))
          /\ \A c \in Caller : WF_vars(CallerLooks(n, c)) /\ WF_vars(CallLost(n, c))

FairSpec == Spec /\ Fairness

-----------------------------------------------------------------------------
(* Safety.                                                                   *)

\* At most one lockLoop of a lock runs on a live context, and it is the one
\* Release would cancel: lazyStart never starts a second one and stopLoop never
\* forgets to cancel one.
SingleLoop ==
    \A n \in Node, i \in Slot :
        (pc[n][i] # "none" /\ ~cancelled[n][i]) <=> loopContext[n] = i

\* A loop that got the lock and was not cancelled really owns the entry on the
\* server, for as long as the server keeps the session it was acquired with:
\* neither another node's Acquire nor a Release with another session takes it.
Backed ==
    \A n \in Node, i \in Slot :
        (/\ pc[n][i] \in {"acquired", "monitor", "monitorDelay"}
         /\ ~cancelled[n][i]
         /\ loopSession[n][i] \in alive)
        => owner = loopSession[n][i]

\* The nodes whose lock is acquired and monitored under a valid session.
Holders == {n \in Node : \E i \in Slot :
              /\ loopContext[n] = i
              /\ pc[n][i] \in {"monitor", "monitorDelay"}
              /\ loopSession[n][i] \in alive}

\* Mutual exclusion, as far as sessions can give it: two nodes never both
\* monitor an acquired lock under sessions the server still considers valid.
MutualExclusion == \A n, m \in Holders : n = m

\* The node the owning session belongs to.
Grantee == IF owner = NoSession THEN NoSession ELSE Home[owner]

Lease == INSTANCE LeaseLock WITH NoNode <- NoSession, grantee <- Grantee, holders <- Holders

\* The whole system implements a lock with leases: nodes become holders only by
\* a grant of the server, and lose the grant and the lock in one step when
\* their session ends or when they release it.
ImplementsLease == Lease!Spec

\* A caller is blocked in stateCond.Wait, and nobody has notified it.
Asleep(n, c) == phase[n][c] \in {"lock", "try"} /\ ~awake[n][c]

\* A loop of node n is still to run its last updateState(stateUnknown).
LoopAlive(n) == \E i \in Slot : pc[n][i] # "none"

\* No caller sleeps although its matcher would let it return, except after Release
\* or Stop, which set loopContext to nil without a Broadcast: then the loop they
\* have cancelled is still there, and wakes the caller when it ends, as that changes
\* the state; or the state was Unknown already. Only in that last case the wakeup
\* is lost, and the call goes on until its own context ends or a new loop gets
\* somewhere.
NoLostWakeup ==
    \A n \in Node, c \in Caller :
        Asleep(n, c) /\ (Succeeds(n) \/ GivesUp(n, phase[n][c])) =>
            loopContext[n] = NoLoop /\ (state[n] = "Unknown" \/ (phase[n][c] = "lock" /\ LoopAlive(n)))

\* A caller whose Lost() channel is still open is on a node whose lock has been
\* Acquired ever since, and that has a loop to close the channel: updateState does so
\* on every way out of Acquired, and the last loop does not end without.
LostIsTold ==
    \A n \in Node, c \in Caller :
        phase[n][c] = "hold" /\ ~lost[n][c] => state[n] = "Acquired" /\ LoopAlive(n)

\* updateState: whoever has to know is told, those waiting in Lock and TryLock as well
\* as those that work under the lock.
CallersTold == NoLostWakeup /\ LostIsTold

-----------------------------------------------------------------------------
(* Liveness.                                                                 *)

HeldBy(n) == owner # NoSession /\ Home[owner] = n

\* A node that still reports Acquired while another node owns the entry finds
\* out: monitorLock or the next acquisition moves it out of Acquired.
LossIsNoticed ==
    \A n \in Node : state[n] = "Acquired" /\ owner # NoSession /\ ~HeldBy(n)
                      ~> state[n] # "Acquired" \/ owner = NoSession \/ HeldBy(n)

\* A free lock that a node attempts to acquire is acquired by some node, or the
\* attempt is given up: lost sessions, lock delays and crashes do not wedge it.
FreeLockIsTaken ==
    \A n \in Node : owner = NoSession /\ loopContext[n] # NoLoop /\ ~shutdown[n]
                      ~> owner # NoSession \/ loopContext[n] = NoLoop \/ shutdown[n]

-----------------------------------------------------------------------------
(* What the documentation of dsync.Lock says and the code does not keep.     *)

\* dsync/context.go on Release: "stops the attempt to acquire the lock and
\* releases the lock if already held". When the attempt is given up for good,
\* the entry must not stay with a session of this node for good.
ReleaseFreesLock ==
    \A n \in Node : <>[](loopContext[n] = NoLoop) => <>[]~HeldBy(n)
=============================================================================
