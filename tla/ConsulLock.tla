----------------------------- MODULE ConsulLock -----------------------------
(* ConsulLock (dsync/consul/lock.go): on every node one lock object for the  *)
(* same key. Its fields are guarded by l.mtx, so every critical section is   *)
(* one action; l.mtx stays held while release() talks to the server. A       *)
(* lockLoop goroutine is started by Lock/TryLock and cancelled by Release,   *)
(* and a cancelled loop may still be running when the next one is started:   *)
(* Slot numbers the loops of a node that are alive at the same time.         *)
EXTENDS ConsulSession

CONSTANTS Slot,         \* bound: lockLoop goroutines of one lock alive at a time
          NoLoop,       \* nil loopContext, nil refreshFunc
          Caller,       \* application goroutines using the lock on each node
          Ops           \* what the application of a node does: of "lock", "try",
                        \* "cancel", "done", "Release", "Stop"

ASSUME SlotAssumption == NoLoop \notin Slot

VARIABLES state,        \* l.state; l.lockLostCh is open iff it is "Acquired"
          loopContext,  \* slot of the loop l.loopContext belongs to
          lockSession,  \* l.session, the session release() will use
          refreshFunc,  \* slot of the loop whose refresh context is registered
          releasing,    \* who is in release(), holding l.mtx: "no", or Release,
                        \* or Stop, which holds m.mtx as well
          pc,           \* pc[n][i]: where loop i of node n is, "none" if free
          cancelled,    \* the context given to lockLoop is cancelled
          refreshed,    \* refreshCtx of the current iteration is cancelled
          loopSession,  \* local variable session of lockLoop
          phase,        \* phase[n][c]: what caller c is doing
          awake,        \* a waiting caller was notified and has to look again
          lost          \* the Lost() channel the caller watches is closed

loopVars == <<pc, cancelled, refreshed, loopSession>>
callerVars == <<phase, awake, lost>>
lockVars == <<state, loopContext, lockSession, refreshFunc, releasing>>

LockStates == {"Unknown", "Acquired", "Error"}
LoopPCs == {"none", "top", "install", "session", "waitSession", "gotSession",
            "acquire", "acquired", "denied", "held", "retry", "fail",
            "monitor", "monitorDelay", "exit"}
\* Where lockLoop has a session.
WithSession == {"gotSession", "acquire", "acquired", "denied", "held", "retry",
                "monitor", "monitorDelay"}
Phases == {"idle", "lock", "try", "got", "hold"}

LockTypeOK ==
    /\ state \in [Node -> LockStates]
    /\ loopContext \in [Node -> Slot \cup {NoLoop}]
    /\ lockSession \in [Node -> Session \cup {NoSession}]
    /\ refreshFunc \in [Node -> Slot \cup {NoLoop}]
    /\ releasing \in [Node -> {"no", "Release", "Stop"}]
    /\ pc \in [Node -> [Slot -> LoopPCs]]
    /\ cancelled \in [Node -> [Slot -> BOOLEAN]]
    /\ refreshed \in [Node -> [Slot -> BOOLEAN]]
    /\ loopSession \in [Node -> [Slot -> Session \cup {NoSession}]]
    /\ phase \in [Node -> [Caller -> Phases]]
    /\ awake \in [Node -> [Caller -> BOOLEAN]]
    /\ lost \in [Node -> [Caller -> BOOLEAN]]

\* waitForSession never hands out the empty session.
SessionInHand ==
    \A n \in Node, i \in Slot :
        pc[n][i] \in WithSession => loopSession[n][i] \in Session

LockInit ==
    /\ state = [n \in Node |-> "Unknown"]
    /\ loopContext = [n \in Node |-> NoLoop]
    /\ lockSession = [n \in Node |-> NoSession]
    /\ refreshFunc = [n \in Node |-> NoLoop]
    /\ releasing = [n \in Node |-> "no"]
    /\ pc = [n \in Node |-> [i \in Slot |-> "none"]]
    /\ cancelled = [n \in Node |-> [i \in Slot |-> FALSE]]
    /\ refreshed = [n \in Node |-> [i \in Slot |-> FALSE]]
    /\ loopSession = [n \in Node |-> [i \in Slot |-> NoSession]]
    /\ phase = [n \in Node |-> [c \in Caller |-> "idle"]]
    /\ awake = [n \in Node |-> [c \in Caller |-> FALSE]]
    /\ lost = [n \in Node |-> [c \in Caller |-> FALSE]]

LockFree(n) == releasing[n] = "no"          \* l.mtx can be taken
MgrFree(n) == releasing[n] # "Stop"         \* m.mtx can be taken

Goto(n, i, l) == pc' = [pc EXCEPT ![n][i] = l]

\* refreshCtx is a child of the loop's context.
Interrupted(n, i) == cancelled[n][i] \/ refreshed[n][i]

-----------------------------------------------------------------------------
(* updateState: a critical section of l.mtx.                                 *)

\* l.stateCond.Broadcast(): every caller blocked in Wait has to look again.
Broadcast(n) ==
    awake' = [awake EXCEPT ![n] = [c \in Caller |-> phase[n][c] \in {"lock", "try"}]]

\* updateState(s): close or renew lockLostCh, notify on an error or a change.
UpdateState(n, s) ==
    /\ LockFree(n)
    /\ state' = [state EXCEPT ![n] = s]
    /\ lost' = IF state[n] = "Acquired" /\ s # "Acquired"
                 THEN [lost EXCEPT ![n] = [c \in Caller |-> phase[n][c] = "hold"]]
                 ELSE lost
    /\ IF s = "Error" \/ state[n] # s THEN Broadcast(n) ELSE UNCHANGED awake
    /\ UNCHANGED phase

-----------------------------------------------------------------------------
(* lockLoop, one action per step between two critical sections or RPCs.      *)

\* The select at the top of the loop.
LoopTop(n, i) ==
    /\ pc[n][i] = "top"
    /\ Goto(n, i, IF cancelled[n][i] THEN "exit" ELSE "install")
    /\ UNCHANGED <<cancelled, refreshed, loopSession>>
    /\ UNCHANGED <<lockVars, callerVars, mgrVars, kvVars>>

\* A new refreshCtx is made and its cancel function registered.
LoopInstall(n, i) ==
    /\ pc[n][i] = "install"
    /\ LockFree(n)
    /\ refreshFunc' = [refreshFunc EXCEPT ![n] = i]
    /\ refreshed' = [refreshed EXCEPT ![n][i] = FALSE]
    /\ Goto(n, i, "session")
    /\ UNCHANGED <<cancelled, loopSession>>
    /\ UNCHANGED <<state, loopContext, lockSession, releasing>>
    /\ UNCHANGED <<callerVars, mgrVars, kvVars>>

\* SessionFunc is waitForSession: it fails once the manager is stopped, starts
\* the session loop otherwise, and waits when there is no session yet.
LoopWaitForSession(n, i) ==
    /\ pc[n][i] = "session"
    /\ MgrFree(n)
    /\ IF shutdown[n]
         THEN Goto(n, i, "fail") /\ UNCHANGED <<sessionPC, loopSession>>
         ELSE /\ StartSessionLoop(n)
              /\ loopSession' = [loopSession EXCEPT ![n][i] = session[n]]
              /\ Goto(n, i, IF session[n] = NoSession THEN "waitSession" ELSE "gotSession")
    /\ UNCHANGED <<cancelled, refreshed>>
    /\ UNCHANGED <<shutdown, session, sessionCtx, created>>
    /\ UNCHANGED <<lockVars, callerVars, kvVars>>

\* sessionCond.Wait: woken by a new session, or by the cancellation of refreshCtx.
LoopSessionReady(n, i) ==
    /\ pc[n][i] = "waitSession"
    /\ MgrFree(n)
    /\ \/ /\ session[n] # NoSession
          /\ loopSession' = [loopSession EXCEPT ![n][i] = session[n]]
          /\ Goto(n, i, "gotSession")
       \/ /\ Interrupted(n, i)
          /\ Goto(n, i, "top")
          /\ UNCHANGED loopSession
    /\ UNCHANGED <<cancelled, refreshed>>
    /\ UNCHANGED <<lockVars, callerVars, mgrVars, kvVars>>

\* updateState(-1, l.session = session).
LoopRecordSession(n, i) ==
    /\ pc[n][i] = "gotSession"
    /\ LockFree(n)
    /\ lockSession' = [lockSession EXCEPT ![n] = loopSession[n][i]]
    /\ Goto(n, i, "acquire")
    /\ UNCHANGED <<cancelled, refreshed, loopSession>>
    /\ UNCHANGED <<state, loopContext, refreshFunc, releasing>>
    /\ UNCHANGED <<callerVars, mgrVars, kvVars>>

\* Mutant: the Boolean answer of kv.Acquire is ignored.
LoopAcquireUnchecked(n, i) ==
    /\ pc[n][i] = "acquire"
    /\ AcquireKV(loopSession[n][i])
    /\ Goto(n, i, IF loopSession[n][i] \notin alive THEN "fail" ELSE "acquired")
    /\ UNCHANGED <<cancelled, refreshed, loopSession>>
    /\ UNCHANGED <<alive, lockDelay, faults>>
    /\ UNCHANGED <<lockVars, callerVars, mgrVars>>

\* kv.Acquire, not cancellable: the server decides on the session of this loop.
LoopAcquire(n, i) ==
    /\ pc[n][i] = "acquire"
    /\ AcquireKV(loopSession[n][i])
    /\ Goto(n, i, CASE loopSession[n][i] \notin alive -> "fail"
                    [] owner' = loopSession[n][i]     -> "acquired"
                    [] OTHER                          -> "denied")
    /\ UNCHANGED <<cancelled, refreshed, loopSession>>
    /\ UNCHANGED <<alive, lockDelay, faults>>
    /\ UNCHANGED <<lockVars, callerVars, mgrVars>>

\* kv.Acquire returns an error; the server may or may not have executed it.
LoopAcquireFails(n, i) ==
    /\ pc[n][i] = "acquire"
    /\ Fault(n, "rpc")
    /\ AcquireKV(loopSession[n][i]) \/ UNCHANGED owner
    /\ Goto(n, i, "fail")
    /\ UNCHANGED <<cancelled, refreshed, loopSession>>
    /\ UNCHANGED <<alive, lockDelay>>
    /\ UNCHANGED <<lockVars, callerVars, mgrVars>>

\* updateState(stateAcquired).
LoopAcquired(n, i) ==
    /\ pc[n][i] = "acquired"
    /\ UpdateState(n, "Acquired")
    /\ Goto(n, i, "monitor")
    /\ UNCHANGED <<cancelled, refreshed, loopSession>>
    /\ UNCHANGED <<loopContext, lockSession, refreshFunc, releasing>>
    /\ UNCHANGED <<mgrVars, kvVars>>

\* Mutants: a free entry is taken for an acquired one, or waited for like a held one.
LoopReadOwnerFree(n, i) ==
    /\ pc[n][i] = "denied"
    /\ Goto(n, i, IF owner \in {NoSession, loopSession[n][i]} THEN "acquired" ELSE "held")
    /\ UNCHANGED <<cancelled, refreshed, loopSession>>
    /\ UNCHANGED <<lockVars, callerVars, mgrVars, kvVars>>

LoopReadOwnerWait(n, i) ==
    /\ pc[n][i] = "denied"
    /\ Goto(n, i, IF owner = loopSession[n][i] THEN "acquired" ELSE "held")
    /\ UNCHANGED <<cancelled, refreshed, loopSession>>
    /\ UNCHANGED <<lockVars, callerVars, mgrVars, kvVars>>

\* handleAcquisitionFailure: kv.Get tells who owns the entry.
LoopReadOwner(n, i) ==
    /\ pc[n][i] = "denied"
    /\ Goto(n, i, CASE owner = NoSession         -> "retry"
                    [] owner = loopSession[n][i] -> "acquired"
                    [] OTHER                     -> "held")
    /\ UNCHANGED <<cancelled, refreshed, loopSession>>
    /\ UNCHANGED <<lockVars, callerVars, mgrVars, kvVars>>

\* kv.Get fails or is interrupted: its error is reported as a failure to read
\* the lock, not as a cancellation.
LoopReadOwnerFails(n, i) ==
    /\ pc[n][i] = "denied"
    /\ \/ Interrupted(n, i) /\ UNCHANGED faults
       \/ Fault(n, "rpc")
    /\ Goto(n, i, "fail")
    /\ UNCHANGED <<cancelled, refreshed, loopSession>>
    /\ UNCHANGED <<alive, owner, lockDelay>>
    /\ UNCHANGED <<lockVars, callerVars, mgrVars>>

\* Mutant: no stateError while the entry is held by another session.
LoopHeldSilently(n, i) ==
    /\ pc[n][i] = "held"
    /\ LockFree(n)
    /\ Goto(n, i, IF Interrupted(n, i) THEN "top" ELSE "denied")
    /\ UNCHANGED <<cancelled, refreshed, loopSession>>
    /\ UNCHANGED <<lockVars, callerVars, mgrVars, kvVars>>

\* The entry is held by another session: updateState(stateError), then wait
\* for the entry to change unless interrupted.
LoopHeldByOther(n, i) ==
    /\ pc[n][i] = "held"
    /\ UpdateState(n, "Error")
    /\ Goto(n, i, IF Interrupted(n, i) THEN "top" ELSE "denied")
    /\ UNCHANGED <<cancelled, refreshed, loopSession>>
    /\ UNCHANGED <<loopContext, lockSession, refreshFunc, releasing>>
    /\ UNCHANGED <<mgrVars, kvVars>>

\* delay(RetryDelay) before the next kv.Acquire: it elapses or is interrupted.
LoopRetry(n, i) ==
    /\ pc[n][i] = "retry"
    /\ \/ Goto(n, i, "acquire")
       \/ Interrupted(n, i) /\ Goto(n, i, "top")
    /\ UNCHANGED <<cancelled, refreshed, loopSession>>
    /\ UNCHANGED <<lockVars, callerVars, mgrVars, kvVars>>

\* monitorLock: the consistent kv.Get shows another owner or none.
LoopRevoked(n, i) ==
    /\ pc[n][i] = "monitor"
    /\ owner # loopSession[n][i]
    /\ Goto(n, i, "fail")
    /\ UNCHANGED <<cancelled, refreshed, loopSession>>
    /\ UNCHANGED <<lockVars, callerVars, mgrVars, kvVars>>

\* monitorLock is interrupted while its kv.Get waits: it returns Canceled and
\* lockLoop continues with l.state as it is.
LoopMonitorInterrupted(n, i) ==
    /\ pc[n][i] = "monitor"
    /\ Interrupted(n, i)
    /\ Goto(n, i, "top")
    /\ UNCHANGED <<cancelled, refreshed, loopSession>>
    /\ UNCHANGED <<lockVars, callerVars, mgrVars, kvVars>>

\* kv.Get of monitorLock fails: a retryable error is followed by a delay, any
\* other ends the monitoring.
LoopMonitorFails(n, i) ==
    /\ pc[n][i] = "monitor"
    /\ Fault(n, "rpc")
    /\ Goto(n, i, "monitorDelay") \/ Goto(n, i, "fail")
    /\ UNCHANGED <<cancelled, refreshed, loopSession>>
    /\ UNCHANGED <<alive, owner, lockDelay>>
    /\ UNCHANGED <<lockVars, callerVars, mgrVars>>

\* After the delay the loop looks again; interrupted, it returns the error of
\* the failed kv.Get, which is not a cancellation.
LoopMonitorDelay(n, i) ==
    /\ pc[n][i] = "monitorDelay"
    /\ Goto(n, i, IF Interrupted(n, i) THEN "fail" ELSE "monitor")
    /\ UNCHANGED <<cancelled, refreshed, loopSession>>
    /\ UNCHANGED <<lockVars, callerVars, mgrVars, kvVars>>

\* updateState(stateError), for every failure of the current iteration.
LoopFail(n, i) ==
    /\ pc[n][i] = "fail"
    /\ UpdateState(n, "Error")
    /\ Goto(n, i, "top")
    /\ UNCHANGED <<cancelled, refreshed, loopSession>>
    /\ UNCHANGED <<loopContext, lockSession, refreshFunc, releasing>>
    /\ UNCHANGED <<mgrVars, kvVars>>

\* The loop ends: updateState(stateUnknown).
LoopExit(n, i) ==
    /\ pc[n][i] = "exit"
    /\ UpdateState(n, "Unknown")
    /\ Goto(n, i, "none")
    /\ cancelled' = [cancelled EXCEPT ![n][i] = FALSE]
    /\ refreshed' = [refreshed EXCEPT ![n][i] = FALSE]
    /\ loopSession' = [loopSession EXCEPT ![n][i] = NoSession]
    /\ UNCHANGED <<loopContext, lockSession, refreshFunc, releasing>>
    /\ UNCHANGED <<mgrVars, kvVars>>

-----------------------------------------------------------------------------
(* The operations of dsync.Lock.                                             *)

\* refresh(), called by the session loop when its session is gone.
Refresh(n) ==
    refreshed' = IF refreshFunc[n] = NoLoop THEN refreshed
                 ELSE [refreshed EXCEPT ![n][refreshFunc[n]] = TRUE]

\* The first half of Lock and TryLock: lazyStart starts a loop if none is current.
CallLock(n, c, kind) ==
    /\ kind \in Ops[n]
    /\ phase[n][c] = "idle"
    /\ LockFree(n)
    /\ \/ loopContext[n] # NoLoop /\ UNCHANGED <<loopContext, pc>>
       \/ /\ loopContext[n] = NoLoop
          /\ \E i \in Slot :
                /\ pc[n][i] = "none"
                /\ loopContext' = [loopContext EXCEPT ![n] = i]
                /\ Goto(n, i, "top")
    /\ phase' = [phase EXCEPT ![n][c] = kind]
    /\ awake' = [awake EXCEPT ![n][c] = TRUE]
    /\ UNCHANGED <<lost, cancelled, refreshed, loopSession>>
    /\ UNCHANGED <<state, lockSession, refreshFunc, releasing>>
    /\ UNCHANGED <<mgrVars, kvVars>>

\* waitForState: the matchers of Lock and of TryLock.
Succeeds(n) == state[n] = "Acquired"
GivesUp(n, kind) == /\ ~Succeeds(n)
                    /\ \/ kind = "try" /\ state[n] = "Error"
                       \/ loopContext[n] = NoLoop

\* waitForState evaluates the matcher and returns or blocks in stateCond.Wait.
CallerLooks(n, c) ==
    /\ phase[n][c] \in {"lock", "try"}
    /\ awake[n][c]
    /\ LockFree(n)
    /\ phase' = [phase EXCEPT ![n][c] = IF Succeeds(n) THEN "got"
                                        ELSE IF GivesUp(n, @) THEN "idle" ELSE @]
    /\ awake' = [awake EXCEPT ![n][c] = FALSE]
    /\ UNCHANGED lost
    /\ UNCHANGED <<lockVars, loopVars, mgrVars, kvVars>>

\* stateCond.Wait returns because the caller's context ended.
CallerCancelled(n, c) ==
    /\ "cancel" \in Ops[n]
    /\ phase[n][c] \in {"lock", "try"}
    /\ ~awake[n][c]
    /\ LockFree(n)
    /\ phase' = [phase EXCEPT ![n][c] = "idle"]
    /\ UNCHANGED <<awake, lost>>
    /\ UNCHANGED <<lockVars, loopVars, mgrVars, kvVars>>

\* Lost(): the caller now watches the current lockLostCh.
CallLost(n, c) ==
    /\ phase[n][c] = "got"
    /\ LockFree(n)
    /\ phase' = [phase EXCEPT ![n][c] = "hold"]
    /\ lost' = [lost EXCEPT ![n][c] = (state[n] # "Acquired")]
    /\ UNCHANGED awake
    /\ UNCHANGED <<lockVars, loopVars, mgrVars, kvVars>>

\* The caller stops working under the lock, told by Lost() or on its own.
CallerDone(n, c) ==
    /\ phase[n][c] = "hold"
    /\ lost[n][c] \/ "done" \in Ops[n]
    /\ phase' = [phase EXCEPT ![n][c] = "idle"]
    /\ lost' = [lost EXCEPT ![n][c] = FALSE]
    /\ UNCHANGED awake
    /\ UNCHANGED <<lockVars, loopVars, mgrVars, kvVars>>

\* Mutant: loopContext is dropped without calling loopCancelFunc.
ReleaseForgetsLoop(n, by) ==
    /\ loopContext' = [loopContext EXCEPT ![n] = NoLoop]
    /\ releasing' = [releasing EXCEPT ![n] =
                       IF loopContext[n] # NoLoop /\ lockSession[n] # NoSession
                         THEN by ELSE "no"]
    /\ UNCHANGED <<state, lockSession, refreshFunc>>
    /\ UNCHANGED <<pc, cancelled, refreshed, loopSession>>
    /\ UNCHANGED callerVars

\* release() up to its RPC, with l.mtx taken: stopLoop, and nothing more when no
\* session was ever used. Without a current loop release() does nothing.
ReleaseBegins(n, by) ==
    /\ IF loopContext[n] = NoLoop
         THEN UNCHANGED cancelled
         ELSE cancelled' = [cancelled EXCEPT ![n][loopContext[n]] = TRUE]
    /\ loopContext' = [loopContext EXCEPT ![n] = NoLoop]
    /\ releasing' = [releasing EXCEPT ![n] =
                       IF loopContext[n] # NoLoop /\ lockSession[n] # NoSession
                         THEN by ELSE "no"]
    /\ UNCHANGED <<state, lockSession, refreshFunc>>
    /\ UNCHANGED <<pc, refreshed, loopSession>>
    /\ UNCHANGED callerVars

Release(n) ==
    /\ "Release" \in Ops[n]
    /\ LockFree(n)
    /\ loopContext[n] # NoLoop
    /\ ReleaseBegins(n, "Release")
    /\ UNCHANGED <<mgrVars, kvVars>>

\* KV().Release with the session used last, then l.mtx is given back.
ReleaseReturns(n) ==
    /\ releasing[n] # "no"
    /\ ReleaseKV(lockSession[n])
    /\ releasing' = [releasing EXCEPT ![n] = "no"]
    /\ UNCHANGED <<alive, lockDelay, faults>>
    /\ UNCHANGED <<state, loopContext, lockSession, refreshFunc>>
    /\ UNCHANGED <<loopVars, callerVars, mgrVars>>

\* KV().Release returns an error: executed by the server or not.
ReleaseFails(n) ==
    /\ releasing[n] # "no"
    /\ Fault(n, "rpc")
    /\ ReleaseKV(lockSession[n]) \/ UNCHANGED owner
    /\ releasing' = [releasing EXCEPT ![n] = "no"]
    /\ UNCHANGED <<alive, lockDelay>>
    /\ UNCHANGED <<state, loopContext, lockSession, refreshFunc>>
    /\ UNCHANGED <<loopVars, callerVars, mgrVars>>
=============================================================================
