-------------------------- MODULE ConsulTypeProofs --------------------------
(* dsync over Consul: type correctness, what a step of a loop can touch, and *)
(* what the callers of Lock, TryLock and Lost get to know, for any number of *)
(* nodes, sessions, loops, callers and faults.                               *)
EXTENDS ConsulSync, TLAPS

\* The initial state of the server, the managers and the locks is well typed.
LEMMA InitType == Init => TypeOK
<1> SUFFICES ASSUME Init PROVE TypeOK
  OBVIOUS
<1>1. KVTypeOK
  <2>1. faults \in 0..MaxFaults
    BY FaultAssumption DEF Init, KVInit
  <2>2. lockDelay \in BOOLEAN /\ alive \subseteq Session
    BY Zenon DEF Init, KVInit
  <2>3. owner \in Session \cup {NoSession}
    BY DEF Init, KVInit
  <2> QED BY <2>1, <2>2, <2>3 DEF KVTypeOK
<1>2. MgrTypeOK
  BY DEF Init, MgrInit, MgrTypeOK, SessionPCs
<1>3. LockTypeOK
  BY DEF Init, LockInit, LockTypeOK, LockStates, LoopPCs, Phases
<1>4. SessionInHand
  BY DEF Init, LockInit, SessionInHand, WithSession
<1> QED BY <1>1, <1>2, <1>3, <1>4 DEF TypeOK

\* Using up a fault keeps the number of faults left in its range.
LEMMA FaultType ==
  ASSUME KVTypeOK, NEW n, NEW kind, Fault(n, kind)
  PROVE  faults' \in 0..MaxFaults
BY FaultAssumption DEF KVTypeOK, Fault

\* No step breaks the type of the server's variables.
LEMMA KVTypeStep == TypeOK /\ [Next]_vars => KVTypeOK'
<1> SUFFICES ASSUME TypeOK, [Next]_vars PROVE KVTypeOK'
  OBVIOUS
<1>k. KVTypeOK
  BY DEF TypeOK
<1>u. ASSUME UNCHANGED kvVars PROVE KVTypeOK'
  BY <1>k, <1>u DEF KVTypeOK, kvVars
<1>1. ASSUME NEW s \in Session, Expire(s) PROVE KVTypeOK'
  BY <1>k, <1>1 DEF Expire, SessionExpires, InvalidateKV, KVTypeOK
<1>2. ASSUME NEW s \in Session, Revoke(s) PROVE KVTypeOK'
  <2>1. faults' \in 0..MaxFaults
    BY <1>k, <1>2, FaultType DEF Revoke, SessionRevoked
  <2> QED BY <1>k, <1>2, <2>1 DEF Revoke, SessionRevoked, InvalidateKV, KVTypeOK
<1>3. ASSUME DelayOver PROVE KVTypeOK'
  BY Zenon, <1>k, <1>3 DEF DelayOver, LockDelayOver, KVTypeOK
<1>4. ASSUME NEW n \in Node, SessionStep(n) PROVE KVTypeOK'
  <2>1. ASSUME NEW s \in Session, SessionCreate(n, s) PROVE KVTypeOK'
    BY <1>k, <2>1 DEF SessionCreate, KVTypeOK
  <2>2. ASSUME NEW s \in Session, SessionCreateLost(n, s) PROVE KVTypeOK'
    <3>1. faults' \in 0..MaxFaults
      BY <1>k, <2>2, FaultType DEF SessionCreateLost, KVTypeOK
    <3> QED BY <1>k, <2>2, <3>1 DEF SessionCreateLost, KVTypeOK
  <2>3. ASSUME SessionCreateFails(n) \/ SessionKeepEnds(n) PROVE KVTypeOK'
    <3>1. faults' \in 0..MaxFaults
      BY <1>k, <2>3, FaultType DEF SessionCreateFails, SessionKeepEnds, KVTypeOK
    <3> QED BY <1>k, <2>3, <3>1 DEF SessionCreateFails, SessionKeepEnds, KVTypeOK
  <2>4. ASSUME SessionTop(n) \/ SessionPublish(n) \/ SessionNotify(n) PROVE KVTypeOK'
    BY <2>4, <1>u DEF SessionTop, SessionPublish, SessionNotify
  <2> QED BY <1>4, <2>1, <2>2, <2>3, <2>4 DEF SessionStep
<1>5. ASSUME NEW n \in Node, NEW i \in Slot, LoopStep(n, i) PROVE KVTypeOK'
  <2>1. ASSUME LoopAcquire(n, i) PROVE KVTypeOK'
    BY <1>k, <2>1 DEF LoopAcquire, AcquireKV, KVTypeOK
  <2>2. ASSUME LoopAcquireFails(n, i) PROVE KVTypeOK'
    <3>1. faults' \in 0..MaxFaults
      BY <1>k, <2>2, FaultType DEF LoopAcquireFails
    <3> QED BY <1>k, <2>2, <3>1 DEF LoopAcquireFails, AcquireKV, KVTypeOK
  <2>3. ASSUME LoopReadOwnerFails(n, i) \/ LoopMonitorFails(n, i) PROVE KVTypeOK'
    <3>1. faults' \in 0..MaxFaults
      BY <1>k, <2>3, FaultType DEF LoopReadOwnerFails, LoopMonitorFails, KVTypeOK
    <3> QED BY <1>k, <2>3, <3>1 DEF LoopReadOwnerFails, LoopMonitorFails, KVTypeOK
  <2> QED
    BY <1>5, <1>u, <2>1, <2>2, <2>3
    DEF LoopStep, LoopTop, LoopInstall, LoopWaitForSession, LoopSessionReady,
        LoopRecordSession, LoopAcquired, LoopReadOwner, LoopHeldByOther, LoopRetry,
        LoopRevoked, LoopMonitorInterrupted, LoopMonitorDelay, LoopFail, LoopExit
<1>6. ASSUME NEW n \in Node, AppStep(n) PROVE KVTypeOK'
  <2>1. ASSUME ReleaseReturns(n) PROVE KVTypeOK'
    BY <1>k, <2>1 DEF ReleaseReturns, ReleaseKV, KVTypeOK
  <2>2. ASSUME ReleaseFails(n) PROVE KVTypeOK'
    <3>1. faults' \in 0..MaxFaults
      BY <1>k, <2>2, FaultType DEF ReleaseFails
    <3> QED BY <1>k, <2>2, <3>1 DEF ReleaseFails, ReleaseKV, KVTypeOK
  <2> QED
    BY <1>6, <1>u, <2>1, <2>2
    DEF AppStep, CallLock, CallerLooks, CallerCancelled, CallLost, CallerDone, Release
<1>7. ASSUME NEW n \in Node, Stop(n) PROVE KVTypeOK'
  BY <1>7, <1>u DEF Stop
<1>8. ASSUME NEW n \in Node, Crash(n) PROVE KVTypeOK'
  <2>1. faults' \in 0..MaxFaults
    BY <1>k, <1>8, FaultType DEF Crash
  <2> QED BY <1>k, <1>8, <2>1 DEF Crash, KVTypeOK
<1>9. ASSUME UNCHANGED vars PROVE KVTypeOK'
  BY <1>9, <1>u DEF vars
<1> QED BY <1>1, <1>2, <1>3, <1>4, <1>5, <1>6, <1>7, <1>8, <1>9 DEF Next

\* No step breaks the type of the managers' variables.
LEMMA MgrTypeStep == TypeOK /\ [Next]_vars => MgrTypeOK'
<1> SUFFICES ASSUME TypeOK, [Next]_vars PROVE MgrTypeOK'
  OBVIOUS
<1>k. MgrTypeOK
  BY DEF TypeOK
<1>u. ASSUME UNCHANGED mgrVars PROVE MgrTypeOK'
  BY <1>k, <1>u DEF MgrTypeOK, mgrVars
<1>1. ASSUME NEW s \in Session, Expire(s) \/ Revoke(s) PROVE MgrTypeOK'
  BY <1>1, <1>u DEF Expire, Revoke, SessionExpires, SessionRevoked
<1>2. ASSUME DelayOver PROVE MgrTypeOK'
  BY <1>2, <1>u DEF DelayOver
<1>3. ASSUME NEW n \in Node, SessionStep(n) PROVE MgrTypeOK'
  <2>1. ASSUME SessionTop(n) PROVE MgrTypeOK'
    BY <1>k, <2>1 DEF SessionTop, MgrTypeOK, SessionPCs
  <2>2. ASSUME NEW s \in Session, SessionCreate(n, s) PROVE MgrTypeOK'
    BY <1>k, <2>2 DEF SessionCreate, MgrTypeOK, SessionPCs
  <2>3. ASSUME NEW s \in Session, SessionCreateLost(n, s) PROVE MgrTypeOK'
    BY <1>k, <2>3 DEF SessionCreateLost, MgrTypeOK, SessionPCs
  <2>4. ASSUME SessionCreateFails(n) PROVE MgrTypeOK'
    BY <1>k, <2>4 DEF SessionCreateFails, MgrTypeOK, SessionPCs
  <2>5. ASSUME SessionPublish(n) PROVE MgrTypeOK'
    BY <1>k, <2>5 DEF SessionPublish, MgrTypeOK, SessionPCs
  <2>6. ASSUME SessionKeepEnds(n) PROVE MgrTypeOK'
    BY <1>k, <2>6 DEF SessionKeepEnds, MgrTypeOK, SessionPCs
  <2>7. ASSUME SessionNotify(n) PROVE MgrTypeOK'
    BY <1>k, <2>7 DEF SessionNotify, MgrTypeOK, SessionPCs
  <2> QED BY <1>3, <2>1, <2>2, <2>3, <2>4, <2>5, <2>6, <2>7 DEF SessionStep
<1>4. ASSUME NEW n \in Node, NEW i \in Slot, LoopStep(n, i) PROVE MgrTypeOK'
  <2>1. ASSUME LoopWaitForSession(n, i) PROVE MgrTypeOK'
    BY <1>k, <2>1 DEF LoopWaitForSession, StartSessionLoop, MgrTypeOK, SessionPCs
  <2> QED
    BY <1>4, <1>u, <2>1
    DEF LoopStep, LoopTop, LoopInstall, LoopSessionReady, LoopRecordSession,
        LoopAcquire, LoopAcquireFails, LoopAcquired, LoopReadOwner, LoopReadOwnerFails,
        LoopHeldByOther, LoopRetry, LoopRevoked, LoopMonitorInterrupted,
        LoopMonitorFails, LoopMonitorDelay, LoopFail, LoopExit
<1>5. ASSUME NEW n \in Node, AppStep(n) PROVE MgrTypeOK'
  BY <1>5, <1>u
  DEF AppStep, CallLock, CallerLooks, CallerCancelled, CallLost, CallerDone, Release,
      ReleaseReturns, ReleaseFails
<1>6. ASSUME NEW n \in Node, Stop(n) PROVE MgrTypeOK'
  BY <1>k, <1>6 DEF Stop, MgrTypeOK
<1>7. ASSUME NEW n \in Node, Crash(n) PROVE MgrTypeOK'
  BY <1>k, <1>7 DEF Crash, MgrTypeOK, SessionPCs
<1>8. ASSUME UNCHANGED vars PROVE MgrTypeOK'
  BY <1>8, <1>u DEF vars
<1> QED BY <1>1, <1>2, <1>3, <1>4, <1>5, <1>6, <1>7, <1>8 DEF Next

\* Changing one entry of a two-level function.
LEMMA Update2 ==
  ASSUME NEW A, NEW B, NEW V, NEW f \in [A -> [B -> V]], NEW a \in A, NEW b \in B, NEW v \in V,
         NEW g, g = [f EXCEPT ![a][b] = v]
  PROVE  /\ g \in [A -> [B -> V]]
         /\ g[a][b] = v
         /\ \A x \in A, y \in B : x # a \/ y # b => g[x][y] = f[x][y]
<1>1. g = [f EXCEPT ![a] = [f[a] EXCEPT ![b] = v]]
  OBVIOUS
<1>2. [f[a] EXCEPT ![b] = v] \in [B -> V]
  OBVIOUS
<1> QED BY <1>1, <1>2

\* Every loop but loop i of node n keeps its context as it is.
OthersKept(n, i) ==
    \A m \in Node, j \in Slot : m # n \/ j # i => cancelled'[m][j] = cancelled[m][j]

\* Cancelling one loop's context leaves the others alone.
LEMMA CancelSets ==
  ASSUME NEW n \in Node, NEW i \in Slot, cancelled \in [Node -> [Slot -> BOOLEAN]],
         cancelled' = [cancelled EXCEPT ![n][i] = TRUE]
  PROVE  /\ cancelled'[n][i]
         /\ OthersKept(n, i)
<1>1. \A m \in Node, j \in Slot : m # n \/ j # i => cancelled'[m][j] = cancelled[m][j]
  BY Zenon
<1>2. cancelled'[n] = [cancelled[n] EXCEPT ![i] = TRUE] /\ cancelled[n] \in [Slot -> BOOLEAN]
  OBVIOUS
<1>3. cancelled'[n][i]
  BY <1>2
<1> QED BY Zenon, <1>1, <1>3 DEF OthersKept

\* So does freeing its slot.
LEMMA CancelClears ==
  ASSUME NEW n \in Node, NEW i \in Slot, cancelled \in [Node -> [Slot -> BOOLEAN]],
         cancelled' = [cancelled EXCEPT ![n][i] = FALSE]
  PROVE  /\ ~cancelled'[n][i]
         /\ OthersKept(n, i)
<1>1. \A m \in Node, j \in Slot : m # n \/ j # i => cancelled'[m][j] = cancelled[m][j]
  BY Zenon
<1>2. cancelled'[n] = [cancelled[n] EXCEPT ![i] = FALSE] /\ cancelled[n] \in [Slot -> BOOLEAN]
  OBVIOUS
<1>3. ~cancelled'[n][i]
  BY <1>2
<1> QED BY Zenon, <1>1, <1>3 DEF OthersKept

\* Replacing one row of a two-level function.
LEMMA UpdateRow ==
  ASSUME NEW A, NEW B, NEW V, NEW f \in [A -> [B -> V]], NEW a \in A, NEW r \in [B -> V],
         NEW g, g = [f EXCEPT ![a] = r]
  PROVE  g \in [A -> [B -> V]]
OBVIOUS

\* What moving one loop to another place does to the places of all loops.
LEMMA GotoFrame ==
  ASSUME LockTypeOK, NEW n \in Node, NEW i \in Slot, NEW l \in LoopPCs, Goto(n, i, l)
  PROVE  /\ pc' \in [Node -> [Slot -> LoopPCs]]
         /\ pc'[n][i] = l
         /\ \A m \in Node, j \in Slot : m # n \/ j # i => pc'[m][j] = pc[m][j]
<1>1. pc' = [pc EXCEPT ![n][i] = l]
  BY DEF Goto
<1>2. pc \in [Node -> [Slot -> LoopPCs]]
  BY DEF LockTypeOK
<1> QED BY <1>1, <1>2, Update2

\* updateState keeps the type of what it writes.
LEMMA UpdateStateType ==
  ASSUME LockTypeOK, NEW n \in Node, NEW s \in LockStates, UpdateState(n, s)
  PROVE  /\ state' \in [Node -> LockStates]
         /\ phase' \in [Node -> [Caller -> Phases]]
         /\ awake' \in [Node -> [Caller -> BOOLEAN]]
         /\ lost' \in [Node -> [Caller -> BOOLEAN]]
<1>1. state' \in [Node -> LockStates] /\ phase' \in [Node -> [Caller -> Phases]]
  BY DEF LockTypeOK, UpdateState
<1>2. awake' \in [Node -> [Caller -> BOOLEAN]]
  <2> DEFINE w == [c \in Caller |-> phase[n][c] \in {"lock", "try"}]
  <2>1. w \in [Caller -> BOOLEAN]
    OBVIOUS
  <2>2. awake' = awake \/ awake' = [awake EXCEPT ![n] = w]
    BY DEF UpdateState, Broadcast
  <2> HIDE DEF w
  <2> QED BY Zenon, <2>1, <2>2 DEF LockTypeOK
<1>3. lost' \in [Node -> [Caller -> BOOLEAN]]
  <2> DEFINE w == [c \in Caller |-> phase[n][c] = "hold"]
  <2>1. w \in [Caller -> BOOLEAN]
    OBVIOUS
  <2>2. lost' = lost \/ lost' = [lost EXCEPT ![n] = w]
    BY DEF UpdateState
  <2> HIDE DEF w
  <2> QED BY Zenon, <2>1, <2>2 DEF LockTypeOK
<1> QED BY <1>1, <1>2, <1>3

\* What a step of lockLoop does to the places of the loops, to their contexts
\* and to their local sessions: only the loop that steps moves, it had been
\* started, and it gets to a place that needs a session only with a session.
LoopFrame(n, i) ==
    /\ pc[n][i] # "none"
    /\ \E l \in LoopPCs :
          /\ Goto(n, i, l)
          /\ \/ /\ UNCHANGED <<cancelled, loopSession>>
                /\ l # "none"
                /\ l \in WithSession => pc[n][i] \in WithSession
             \/ /\ UNCHANGED cancelled
                /\ loopSession' = [loopSession EXCEPT ![n][i] = session[n]]
                /\ l = IF session[n] = NoSession THEN "waitSession" ELSE "gotSession"
             \/ /\ cancelled' = [cancelled EXCEPT ![n][i] = FALSE]
                /\ loopSession' = [loopSession EXCEPT ![n][i] = NoSession]
                /\ pc[n][i] = "exit" /\ l = "none"
    /\ UNCHANGED <<loopContext, releasing>>

LEMMA LoopStepFrame ==
  ASSUME NEW n \in Node, NEW i \in Slot, LoopStep(n, i)
  PROVE  LoopFrame(n, i)
<1> USE DEF LoopFrame, LoopPCs, WithSession
<1>1. ASSUME LoopTop(n, i) PROVE LoopFrame(n, i)
  BY <1>1 DEF LoopTop, lockVars
<1>2. ASSUME LoopInstall(n, i) \/ LoopRecordSession(n, i) PROVE LoopFrame(n, i)
  BY <1>2 DEF LoopInstall, LoopRecordSession
<1>3. ASSUME LoopWaitForSession(n, i) PROVE LoopFrame(n, i)
  BY <1>3 DEF LoopWaitForSession, lockVars
<1>4. ASSUME LoopSessionReady(n, i) PROVE LoopFrame(n, i)
  BY <1>4 DEF LoopSessionReady, lockVars
<1>5. ASSUME LoopAcquire(n, i) PROVE LoopFrame(n, i)
  <2>1. \E l \in {"fail", "acquired", "denied"} : Goto(n, i, l)
    BY <1>5 DEF LoopAcquire
  <2> QED BY <1>5, <2>1 DEF LoopAcquire, lockVars
<1>6. ASSUME LoopReadOwner(n, i) PROVE LoopFrame(n, i)
  <2>1. \E l \in {"retry", "acquired", "held"} : Goto(n, i, l)
    BY <1>6 DEF LoopReadOwner
  <2> QED BY <1>6, <2>1 DEF LoopReadOwner, lockVars
<1>7. ASSUME LoopAcquireFails(n, i) \/ LoopReadOwnerFails(n, i) \/ LoopRevoked(n, i)
      PROVE  LoopFrame(n, i)
  BY <1>7 DEF LoopAcquireFails, LoopReadOwnerFails, LoopRevoked, lockVars
<1>8. ASSUME LoopMonitorInterrupted(n, i) \/ LoopMonitorFails(n, i) PROVE LoopFrame(n, i)
  BY <1>8 DEF LoopMonitorInterrupted, LoopMonitorFails, lockVars
<1>9. ASSUME LoopMonitorDelay(n, i) \/ LoopRetry(n, i) PROVE LoopFrame(n, i)
  BY <1>9 DEF LoopMonitorDelay, LoopRetry, lockVars
<1>10. ASSUME LoopAcquired(n, i) \/ LoopHeldByOther(n, i) \/ LoopFail(n, i)
       PROVE  LoopFrame(n, i)
  BY <1>10 DEF LoopAcquired, LoopHeldByOther, LoopFail
<1>11. ASSUME LoopExit(n, i) PROVE LoopFrame(n, i)
  BY <1>11 DEF LoopExit
<1> QED
  BY Zenon, <1>1, <1>2, <1>3, <1>4, <1>5, <1>6, <1>7, <1>8, <1>9, <1>10, <1>11 DEF LoopStep

\* stopLoop cancels one loop or none.
LEMMA CancelType ==
  ASSUME LockTypeOK, NEW n \in Node, NEW by, ReleaseBegins(n, by)
  PROVE  cancelled' \in [Node -> [Slot -> BOOLEAN]]
<1>1. CASE loopContext[n] = NoLoop
  BY <1>1 DEF ReleaseBegins, LockTypeOK
<1>2. CASE loopContext[n] # NoLoop
  <2>1. PICK i \in Slot : cancelled' = [cancelled EXCEPT ![n][i] = TRUE]
    BY Zenon, <1>2 DEF ReleaseBegins, LockTypeOK
  <2> QED BY <2>1, Update2 DEF LockTypeOK
<1> QED BY <1>1, <1>2

\* No step breaks the type of the locks' variables.
LEMMA LockTypeStep == TypeOK /\ [Next]_vars => LockTypeOK'
<1> SUFFICES ASSUME TypeOK, [Next]_vars PROVE LockTypeOK'
  OBVIOUS
<1>k. LockTypeOK /\ MgrTypeOK
  BY DEF TypeOK
<1>u. ASSUME UNCHANGED <<lockVars, loopVars, callerVars>> PROVE LockTypeOK'
  BY <1>k, <1>u DEF LockTypeOK, lockVars, loopVars, callerVars
<1>1. ASSUME NEW s \in Session, Expire(s) \/ Revoke(s) PROVE LockTypeOK'
  BY <1>1, <1>u DEF Expire, Revoke
<1>2. ASSUME DelayOver PROVE LockTypeOK'
  BY <1>2, <1>u DEF DelayOver
<1>3. ASSUME NEW n \in Node, SessionStep(n) PROVE LockTypeOK'
  <2>1. ASSUME SessionNotify(n) PROVE LockTypeOK'
    <3>1. refreshed' \in [Node -> [Slot -> BOOLEAN]]
      BY <1>k, <2>1, Update2 DEF SessionNotify, Refresh, LockTypeOK
    <3> QED BY <1>k, <2>1, <3>1 DEF SessionNotify, LockTypeOK, lockVars, callerVars
  <2> QED BY <1>3, <1>u, <2>1 DEF SessionStep
<1>4. ASSUME NEW n \in Node, NEW i \in Slot, LoopStep(n, i) PROVE LockTypeOK'
  <2>f. LoopFrame(n, i)
    BY <1>4, LoopStepFrame
  <2>1. pc' \in [Node -> [Slot -> LoopPCs]]
    BY <1>k, <2>f, GotoFrame DEF LoopFrame
  <2>2. cancelled' \in [Node -> [Slot -> BOOLEAN]]
    <3>1. UNCHANGED cancelled \/ cancelled' = [cancelled EXCEPT ![n][i] = FALSE]
      BY <2>f DEF LoopFrame
    <3>2. CASE cancelled' = [cancelled EXCEPT ![n][i] = FALSE]
      BY <1>k, <3>2, Update2 DEF LockTypeOK
    <3> QED BY <1>k, <3>1, <3>2 DEF LockTypeOK
  <2>3. loopSession' \in [Node -> [Slot -> Session \cup {NoSession}]]
    <3>1. \/ UNCHANGED loopSession
          \/ \E s \in Session \cup {NoSession} :
                loopSession' = [loopSession EXCEPT ![n][i] = s]
      BY <1>k, <2>f DEF LoopFrame, MgrTypeOK
    <3>2. ASSUME NEW s \in Session \cup {NoSession},
                 loopSession' = [loopSession EXCEPT ![n][i] = s]
          PROVE  loopSession' \in [Node -> [Slot -> Session \cup {NoSession}]]
      BY <1>k, <3>2, Update2 DEF LockTypeOK
    <3> QED BY Zenon, <1>k, <3>1, <3>2 DEF LockTypeOK
  <2>4. loopContext' \in [Node -> Slot \cup {NoLoop}] /\ releasing' \in [Node -> {"no", "Release", "Stop"}]
    BY <1>k, <2>f DEF LoopFrame, LockTypeOK
  <2>q. ASSUME /\ UNCHANGED <<refreshed, state, lockSession, refreshFunc>>
               /\ UNCHANGED callerVars
        PROVE  LockTypeOK'
    BY <1>k, <2>1, <2>2, <2>3, <2>4, <2>q DEF LockTypeOK, callerVars
  <2>5. ASSUME LoopInstall(n, i) PROVE LockTypeOK'
    <3>1. refreshed' \in [Node -> [Slot -> BOOLEAN]]
      BY <1>k, <2>5, Update2 DEF LoopInstall, LockTypeOK
    <3>2. refreshFunc' \in [Node -> Slot \cup {NoLoop}]
      BY <1>k, <2>5 DEF LoopInstall, LockTypeOK
    <3> QED BY <1>k, <2>1, <2>2, <2>3, <2>4, <2>5, <3>1, <3>2
            DEF LoopInstall, LockTypeOK, callerVars
  <2>6. ASSUME LoopRecordSession(n, i) PROVE LockTypeOK'
    <3>1. lockSession' \in [Node -> Session \cup {NoSession}]
      BY <1>k, <2>6 DEF LoopRecordSession, LockTypeOK
    <3> QED BY <1>k, <2>1, <2>2, <2>3, <2>4, <2>6, <3>1
            DEF LoopRecordSession, LockTypeOK, callerVars
  <2>7. ASSUME LoopAcquired(n, i) \/ LoopHeldByOther(n, i) \/ LoopFail(n, i) \/ LoopExit(n, i)
        PROVE  LockTypeOK'
    <3>1. \E s \in LockStates : UpdateState(n, s)
      BY <2>7 DEF LoopAcquired, LoopHeldByOther, LoopFail, LoopExit, LockStates
    <3>2. /\ state' \in [Node -> LockStates]
          /\ phase' \in [Node -> [Caller -> Phases]]
          /\ awake' \in [Node -> [Caller -> BOOLEAN]]
          /\ lost' \in [Node -> [Caller -> BOOLEAN]]
      BY <1>k, <3>1, UpdateStateType
    <3>3. refreshed' \in [Node -> [Slot -> BOOLEAN]]
      <4>1. UNCHANGED refreshed \/ refreshed' = [refreshed EXCEPT ![n][i] = FALSE]
        BY <2>7 DEF LoopAcquired, LoopHeldByOther, LoopFail, LoopExit
      <4>2. CASE refreshed' = [refreshed EXCEPT ![n][i] = FALSE]
        BY <1>k, <4>2, Update2 DEF LockTypeOK
      <4> QED BY <1>k, <4>1, <4>2 DEF LockTypeOK
    <3>4. UNCHANGED <<lockSession, refreshFunc>>
      BY <2>7 DEF LoopAcquired, LoopHeldByOther, LoopFail, LoopExit
    <3> QED BY <1>k, <2>1, <2>2, <2>3, <2>4, <3>2, <3>3, <3>4 DEF LockTypeOK
  <2> QED
    BY <1>4, <2>q, <2>5, <2>6, <2>7
    DEF LoopStep, LoopTop, LoopWaitForSession, LoopSessionReady, LoopAcquire,
        LoopAcquireFails, LoopReadOwner, LoopReadOwnerFails, LoopRetry, LoopRevoked,
        LoopMonitorInterrupted, LoopMonitorFails, LoopMonitorDelay, lockVars
<1>5. ASSUME NEW n \in Node, AppStep(n) PROVE LockTypeOK'
  <2>1. ASSUME NEW c \in Caller, NEW kind \in {"lock", "try"}, CallLock(n, c, kind)
        PROVE  LockTypeOK'
    <3>1. phase' \in [Node -> [Caller -> Phases]]
      BY <1>k, <2>1, Update2 DEF CallLock, LockTypeOK, Phases
    <3>2. awake' \in [Node -> [Caller -> BOOLEAN]]
      BY <1>k, <2>1, Update2 DEF CallLock, LockTypeOK
    <3>3. pc' \in [Node -> [Slot -> LoopPCs]]
      BY Zenon, <1>k, <2>1, GotoFrame DEF CallLock, LockTypeOK, LoopPCs
    <3>4. loopContext' \in [Node -> Slot \cup {NoLoop}]
      BY Zenon, <1>k, <2>1 DEF CallLock, LockTypeOK
    <3> QED BY Zenon, <1>k, <2>1, <3>1, <3>2, <3>3, <3>4 DEF CallLock, LockTypeOK
  <2>2. ASSUME NEW c \in Caller, CallerLooks(n, c) PROVE LockTypeOK'
    <3>1. phase[n][c] \in Phases
      BY <1>k DEF LockTypeOK
    <3>2. phase' \in [Node -> [Caller -> Phases]]
      BY <1>k, <2>2, <3>1, Update2 DEF CallerLooks, LockTypeOK, Phases
    <3>3. awake' \in [Node -> [Caller -> BOOLEAN]]
      BY <1>k, <2>2, Update2 DEF CallerLooks, LockTypeOK
    <3> QED BY Zenon, <1>k, <2>2, <3>2, <3>3 DEF CallerLooks, LockTypeOK, lockVars, loopVars
  <2>3. ASSUME NEW c \in Caller, CallerCancelled(n, c) PROVE LockTypeOK'
    <3>1. phase' \in [Node -> [Caller -> Phases]]
      BY Zenon, <1>k, <2>3, Update2 DEF CallerCancelled, LockTypeOK, Phases
    <3> QED BY <1>k, <2>3, <3>1 DEF CallerCancelled, LockTypeOK, lockVars, loopVars
  <2>4. ASSUME NEW c \in Caller, CallLost(n, c) \/ CallerDone(n, c) PROVE LockTypeOK'
    <3>1. phase' \in [Node -> [Caller -> Phases]]
      <4>1. PICK p \in Phases : phase' = [phase EXCEPT ![n][c] = p]
        BY <2>4 DEF CallLost, CallerDone, Phases
      <4> QED BY <1>k, <4>1, Update2 DEF LockTypeOK
    <3>2. lost' \in [Node -> [Caller -> BOOLEAN]]
      <4>1. PICK b \in BOOLEAN : lost' = [lost EXCEPT ![n][c] = b]
        BY Zenon, <2>4 DEF CallLost, CallerDone
      <4> QED BY <1>k, <4>1, Update2 DEF LockTypeOK
    <3> QED BY Zenon, <1>k, <2>4, <3>1, <3>2 DEF CallLost, CallerDone, LockTypeOK, lockVars, loopVars
  <2>5. ASSUME Release(n) PROVE LockTypeOK'
    <3>1. cancelled' \in [Node -> [Slot -> BOOLEAN]]
      BY <1>k, <2>5, CancelType DEF Release
    <3> QED BY <1>k, <2>5, <3>1 DEF Release, ReleaseBegins, LockTypeOK, callerVars
  <2>6. ASSUME ReleaseReturns(n) \/ ReleaseFails(n) PROVE LockTypeOK'
    BY Zenon, <1>k, <2>6 DEF ReleaseReturns, ReleaseFails, LockTypeOK, loopVars, callerVars
  <2> QED BY <1>5, <2>1, <2>2, <2>3, <2>4, <2>5, <2>6 DEF AppStep
<1>6. ASSUME NEW n \in Node, Stop(n) PROVE LockTypeOK'
  <2>1. cancelled' \in [Node -> [Slot -> BOOLEAN]]
    BY Zenon, <1>k, <1>6, CancelType DEF Stop
  <2> QED BY Zenon, <1>k, <1>6, <2>1 DEF Stop, ReleaseBegins, LockTypeOK, callerVars
<1>7. ASSUME NEW n \in Node, Crash(n) PROVE LockTypeOK'
  BY <1>k, <1>7 DEF Crash, LockTypeOK, LockStates, LoopPCs, Phases
<1>8. ASSUME UNCHANGED vars PROVE LockTypeOK'
  BY <1>8, <1>u DEF vars
<1> QED BY <1>1, <1>2, <1>3, <1>4, <1>5, <1>6, <1>7, <1>8 DEF Next

\* No step leaves a loop with an empty session where it uses one.
LEMMA SessionInHandStep == TypeOK /\ [Next]_vars => SessionInHand'
<1> SUFFICES ASSUME TypeOK, [Next]_vars PROVE SessionInHand'
  OBVIOUS
<1>k. LockTypeOK /\ MgrTypeOK /\ SessionInHand
  BY DEF TypeOK
<1>u. ASSUME UNCHANGED <<pc, loopSession>> PROVE SessionInHand'
  BY <1>k, <1>u DEF SessionInHand
<1>1. ASSUME NEW n \in Node, NEW i \in Slot, LoopStep(n, i) PROVE SessionInHand'
  <2>1. PICK l \in LoopPCs :
          /\ Goto(n, i, l)
          /\ \/ UNCHANGED loopSession /\ (l \in WithSession => pc[n][i] \in WithSession)
             \/ /\ loopSession' = [loopSession EXCEPT ![n][i] = session[n]]
                /\ l = IF session[n] = NoSession THEN "waitSession" ELSE "gotSession"
             \/ loopSession' = [loopSession EXCEPT ![n][i] = NoSession] /\ l = "none"
    BY <1>1, LoopStepFrame DEF LoopFrame
  <2> SUFFICES ASSUME NEW m \in Node, NEW j \in Slot, pc'[m][j] \in WithSession
               PROVE  loopSession'[m][j] \in Session
    BY DEF SessionInHand
  <2>2. CASE m = n /\ j = i
    BY <1>k, <2>1, <2>2, GotoFrame, Update2 DEF SessionInHand, MgrTypeOK, LockTypeOK, WithSession
  <2>3. CASE m # n \/ j # i
    BY <1>k, <2>1, <2>3, GotoFrame DEF SessionInHand, LockTypeOK
  <2> QED BY <2>2, <2>3
<1>2. ASSUME NEW n \in Node, NEW c \in Caller, NEW kind \in {"lock", "try"}, CallLock(n, c, kind)
      PROVE  SessionInHand'
  BY <1>k, <1>2, <1>u, GotoFrame DEF CallLock, SessionInHand, LoopPCs, WithSession
<1>3. ASSUME NEW n \in Node, Crash(n) PROVE SessionInHand'
  BY <1>k, <1>3 DEF Crash, SessionInHand, LockTypeOK, WithSession
<1>4. ASSUME NEW n \in Node, SessionStep(n) \/ Stop(n) PROVE SessionInHand'
  BY <1>4, <1>u DEF SessionStep, SessionNotify, Stop, ReleaseBegins, loopVars
<1>5. ASSUME NEW s \in Session, Expire(s) \/ Revoke(s) PROVE SessionInHand'
  BY <1>5, <1>u DEF Expire, Revoke, loopVars
<1>6. ASSUME DelayOver \/ UNCHANGED vars PROVE SessionInHand'
  BY <1>6, <1>u DEF DelayOver, vars, loopVars
<1> QED
  BY <1>1, <1>2, <1>3, <1>4, <1>5, <1>6, <1>u
  DEF Next, AppStep, CallerLooks, CallerCancelled, CallLost, CallerDone, Release,
      ReleaseBegins, ReleaseReturns, ReleaseFails, loopVars

\* Every variable of the server, the managers and the locks keeps its type, and
\* no lockLoop goes on without a session.
THEOREM TypeCorrect == Spec => []TypeOK
<1>1. TypeOK /\ [Next]_vars => TypeOK'
  BY KVTypeStep, MgrTypeStep, LockTypeStep, SessionInHandStep DEF TypeOK
<1> QED BY InitType, <1>1, PTL DEF Spec

-----------------------------------------------------------------------------
\* Every loop step that touches the callers is an updateState.
LEMMA LoopStepCallers ==
  ASSUME NEW n \in Node, NEW i \in Slot, LoopStep(n, i)
  PROVE  \/ UNCHANGED <<state, callerVars>>
         \/ \E s \in LockStates : UpdateState(n, s)
<1>1. CASE LoopAcquired(n, i) \/ LoopHeldByOther(n, i) \/ LoopFail(n, i) \/ LoopExit(n, i)
  BY <1>1 DEF LoopAcquired, LoopHeldByOther, LoopFail, LoopExit, LockStates
<1>2. CASE ~(LoopAcquired(n, i) \/ LoopHeldByOther(n, i) \/ LoopFail(n, i) \/ LoopExit(n, i))
  BY <1>2
  DEF LoopStep, LoopTop, LoopInstall, LoopWaitForSession, LoopSessionReady,
      LoopRecordSession, LoopAcquire, LoopAcquireFails, LoopReadOwner, LoopReadOwnerFails,
      LoopRetry, LoopRevoked, LoopMonitorInterrupted, LoopMonitorFails, LoopMonitorDelay,
      lockVars
<1> QED BY <1>1, <1>2

\* Where a sleeping caller may find the state, and a working one: what updateState
\* sees to.
SleepersWait ==
    \A n \in Node, c \in Caller :
        ~awake[n][c] => /\ phase[n][c] = "lock" => state[n] # "Acquired"
                        /\ phase[n][c] = "try" => state[n] = "Unknown"

OpenIsAcquired ==
    \A n \in Node, c \in Caller :
        phase[n][c] = "hold" /\ ~lost[n][c] => state[n] = "Acquired"

Notified == SleepersWait /\ OpenIsAcquired

\* updateState tells every caller that has to know: through the condition
\* variable those in Lock and TryLock, through the channel those working.
LEMMA UpdateStateTells ==
  ASSUME LockTypeOK, Notified, NEW n \in Node, NEW s \in LockStates, UpdateState(n, s)
  PROVE  Notified'
<1>1. /\ state'[n] = s /\ UNCHANGED phase
      /\ \A m \in Node : m # n => state'[m] = state[m]
  BY DEF UpdateState, LockTypeOK
<1>2. \A m \in Node : m # n => lost'[m] = lost[m] /\ awake'[m] = awake[m]
  BY DEF UpdateState, Broadcast, LockTypeOK
<1>3. ASSUME NEW c \in Caller, ~awake'[n][c]
      PROVE  /\ phase[n][c] = "lock" => s # "Acquired"
             /\ phase[n][c] = "try" => s = "Unknown"
  <2>1. CASE s = "Error" \/ state[n] # s
    <3>1. awake'[n] = [d \in Caller |-> phase[n][d] \in {"lock", "try"}]
      BY <2>1 DEF UpdateState, Broadcast, LockTypeOK
    <3>2. phase[n][c] \notin {"lock", "try"}
      BY Zenon, <1>3, <3>1
    <3> QED BY <3>2
  <2>2. CASE ~(s = "Error" \/ state[n] # s)
    <3>1. UNCHANGED awake /\ state[n] = s
      BY <2>2 DEF UpdateState
    <3> QED BY Zenon, <1>3, <3>1 DEF Notified, SleepersWait
  <2> QED BY Zenon, <2>1, <2>2
<1>4. ASSUME NEW c \in Caller, phase[n][c] = "hold", ~lost'[n][c]
      PROVE  s = "Acquired"
  <2>1. CASE state[n] = "Acquired" /\ s # "Acquired"
    <3>1. lost'[n] = [d \in Caller |-> phase[n][d] = "hold"]
      BY <2>1 DEF UpdateState, LockTypeOK
    <3>2. lost'[n][c]
      BY Zenon, <1>4, <3>1
    <3> QED BY <1>4, <3>2
  <2>2. CASE ~(state[n] = "Acquired" /\ s # "Acquired")
    <3>1. UNCHANGED lost
      BY Zenon, <2>2 DEF UpdateState
    <3>2. state[n] = "Acquired"
      BY Zenon, <1>4, <3>1 DEF Notified, OpenIsAcquired
    <3> QED BY <2>2, <3>2
  <2> QED BY <2>1, <2>2
<1>5. SleepersWait'
  BY <1>1, <1>2, <1>3 DEF Notified, SleepersWait
<1>6. OpenIsAcquired'
  BY <1>1, <1>2, <1>4 DEF Notified, OpenIsAcquired
<1> QED BY <1>5, <1>6 DEF Notified

\* What one caller does leaves the others alone.
LEMMA OneCaller ==
  ASSUME LockTypeOK, Notified, NEW n \in Node, NEW c \in Caller, UNCHANGED state,
         \A m \in Node, d \in Caller : m # n \/ d # c =>
            phase'[m][d] = phase[m][d] /\ awake'[m][d] = awake[m][d] /\ lost'[m][d] = lost[m][d],
         ~awake'[n][c] => /\ phase'[n][c] = "lock" => state[n] # "Acquired"
                          /\ phase'[n][c] = "try" => state[n] = "Unknown",
         phase'[n][c] = "hold" /\ ~lost'[n][c] => state[n] = "Acquired"
  PROVE  Notified'
<1>1. SleepersWait'
  <2> SUFFICES ASSUME NEW m \in Node, NEW d \in Caller, ~awake'[m][d]
               PROVE  /\ phase'[m][d] = "lock" => state[m] # "Acquired"
                      /\ phase'[m][d] = "try" => state[m] = "Unknown"
    BY DEF SleepersWait
  <2>1. CASE m = n /\ d = c
    BY <2>1
  <2>2. CASE m # n \/ d # c
    BY <2>2 DEF Notified, SleepersWait
  <2> QED BY <2>1, <2>2
<1>2. OpenIsAcquired'
  <2> SUFFICES ASSUME NEW m \in Node, NEW d \in Caller, phase'[m][d] = "hold", ~lost'[m][d]
               PROVE  state[m] = "Acquired"
    BY DEF OpenIsAcquired
  <2>1. CASE m = n /\ d = c
    BY <2>1
  <2>2. CASE m # n \/ d # c
    BY <2>2 DEF Notified, OpenIsAcquired
  <2> QED BY <2>1, <2>2
<1> QED BY Zenon, <1>1, <1>2 DEF Notified

\* No step of a caller, or of anything else, leaves a caller in the dark.
LEMMA CallersStep == TypeOK /\ Notified /\ [Next]_vars => Notified'
<1> SUFFICES ASSUME TypeOK, Notified, [Next]_vars PROVE Notified'
  OBVIOUS
<1>k. LockTypeOK
  BY DEF TypeOK
<1>p. phase \in [Node -> [Caller -> Phases]]
  BY <1>k DEF LockTypeOK
<1>a. awake \in [Node -> [Caller -> BOOLEAN]]
  BY <1>k DEF LockTypeOK
<1>t. lost \in [Node -> [Caller -> BOOLEAN]]
  BY <1>k DEF LockTypeOK
<1>u. ASSUME UNCHANGED <<state, callerVars>> PROVE Notified'
  BY <1>u DEF Notified, SleepersWait, OpenIsAcquired, callerVars
<1>1. ASSUME NEW n \in Node, NEW i \in Slot, LoopStep(n, i) PROVE Notified'
  BY <1>1, <1>k, <1>u, LoopStepCallers, UpdateStateTells
<1>2. ASSUME NEW n \in Node, NEW c \in Caller, NEW kind \in {"lock", "try"}, CallLock(n, c, kind)
      PROVE  Notified'
  <2>1. UNCHANGED <<state, lost>>
    BY <1>2 DEF CallLock
  <2>2. phase' = [phase EXCEPT ![n][c] = kind] /\ kind \in Phases
    BY <1>2 DEF CallLock, Phases
  <2>3. /\ phase'[n][c] = kind
        /\ \A m \in Node, d \in Caller : m # n \/ d # c => phase'[m][d] = phase[m][d]
    BY <1>p, <2>2, Update2
  <2>4. awake' = [awake EXCEPT ![n][c] = TRUE]
    BY <1>2 DEF CallLock
  <2>5. \A m \in Node, d \in Caller : m # n \/ d # c => awake'[m][d] = awake[m][d]
    BY Zenon, <1>a, <2>4
  <2>6. awake'[n] = [awake[n] EXCEPT ![c] = TRUE] /\ awake[n] \in [Caller -> BOOLEAN]
    BY <1>a, <2>4
  <2>7. awake'[n][c]
    BY <2>6
  <2> QED BY <1>k, <2>1, <2>3, <2>5, <2>7, OneCaller
<1>3. ASSUME NEW n \in Node, NEW c \in Caller, CallerLooks(n, c) PROVE Notified'
  <2>1. UNCHANGED <<state, lost>> /\ phase[n][c] \in {"lock", "try"}
    BY <1>3 DEF CallerLooks, lockVars
  <2>2. PICK p \in Phases :
          /\ phase' = [phase EXCEPT ![n][c] = p]
          /\ p # "hold"
          /\ p = "lock" => state[n] # "Acquired"
          /\ p = "try" => state[n] \notin {"Acquired", "Error"}
    <3> DEFINE p == IF Succeeds(n) THEN "got"
                    ELSE IF GivesUp(n, phase[n][c]) THEN "idle" ELSE phase[n][c]
    <3>1. phase' = [phase EXCEPT ![n][c] = p]
      BY <1>3, <1>p DEF CallerLooks
    <3>2. /\ p \in Phases /\ p # "hold"
          /\ p = "lock" => state[n] # "Acquired"
          /\ p = "try" => state[n] \notin {"Acquired", "Error"}
      BY Zenon, <2>1 DEF Succeeds, GivesUp, Phases
    <3> HIDE DEF p
    <3> QED BY Zenon, <3>1, <3>2
  <2>3. /\ phase'[n][c] = p
        /\ \A m \in Node, d \in Caller : m # n \/ d # c => phase'[m][d] = phase[m][d]
    BY <1>p, <2>2, Update2
  <2>4. awake' = [awake EXCEPT ![n][c] = FALSE]
    BY <1>3 DEF CallerLooks
  <2>5. \A m \in Node, d \in Caller : m # n \/ d # c => awake'[m][d] = awake[m][d]
    BY Zenon, <1>a, <2>4
  <2>6. state[n] \in LockStates
    BY <1>k DEF LockTypeOK
  <2>7. p = "try" => state[n] = "Unknown"
    BY <2>2, <2>6 DEF LockStates
  <2> QED BY <1>k, <2>1, <2>2, <2>3, <2>5, <2>7, OneCaller
<1>4. ASSUME NEW n \in Node, NEW c \in Caller, CallerCancelled(n, c) PROVE Notified'
  <2>1. UNCHANGED <<state, awake, lost>> /\ phase' = [phase EXCEPT ![n][c] = "idle"]
    BY <1>4 DEF CallerCancelled, lockVars
  <2>2. /\ phase'[n][c] = "idle"
        /\ \A m \in Node, d \in Caller : m # n \/ d # c => phase'[m][d] = phase[m][d]
    BY <1>p, <2>1, Update2 DEF Phases
  <2> QED BY <1>k, <2>1, <2>2, OneCaller
<1>5. ASSUME NEW n \in Node, NEW c \in Caller, CallLost(n, c) PROVE Notified'
  <2>1. UNCHANGED <<state, awake>> /\ phase' = [phase EXCEPT ![n][c] = "hold"]
    BY <1>5 DEF CallLost, lockVars
  <2>2. /\ phase'[n][c] = "hold"
        /\ \A m \in Node, d \in Caller : m # n \/ d # c => phase'[m][d] = phase[m][d]
    BY <1>p, <2>1, Update2 DEF Phases
  <2>3. PICK b \in BOOLEAN : b = (state[n] # "Acquired") /\ lost' = [lost EXCEPT ![n][c] = b]
    BY Zenon, <1>5 DEF CallLost
  <2>4. lost' = [lost EXCEPT ![n][c] = b]
    BY <2>3
  <2>5. \A m \in Node, d \in Caller : m # n \/ d # c => lost'[m][d] = lost[m][d]
    BY <1>t, <2>4
  <2>6. lost'[n] = [lost[n] EXCEPT ![c] = b] /\ lost[n] \in [Caller -> BOOLEAN]
    BY <1>t, <2>4
  <2>7. lost'[n][c] = b
    BY <2>6
  <2>8. ~lost'[n][c] => state[n] = "Acquired"
    BY Zenon, <2>3, <2>7
  <2> QED BY <1>k, <2>1, <2>2, <2>5, <2>8, OneCaller
<1>6. ASSUME NEW n \in Node, NEW c \in Caller, CallerDone(n, c) PROVE Notified'
  <2>1. UNCHANGED <<state, awake>> /\ phase' = [phase EXCEPT ![n][c] = "idle"]
    BY <1>6 DEF CallerDone, lockVars
  <2>2. /\ phase'[n][c] = "idle"
        /\ \A m \in Node, d \in Caller : m # n \/ d # c => phase'[m][d] = phase[m][d]
    BY <1>p, <2>1, Update2 DEF Phases
  <2>3. lost' = [lost EXCEPT ![n][c] = FALSE]
    BY <1>6 DEF CallerDone
  <2>4. \A m \in Node, d \in Caller : m # n \/ d # c => lost'[m][d] = lost[m][d]
    BY Zenon, <1>t, <2>3
  <2> QED BY <1>k, <2>1, <2>2, <2>4, OneCaller
<1>7. ASSUME NEW n \in Node, Crash(n) PROVE Notified'
  <2>1. /\ \A c \in Caller : phase'[n][c] = "idle"
        /\ \A m \in Node : m # n => phase'[m] = phase[m] /\ state'[m] = state[m]
    BY <1>7, <1>k DEF Crash, LockTypeOK
  <2>2. \A m \in Node : m # n => awake'[m] = awake[m] /\ lost'[m] = lost[m]
    BY <1>7, <1>k DEF Crash, LockTypeOK
  <2> QED BY <2>1, <2>2 DEF Notified, SleepersWait, OpenIsAcquired
<1>8. ASSUME NEW n \in Node, SessionStep(n) \/ Release(n) \/ ReleaseReturns(n) \/ ReleaseFails(n)
                             \/ Stop(n)
      PROVE  Notified'
  BY Zenon, <1>8, <1>u DEF SessionStep, SessionNotify, Release, ReleaseBegins, ReleaseReturns,
                    ReleaseFails, Stop, lockVars
<1>9. ASSUME NEW s \in Session, Expire(s) \/ Revoke(s) PROVE Notified'
  BY <1>9, <1>u DEF Expire, Revoke, lockVars
<1>10. ASSUME DelayOver \/ UNCHANGED vars PROVE Notified'
  BY <1>10, <1>u DEF DelayOver, vars, lockVars
<1> QED BY <1>1, <1>2, <1>3, <1>4, <1>5, <1>6, <1>7, <1>8, <1>9, <1>10 DEF Next, AppStep

\* A state other than Unknown has a loop that is still to set it back.
StateAttended == \A n \in Node : state[n] # "Unknown" => LoopAlive(n)

\* Every loop step leaves the loop alive, or sets the state back; nothing else ends one
\* but a crash.
LEMMA StateAttendedStep == TypeOK /\ StateAttended /\ [Next]_vars => StateAttended'
<1> SUFFICES ASSUME TypeOK, StateAttended, [Next]_vars PROVE StateAttended'
  OBVIOUS
<1>k. /\ pc \in [Node -> [Slot -> LoopPCs]]
      /\ state \in [Node -> LockStates]
  BY DEF TypeOK, LockTypeOK
<1>u. ASSUME UNCHANGED <<state, pc>> PROVE StateAttended'
  BY <1>u DEF StateAttended, LoopAlive
<1>1. ASSUME NEW n \in Node, NEW i \in Slot, LoopStep(n, i) PROVE StateAttended'
  <2>1. PICK p \in LoopPCs : pc' = [pc EXCEPT ![n][i] = p] /\ (p = "none" => state'[n] = "Unknown")
    <3>1. CASE LoopExit(n, i)
      BY <1>k, <3>1 DEF LoopExit, UpdateState, Goto, LoopPCs
    <3>2. CASE ~LoopExit(n, i)
      BY <1>1, <3>2
      DEF LoopStep, LoopTop, LoopInstall, LoopWaitForSession, LoopSessionReady, LoopRecordSession,
          LoopAcquire, LoopAcquireFails, LoopAcquired, LoopReadOwner, LoopReadOwnerFails,
          LoopHeldByOther, LoopRetry, LoopRevoked, LoopMonitorInterrupted, LoopMonitorFails,
          LoopMonitorDelay, LoopFail, Goto, LoopPCs
    <3> QED BY <3>1, <3>2
  <2>2. /\ pc'[n][i] = p
        /\ \A m \in Node, j \in Slot : m # n \/ j # i => pc'[m][j] = pc[m][j]
    BY <1>k, <2>1, Update2
  <2>3. \A m \in Node : m # n => state'[m] = state[m]
    BY <1>k, <1>1, LoopStepCallers DEF UpdateState
  <2> QED BY <2>1, <2>2, <2>3 DEF StateAttended, LoopAlive
<1>2. ASSUME NEW n \in Node, NEW c \in Caller, NEW kind \in {"lock", "try"}, CallLock(n, c, kind)
      PROVE  StateAttended'
  <2>1. UNCHANGED state
    BY <1>2 DEF CallLock
  <2>2. CASE UNCHANGED pc
    BY <1>u, <2>1, <2>2
  <2>3. CASE ~UNCHANGED pc
    <3>1. PICK i \in Slot : pc' = [pc EXCEPT ![n][i] = "top"]
      BY <1>2, <2>3 DEF CallLock, Goto
    <3>2. /\ pc'[n][i] = "top"
          /\ \A m \in Node, j \in Slot : m # n \/ j # i => pc'[m][j] = pc[m][j]
      BY <1>k, <3>1, Update2 DEF LoopPCs
    <3> QED BY <2>1, <3>2 DEF StateAttended, LoopAlive
  <2> QED BY <2>2, <2>3
<1>3. ASSUME NEW n \in Node, NEW c \in Caller,
             CallerLooks(n, c) \/ CallerCancelled(n, c) \/ CallLost(n, c) \/ CallerDone(n, c)
      PROVE  StateAttended'
  BY <1>3, <1>u DEF CallerLooks, CallerCancelled, CallLost, CallerDone, lockVars, loopVars
<1>4. ASSUME NEW n \in Node, Crash(n) PROVE StateAttended'
  <2>1. /\ state'[n] = "Unknown"
        /\ \A m \in Node : m # n => state'[m] = state[m] /\ pc'[m] = pc[m]
    BY <1>4, <1>k DEF Crash
  <2> QED BY <2>1 DEF StateAttended, LoopAlive
<1>5. ASSUME NEW n \in Node, SessionStep(n) \/ Release(n) \/ ReleaseReturns(n) \/ ReleaseFails(n)
                             \/ Stop(n)
      PROVE  StateAttended'
  BY Zenon, <1>5, <1>u DEF SessionStep, SessionNotify, Release, ReleaseBegins, ReleaseReturns,
                    ReleaseFails, Stop, lockVars, loopVars
<1>6. ASSUME NEW s \in Session, Expire(s) \/ Revoke(s) PROVE StateAttended'
  BY <1>6, <1>u DEF Expire, Revoke, lockVars, loopVars
<1>7. ASSUME DelayOver \/ UNCHANGED vars PROVE StateAttended'
  BY <1>7, <1>u DEF DelayOver, vars, lockVars, loopVars
<1> QED BY <1>1, <1>2, <1>3, <1>4, <1>5, <1>6, <1>7 DEF Next, AppStep

\* updateState and waitForState (consul/lock.go): along every behaviour the callers are
\* told, those that wait for the lock and those that work under it. After Release or
\* Stop a sleeping caller has a loop that will wake it, unless the state is Unknown.
THEOREM CallersAlways == Spec => []CallersTold
<1>1. Init => Notified /\ StateAttended
  BY DEF Init, LockInit, Notified, SleepersWait, OpenIsAcquired, StateAttended
<1>2. TypeOK /\ Notified /\ StateAttended => CallersTold
  <2> SUFFICES ASSUME TypeOK, Notified, StateAttended, NEW n \in Node, NEW c \in Caller
               PROVE  /\ Asleep(n, c) /\ (Succeeds(n) \/ GivesUp(n, phase[n][c])) =>
                           /\ loopContext[n] = NoLoop
                           /\ state[n] = "Unknown" \/ (phase[n][c] = "lock" /\ LoopAlive(n))
                      /\ phase[n][c] = "hold" /\ ~lost[n][c] => state[n] = "Acquired" /\ LoopAlive(n)
    BY Zenon DEF CallersTold, NoLostWakeup, LostIsTold
  <2>1. /\ ~awake[n][c] => /\ phase[n][c] = "lock" => state[n] # "Acquired"
                           /\ phase[n][c] = "try" => state[n] = "Unknown"
        /\ phase[n][c] = "hold" /\ ~lost[n][c] => state[n] = "Acquired"
        /\ state[n] # "Unknown" => LoopAlive(n)
    BY Zenon DEF Notified, SleepersWait, OpenIsAcquired, StateAttended
  <2> QED BY Zenon, <2>1 DEF Asleep, Succeeds, GivesUp
<1> QED BY <1>1, <1>2, TypeCorrect, CallersStep, StateAttendedStep, PTL DEF Spec
=============================================================================
