-------------------------- MODULE ConsulSyncProofs --------------------------
(* dsync over Consul: the inductive invariant, mutual exclusion and the      *)
(* refinement of the lock with leases, for any number of nodes, sessions,    *)
(* loops, callers and faults.                                                *)
EXTENDS ConsulTypeProofs

\* What a slot remembers: a free one is not cancelled, and a loop only leaves
\* because it was cancelled.
SlotsClean ==
    \A n \in Node, i \in Slot : /\ pc[n][i] = "none" => ~cancelled[n][i]
                                /\ pc[n][i] = "exit" => cancelled[n][i]

\* Whoever is in release() has stopped the loop before.
ReleaseStopped == \A n \in Node : releasing[n] # "no" => loopContext[n] = NoLoop

\* A node only ever uses sessions of its own.
SessionHome ==
    \A n \in Node :
        /\ session[n] # NoSession => Home[session[n]] = n
        /\ created[n] # NoSession => Home[created[n]] = n
        /\ lockSession[n] # NoSession => Home[lockSession[n]] = n
        /\ \A i \in Slot : loopSession[n][i] # NoSession => Home[loopSession[n][i]] = n

IndInv == TypeOK /\ SingleLoop /\ SlotsClean /\ ReleaseStopped /\ SessionHome /\ Backed

\* The invariant holds before anything has been started.
LEMMA InitInv == Init => IndInv
<1> SUFFICES ASSUME Init PROVE IndInv
  OBVIOUS
<1>1. TypeOK
  BY InitType
<1>2. SingleLoop /\ SlotsClean /\ ReleaseStopped
  BY SlotAssumption DEF Init, LockInit, SingleLoop, SlotsClean, ReleaseStopped
<1>3. SessionHome /\ Backed
  BY DEF Init, KVInit, MgrInit, LockInit, SessionHome, Backed
<1> QED BY <1>1, <1>2, <1>3 DEF IndInv

\* Where a loop counts as having got the lock.
Granted == {"acquired", "monitor", "monitorDelay"}

\* What a step of a loop does to the server, and when it may count as granted:
\* it was before, or the server's answer says so.
LEMMA LoopServerFrame ==
  ASSUME TypeOK, NEW n \in Node, NEW i \in Slot, LoopStep(n, i)
  PROVE  /\ UNCHANGED <<alive, session, created>>
         /\ \/ UNCHANGED lockSession
            \/ lockSession' = [lockSession EXCEPT ![n] = loopSession[n][i]]
         /\ \/ UNCHANGED owner
            \/ /\ owner = NoSession /\ owner' = loopSession[n][i]
               /\ pc[n][i] = "acquire" /\ pc'[n][i] \notin {"monitor", "monitorDelay"}
               /\ UNCHANGED loopSession
         /\ pc'[n][i] \in Granted =>
              /\ UNCHANGED <<loopSession, cancelled>>
              /\ pc[n][i] \in Granted \/ owner' = loopSession[n][i]
         /\ pc'[n][i] \in {"monitor", "monitorDelay"} => pc[n][i] \in Granted
         /\ pc'[n][i] = "exit" => cancelled[n][i] /\ UNCHANGED cancelled
<1>k. LockTypeOK /\ KVTypeOK
  BY DEF TypeOK
<1>1. ASSUME NEW l \in LoopPCs, Goto(n, i, l) PROVE pc'[n][i] = l
  BY <1>k, <1>1, GotoFrame
<1>2. CASE LoopTop(n, i)
  BY <1>1, <1>2 DEF LoopTop, LoopPCs, Granted, mgrVars, kvVars, lockVars
<1>3. CASE LoopInstall(n, i)
  BY <1>1, <1>3 DEF LoopInstall, LoopPCs, Granted, mgrVars, kvVars
<1>4. CASE LoopWaitForSession(n, i)
  BY <1>1, <1>4 DEF LoopWaitForSession, LoopPCs, Granted, kvVars, lockVars
<1>5. CASE LoopSessionReady(n, i)
  BY <1>1, <1>5 DEF LoopSessionReady, LoopPCs, Granted, mgrVars, kvVars, lockVars
<1>6. CASE LoopRecordSession(n, i)
  BY <1>1, <1>6 DEF LoopRecordSession, LoopPCs, Granted, mgrVars, kvVars
<1>7. CASE LoopAcquire(n, i)
  <2>1. PICK l \in LoopPCs : /\ Goto(n, i, l)
                             /\ l \in {"fail", "acquired", "denied"}
                             /\ l = "acquired" => owner' = loopSession[n][i]
    BY <1>7 DEF LoopAcquire, LoopPCs
  <2> QED BY <1>1, <1>7, <2>1 DEF LoopAcquire, AcquireKV, Grantable, Granted, mgrVars, lockVars
<1>8. CASE LoopAcquireFails(n, i)
  BY <1>1, <1>8 DEF LoopAcquireFails, AcquireKV, Grantable, LoopPCs, Granted, mgrVars, lockVars
<1>9. CASE LoopAcquired(n, i)
  BY Zenon, <1>1, <1>9 DEF LoopAcquired, LoopPCs, Granted, mgrVars, kvVars
<1>10. CASE LoopReadOwner(n, i)
  <2>1. PICK l \in LoopPCs : /\ Goto(n, i, l)
                             /\ l \in {"retry", "acquired", "held"}
                             /\ l = "acquired" => owner = loopSession[n][i]
    BY <1>10 DEF LoopReadOwner, LoopPCs
  <2> QED BY <1>1, <1>10, <2>1 DEF LoopReadOwner, Granted, mgrVars, kvVars, lockVars
<1>11. CASE LoopReadOwnerFails(n, i)
  BY <1>1, <1>11 DEF LoopReadOwnerFails, LoopPCs, Granted, mgrVars, lockVars
<1>12. CASE LoopHeldByOther(n, i)
  BY Zenon, <1>1, <1>12 DEF LoopHeldByOther, LoopPCs, Granted, mgrVars, kvVars
<1>13. CASE LoopRetry(n, i)
  BY <1>1, <1>13 DEF LoopRetry, LoopPCs, Granted, mgrVars, kvVars, lockVars
<1>14. CASE LoopRevoked(n, i) \/ LoopMonitorInterrupted(n, i)
  BY <1>1, <1>14 DEF LoopRevoked, LoopMonitorInterrupted, LoopPCs, Granted, mgrVars, kvVars, lockVars
<1>15. CASE LoopMonitorFails(n, i)
  BY Zenon, <1>1, <1>15 DEF LoopMonitorFails, LoopPCs, Granted, mgrVars, lockVars
<1>16. CASE LoopMonitorDelay(n, i)
  BY Zenon, <1>1, <1>16 DEF LoopMonitorDelay, LoopPCs, Granted, mgrVars, kvVars, lockVars
<1>17. CASE LoopFail(n, i)
  BY <1>1, <1>17 DEF LoopFail, LoopPCs, Granted, mgrVars, kvVars
<1>18. CASE LoopExit(n, i)
  BY <1>1, <1>18 DEF LoopExit, LoopPCs, Granted, mgrVars, kvVars
<1> QED
  BY Zenon, <1>2, <1>3, <1>4, <1>5, <1>6, <1>7, <1>8, <1>9, <1>10, <1>11, <1>12, <1>13, <1>14,
     <1>15, <1>16, <1>17, <1>18 DEF LoopStep

\* A step keeps the bookkeeping of the loops: lazyStart, stopLoop and the end of
\* lockLoop agree on which loop is current.
LEMMA SingleLoopStep ==
  TypeOK /\ TypeOK' /\ SingleLoop /\ SlotsClean /\ ReleaseStopped /\ [Next]_vars
    => SingleLoop' /\ SlotsClean' /\ ReleaseStopped'
<1> DEFINE Book == SingleLoop /\ SlotsClean /\ ReleaseStopped
<1> SUFFICES ASSUME TypeOK, TypeOK', Book, [Next]_vars PROVE Book'
  OBVIOUS
<1>k. LockTypeOK /\ LockTypeOK'
  BY DEF TypeOK
<1>c. cancelled \in [Node -> [Slot -> BOOLEAN]]
  BY <1>k DEF LockTypeOK
<1>u. ASSUME UNCHANGED <<pc, cancelled, loopContext, releasing>> PROVE Book'
  BY <1>u DEF SingleLoop, SlotsClean, ReleaseStopped
<1>1. ASSUME NEW n \in Node, NEW i \in Slot, LoopStep(n, i) PROVE Book'
  <2>1. PICK l \in LoopPCs :
          /\ Goto(n, i, l)
          /\ \/ UNCHANGED cancelled /\ l # "none"
             \/ /\ cancelled' = [cancelled EXCEPT ![n][i] = FALSE]
                /\ pc[n][i] = "exit" /\ l = "none"
    BY <1>1, LoopStepFrame DEF LoopFrame
  <2>2. UNCHANGED <<loopContext, releasing>> /\ pc[n][i] # "none"
    BY <1>1, LoopStepFrame DEF LoopFrame
  <2>3. /\ pc'[n][i] = l
        /\ \A m \in Node, j \in Slot : m # n \/ j # i => pc'[m][j] = pc[m][j]
    BY <1>k, <2>1, GotoFrame
  <2>4. l = "exit" => cancelled[n][i]
    BY <1>1, <2>3, LoopServerFrame
  <2>5. CASE UNCHANGED cancelled /\ l # "none"
    BY <2>2, <2>3, <2>4, <2>5 DEF SingleLoop, SlotsClean, ReleaseStopped
  <2>6. CASE /\ cancelled' = [cancelled EXCEPT ![n][i] = FALSE]
             /\ pc[n][i] = "exit" /\ l = "none"
    <3>1. ~cancelled'[n][i] /\ OthersKept(n, i)
      BY Zenon, <1>c, <2>6, CancelClears
    <3>2. loopContext[n] # i
      BY <2>6 DEF SingleLoop, SlotsClean
    <3> QED BY <2>2, <2>3, <2>6, <3>1, <3>2
            DEF SingleLoop, SlotsClean, ReleaseStopped, OthersKept
  <2> QED BY <2>1, <2>5, <2>6
<1>2. ASSUME NEW n \in Node, NEW by \in {"Release", "Stop"}, ReleaseBegins(n, by) PROVE Book'
  <2>1. CASE loopContext[n] = NoLoop
    <3>1. UNCHANGED <<pc, cancelled, loopContext>>
      BY <1>k, <1>2, <2>1 DEF ReleaseBegins, LockTypeOK
    <3> QED BY <1>k, <1>2, <2>1, <3>1
            DEF ReleaseBegins, LockTypeOK, SingleLoop, SlotsClean, ReleaseStopped
  <2>2. CASE loopContext[n] # NoLoop
    <3>1. PICK i \in Slot : i = loopContext[n] /\ cancelled' = [cancelled EXCEPT ![n][i] = TRUE]
      BY <1>k, <1>2, <2>2 DEF ReleaseBegins, LockTypeOK
    <3>2. cancelled'[n][i] /\ OthersKept(n, i)
      <4>1. cancelled' = [cancelled EXCEPT ![n][i] = TRUE]
        BY <3>1
      <4> QED BY Zenon, <1>c, <4>1, CancelSets
    <3>3. /\ loopContext' = [loopContext EXCEPT ![n] = NoLoop]
          /\ \A m \in Node : m # n => releasing'[m] = releasing[m]
          /\ UNCHANGED pc
      BY <1>k, <1>2 DEF ReleaseBegins, LockTypeOK
    <3>4. pc[n][i] # "none"
      BY <3>1 DEF SingleLoop
    <3>5. SingleLoop'
      BY <1>k, <3>1, <3>2, <3>3, SlotAssumption DEF SingleLoop, LockTypeOK, OthersKept
    <3>6. SlotsClean'
      <4>1. ASSUME NEW m \in Node, NEW j \in Slot
            PROVE  /\ pc[m][j] = "none" => ~cancelled'[m][j]
                   /\ pc[m][j] = "exit" => cancelled'[m][j]
        <5>1. CASE m = n /\ j = i
          BY Zenon, <3>2, <3>4, <5>1
        <5>2. CASE m # n \/ j # i
          <6>1. cancelled'[m][j] = cancelled[m][j]
            BY Zenon, <3>2, <5>2 DEF OthersKept
          <6>2. /\ pc[m][j] = "none" => ~cancelled[m][j]
                /\ pc[m][j] = "exit" => cancelled[m][j]
            BY Zenon DEF SlotsClean
          <6> QED BY Zenon, <6>1, <6>2
        <5> QED BY Zenon, <5>1, <5>2
      <4> QED BY Zenon, <3>3, <4>1 DEF SlotsClean
    <3>7. ReleaseStopped'
      BY <1>k, <3>3 DEF ReleaseStopped, LockTypeOK
    <3> QED BY <3>5, <3>6, <3>7
  <2> QED BY <2>1, <2>2
<1>3. ASSUME NEW n \in Node, NEW c \in Caller, NEW kind \in {"lock", "try"}, CallLock(n, c, kind)
      PROVE  Book'
  <2>1. UNCHANGED <<cancelled, releasing>> /\ releasing[n] = "no"
    BY <1>3 DEF CallLock, LockFree
  <2>2. CASE UNCHANGED <<loopContext, pc>>
    BY <1>u, <2>1, <2>2
  <2>3. CASE ~UNCHANGED <<loopContext, pc>>
    <3>1. PICK i \in Slot : /\ loopContext[n] = NoLoop /\ pc[n][i] = "none"
                            /\ loopContext' = [loopContext EXCEPT ![n] = i]
                            /\ Goto(n, i, "top")
      BY <1>3, <2>3 DEF CallLock
    <3>2. /\ pc'[n][i] = "top"
          /\ \A m \in Node, j \in Slot : m # n \/ j # i => pc'[m][j] = pc[m][j]
      BY <1>k, <3>1, GotoFrame DEF LoopPCs
    <3>3. ~cancelled[n][i]
      BY <3>1 DEF SlotsClean
    <3>4. SingleLoop'
      BY <1>k, <2>1, <3>1, <3>2, <3>3, SlotAssumption DEF SingleLoop, LockTypeOK
    <3>5. SlotsClean'
      BY Zenon, <2>1, <3>2 DEF SlotsClean
    <3>6. ReleaseStopped'
      BY <1>k, <2>1, <3>1 DEF ReleaseStopped, LockTypeOK
    <3> QED BY <3>4, <3>5, <3>6
  <2> QED BY <2>2, <2>3
<1>4. ASSUME NEW n \in Node, ReleaseReturns(n) \/ ReleaseFails(n) PROVE Book'
  BY <1>k, <1>4 DEF ReleaseReturns, ReleaseFails, loopVars, LockTypeOK,
                    SingleLoop, SlotsClean, ReleaseStopped
<1>5. ASSUME NEW n \in Node, Crash(n) PROVE Book'
  <2>1. /\ \A j \in Slot : pc'[n][j] = "none" /\ cancelled'[n][j] = FALSE
        /\ loopContext'[n] = NoLoop /\ releasing'[n] = "no"
        /\ \A m \in Node : m # n => /\ pc'[m] = pc[m] /\ cancelled'[m] = cancelled[m]
                                    /\ loopContext'[m] = loopContext[m]
                                    /\ releasing'[m] = releasing[m]
    <3>1. /\ pc' = [pc EXCEPT ![n] = [i \in Slot |-> "none"]]
          /\ cancelled' = [cancelled EXCEPT ![n] = [i \in Slot |-> FALSE]]
          /\ loopContext' = [loopContext EXCEPT ![n] = NoLoop]
          /\ releasing' = [releasing EXCEPT ![n] = "no"]
      BY <1>5 DEF Crash
    <3>2. /\ DOMAIN pc = Node /\ DOMAIN cancelled = Node
          /\ DOMAIN loopContext = Node /\ DOMAIN releasing = Node
      BY <1>k DEF LockTypeOK
    <3> QED BY Zenon, <3>1, <3>2
  <2>2. ASSUME NEW m \in Node, NEW j \in Slot
        PROVE  /\ (pc'[m][j] # "none" /\ ~cancelled'[m][j]) <=> loopContext'[m] = j
               /\ pc'[m][j] = "none" => ~cancelled'[m][j]
               /\ pc'[m][j] = "exit" => cancelled'[m][j]
    <3>1. CASE m = n
      BY Zenon, <2>1, <3>1, SlotAssumption
    <3>2. CASE m # n
      <4>1. /\ pc'[m] = pc[m] /\ cancelled'[m] = cancelled[m]
            /\ loopContext'[m] = loopContext[m]
        BY Zenon, <2>1, <3>2
      <4>2. /\ (pc[m][j] # "none" /\ ~cancelled[m][j]) <=> loopContext[m] = j
            /\ pc[m][j] = "none" => ~cancelled[m][j]
            /\ pc[m][j] = "exit" => cancelled[m][j]
        BY Zenon DEF SingleLoop, SlotsClean
      <4> QED BY Zenon, <4>1, <4>2
    <3> QED BY Zenon, <3>1, <3>2
  <2>3. ReleaseStopped'
    BY <2>1 DEF ReleaseStopped
  <2> QED BY Zenon, <2>2, <2>3 DEF SingleLoop, SlotsClean
<1>6. ASSUME NEW n \in Node, SessionStep(n) PROVE Book'
  BY <1>6, <1>u DEF SessionStep, SessionNotify, lockVars, loopVars
<1>7. ASSUME NEW s \in Session, Expire(s) \/ Revoke(s) PROVE Book'
  BY <1>7, <1>u DEF Expire, Revoke, lockVars, loopVars
<1>8. ASSUME DelayOver \/ UNCHANGED vars PROVE Book'
  BY <1>8, <1>u DEF DelayOver, vars, lockVars, loopVars
<1>9. ASSUME NEW n \in Node, NEW c \in Caller,
             CallerLooks(n, c) \/ CallerCancelled(n, c) \/ CallLost(n, c) \/ CallerDone(n, c)
      PROVE  Book'
  BY <1>9, <1>u DEF CallerLooks, CallerCancelled, CallLost, CallerDone, lockVars, loopVars
<1> QED
  BY Zenon, <1>1, <1>2, <1>3, <1>4, <1>5, <1>6, <1>7, <1>8, <1>9 DEF Next, AppStep, Release, Stop

\* Sessions are only handed on within their node.
LEMMA SessionHomeStep == TypeOK /\ TypeOK' /\ SessionHome /\ [Next]_vars => SessionHome'
<1> SUFFICES ASSUME TypeOK, TypeOK', SessionHome, [Next]_vars PROVE SessionHome'
  OBVIOUS
<1>k. LockTypeOK /\ LockTypeOK' /\ MgrTypeOK /\ MgrTypeOK'
  BY DEF TypeOK
<1>u. ASSUME UNCHANGED <<session, created, lockSession, loopSession>> PROVE SessionHome'
  BY <1>u DEF SessionHome
<1>1. ASSUME NEW n \in Node, NEW i \in Slot, LoopStep(n, i) PROVE SessionHome'
  <2>1. /\ UNCHANGED <<session, created>>
        /\ \/ UNCHANGED lockSession
           \/ lockSession' = [lockSession EXCEPT ![n] = loopSession[n][i]]
    BY <1>1, LoopServerFrame
  <2>2. \/ UNCHANGED loopSession
        \/ \E s \in {session[n], NoSession} : loopSession' = [loopSession EXCEPT ![n][i] = s]
    BY <1>1, LoopStepFrame DEF LoopFrame
  <2>3. ASSUME NEW m \in Node PROVE lockSession'[m] # NoSession => Home[lockSession'[m]] = m
    <3>1. /\ lockSession[m] # NoSession => Home[lockSession[m]] = m
          /\ loopSession[n][i] # NoSession => Home[loopSession[n][i]] = n
      BY DEF SessionHome
    <3>2. lockSession'[m] = lockSession[m] \/ (m = n /\ lockSession'[m] = loopSession[n][i])
      BY <1>k, <2>1 DEF LockTypeOK
    <3> QED BY <3>1, <3>2
  <2>4. ASSUME NEW m \in Node, NEW j \in Slot, loopSession'[m][j] # NoSession
        PROVE  Home[loopSession'[m][j]] = m
    <3>1. CASE UNCHANGED loopSession
      BY <2>4, <3>1 DEF SessionHome
    <3>2. ASSUME NEW s \in {session[n], NoSession}, loopSession' = [loopSession EXCEPT ![n][i] = s]
          PROVE  Home[loopSession'[m][j]] = m
      <4>1. s \in Session \cup {NoSession}
        BY <1>k DEF MgrTypeOK
      <4>2. /\ loopSession'[n][i] = s
            /\ m # n \/ j # i => loopSession'[m][j] = loopSession[m][j]
        BY <1>k, <3>2, <4>1, Update2 DEF LockTypeOK
      <4> QED BY <2>4, <4>2 DEF SessionHome
    <3> QED BY <2>2, <3>1, <3>2
  <2> QED BY <2>1, <2>3, <2>4 DEF SessionHome
<1>2. ASSUME NEW n \in Node, SessionStep(n) PROVE SessionHome'
  <2>1. UNCHANGED <<lockSession, loopSession>>
    BY <1>2 DEF SessionStep, SessionNotify, lockVars, loopVars
  <2>2. ASSUME NEW s \in Session, SessionCreate(n, s) PROVE SessionHome'
    BY <1>k, <2>1, <2>2 DEF SessionCreate, SessionHome, MgrTypeOK
  <2>3. CASE SessionTop(n)
    BY <1>k, <2>1, <2>3 DEF SessionTop, SessionHome, MgrTypeOK
  <2>4. CASE SessionPublish(n)
    BY <1>k, <2>1, <2>4 DEF SessionPublish, SessionHome, MgrTypeOK
  <2> QED
    BY Zenon, <1>2, <1>u, <2>1, <2>2, <2>3, <2>4
    DEF SessionStep, SessionCreateFails, SessionCreateLost, SessionKeepEnds, SessionNotify
<1>3. ASSUME NEW n \in Node, Crash(n) PROVE SessionHome'
  <2>1. /\ session'[n] = NoSession /\ created'[n] = NoSession /\ lockSession'[n] = NoSession
        /\ \A j \in Slot : loopSession'[n][j] = NoSession
        /\ \A m \in Node : m # n => /\ session'[m] = session[m] /\ created'[m] = created[m]
                                    /\ lockSession'[m] = lockSession[m]
                                    /\ loopSession'[m] = loopSession[m]
    <3>1. /\ session' = [session EXCEPT ![n] = NoSession]
          /\ created' = [created EXCEPT ![n] = NoSession]
          /\ lockSession' = [lockSession EXCEPT ![n] = NoSession]
          /\ loopSession' = [loopSession EXCEPT ![n] = [i \in Slot |-> NoSession]]
      BY <1>3 DEF Crash
    <3>2. /\ DOMAIN session = Node /\ DOMAIN created = Node
          /\ DOMAIN lockSession = Node /\ DOMAIN loopSession = Node
      BY <1>k DEF LockTypeOK, MgrTypeOK
    <3> QED BY Zenon, <3>1, <3>2
  <2>2. ASSUME NEW m \in Node
        PROVE  /\ session'[m] # NoSession => Home[session'[m]] = m
               /\ created'[m] # NoSession => Home[created'[m]] = m
               /\ lockSession'[m] # NoSession => Home[lockSession'[m]] = m
               /\ \A j \in Slot : loopSession'[m][j] # NoSession => Home[loopSession'[m][j]] = m
    <3>1. CASE m = n
      BY Zenon, <2>1, <3>1
    <3>2. CASE m # n
      <4>1. /\ session'[m] = session[m] /\ created'[m] = created[m]
            /\ lockSession'[m] = lockSession[m] /\ loopSession'[m] = loopSession[m]
        BY Zenon, <2>1, <3>2
      <4>2. /\ session[m] # NoSession => Home[session[m]] = m
            /\ created[m] # NoSession => Home[created[m]] = m
            /\ lockSession[m] # NoSession => Home[lockSession[m]] = m
            /\ \A j \in Slot : loopSession[m][j] # NoSession => Home[loopSession[m][j]] = m
        BY Zenon DEF SessionHome
      <4> QED BY Zenon, <4>1, <4>2
    <3> QED BY Zenon, <3>1, <3>2
  <2> QED BY Zenon, <2>2 DEF SessionHome
<1>4. ASSUME NEW s \in Session, Expire(s) \/ Revoke(s) PROVE SessionHome'
  BY <1>4, <1>u DEF Expire, Revoke, SessionExpires, SessionRevoked, mgrVars, lockVars, loopVars
<1>5. ASSUME DelayOver \/ UNCHANGED vars PROVE SessionHome'
  BY <1>5, <1>u DEF DelayOver, vars, mgrVars, lockVars, loopVars
<1>6. ASSUME NEW n \in Node, AppStep(n) \/ Stop(n) PROVE SessionHome'
  BY Zenon, <1>6, <1>u
  DEF AppStep, CallLock, CallerLooks, CallerCancelled, CallLost, CallerDone, Release,
      ReleaseBegins, ReleaseReturns, ReleaseFails, Stop, mgrVars, lockVars, loopVars
<1> QED BY <1>1, <1>2, <1>3, <1>4, <1>5, <1>6 DEF Next

\* No step takes the entry from a loop that still relies on it.
LEMMA BackedStep == IndInv /\ TypeOK' /\ [Next]_vars => Backed'
<1> SUFFICES ASSUME IndInv, TypeOK', [Next]_vars,
                    NEW m \in Node, NEW j \in Slot, pc'[m][j] \in Granted,
                    ~cancelled'[m][j], loopSession'[m][j] \in alive'
             PROVE  owner' = loopSession'[m][j]
  BY Zenon DEF Backed, Granted
<1>k. /\ KVTypeOK /\ LockTypeOK /\ TypeOK
      /\ SingleLoop /\ ReleaseStopped /\ SessionHome
  BY DEF IndInv, TypeOK
<1>b. /\ pc[m][j] \in Granted /\ ~cancelled[m][j] /\ loopSession[m][j] \in alive
      => owner = loopSession[m][j]
  BY DEF IndInv, Backed, Granted
<1>s. NoSession \notin alive
  BY <1>k, SessionAssumption DEF KVTypeOK
<1>u. ASSUME UNCHANGED <<pc, cancelled, loopSession, alive, owner>>
      PROVE  owner' = loopSession'[m][j]
  BY <1>b, <1>u
<1>1. ASSUME NEW n \in Node, NEW i \in Slot, LoopStep(n, i) PROVE owner' = loopSession'[m][j]
  <2>1. /\ UNCHANGED alive
        /\ UNCHANGED owner \/ owner = NoSession
        /\ pc'[n][i] \in Granted =>
             /\ UNCHANGED <<loopSession, cancelled>>
             /\ pc[n][i] \in Granted \/ owner' = loopSession[n][i]
    BY <1>k, <1>1, LoopServerFrame
  <2>2. CASE m = n /\ j = i
    BY <1>b, <1>s, <2>1, <2>2
  <2>3. CASE m # n \/ j # i
    <3>1. pc'[m][j] = pc[m][j]
      BY <1>1, <1>k, <2>3, LoopStepFrame, GotoFrame DEF LoopFrame
    <3>2. loopSession'[m][j] = loopSession[m][j]
      <4>1. \/ UNCHANGED loopSession
            \/ \E s \in Session \cup {NoSession} :
                 loopSession' = [loopSession EXCEPT ![n][i] = s]
        BY <1>1, <1>k, LoopStepFrame DEF LoopFrame, TypeOK, MgrTypeOK
      <4>2. ASSUME NEW s \in Session \cup {NoSession},
                   loopSession' = [loopSession EXCEPT ![n][i] = s]
            PROVE  loopSession'[m][j] = loopSession[m][j]
        <5>1. loopSession \in [Node -> [Slot -> Session \cup {NoSession}]]
          BY <1>k DEF LockTypeOK
        <5> QED BY <2>3, <4>2, <5>1, Update2
      <4> QED BY <4>1, <4>2
    <3>3. cancelled'[m][j] = cancelled[m][j]
      <4>1. cancelled \in [Node -> [Slot -> BOOLEAN]]
        BY <1>k DEF LockTypeOK
      <4>2. UNCHANGED cancelled \/ cancelled' = [cancelled EXCEPT ![n][i] = FALSE]
        BY <1>1, <1>k, LoopStepFrame DEF LoopFrame
      <4>3. CASE cancelled' = [cancelled EXCEPT ![n][i] = FALSE]
        <5>1. OthersKept(n, i)
          BY Zenon, <4>1, <4>3, CancelClears
        <5> QED BY Zenon, <2>3, <5>1 DEF OthersKept
      <4> QED BY <4>2, <4>3
    <3> QED BY <1>b, <1>s, <2>1, <3>1, <3>2, <3>3
  <2> QED BY <2>2, <2>3
<1>2. ASSUME NEW s \in Session, Expire(s) \/ Revoke(s) PROVE owner' = loopSession'[m][j]
  BY <1>2, <1>b DEF Expire, Revoke, SessionExpires, SessionRevoked, InvalidateKV, loopVars
<1>3. ASSUME NEW n \in Node, SessionStep(n) PROVE owner' = loopSession'[m][j]
  <2>1. UNCHANGED <<pc, cancelled, loopSession, owner>>
    BY Zenon, <1>3 DEF SessionStep, SessionNotify, SessionTop, SessionCreate, SessionCreateFails,
                SessionCreateLost, SessionPublish, SessionKeepEnds, loopVars, kvVars
  <2>2. ASSUME NEW s \in Session, alive' = alive \cup {s}, Fresh(s)
        PROVE  owner' = loopSession'[m][j]
    <3>1. loopSession[m][j] # s
      BY <1>k, <2>2, SessionAssumption DEF Fresh, SessionHome
    <3> QED BY Zenon, <1>b, <2>1, <2>2, <3>1
  <2>3. CASE UNCHANGED alive
    BY <1>u, <2>1, <2>3
  <2> QED
    BY Zenon, <1>3, <2>2, <2>3
    DEF SessionStep, SessionNotify, SessionTop, SessionCreate, SessionCreateFails,
        SessionCreateLost, SessionPublish, SessionKeepEnds, kvVars
<1>4. ASSUME NEW n \in Node, ReleaseReturns(n) \/ ReleaseFails(n)
      PROVE  owner' = loopSession'[m][j]
  <2>1. /\ UNCHANGED <<pc, cancelled, loopSession, alive>>
        /\ owner' = owner \/ (owner = lockSession[n] /\ owner' = NoSession)
        /\ releasing[n] # "no"
    BY <1>4 DEF ReleaseReturns, ReleaseFails, ReleaseKV, loopVars
  <2>2. m # n
    <3>1. loopContext[n] = NoLoop
      BY <1>k, <2>1 DEF ReleaseStopped
    <3>2. pc[m][j] # "none" /\ ~cancelled[m][j]
      BY <2>1 DEF Granted
    <3> QED BY Zenon, <1>k, <3>1, <3>2, SlotAssumption DEF SingleLoop
  <2>3. owner = loopSession[m][j] /\ loopSession[m][j] \in Session
    BY <1>b, <1>k, <2>1 DEF KVTypeOK
  <2>4. owner # lockSession[n]
    BY <1>k, <2>2, <2>3, SessionAssumption DEF SessionHome
  <2> QED BY <2>1, <2>3, <2>4
<1>5. ASSUME NEW n \in Node, NEW c \in Caller, NEW kind \in {"lock", "try"}, CallLock(n, c, kind)
      PROVE  owner' = loopSession'[m][j]
  <2>1. UNCHANGED <<cancelled, loopSession, alive, owner>>
    BY <1>5 DEF CallLock, kvVars
  <2>2. UNCHANGED pc \/ \E i \in Slot : Goto(n, i, "top")
    BY <1>5 DEF CallLock
  <2>3. pc'[m][j] = pc[m][j]
    BY <1>k, <2>2, GotoFrame DEF Granted, LoopPCs
  <2> QED BY <1>b, <2>1, <2>3
<1>6. ASSUME NEW n \in Node, NEW by, ReleaseBegins(n, by), UNCHANGED kvVars
      PROVE  owner' = loopSession'[m][j]
  <2>1. cancelled \in [Node -> [Slot -> BOOLEAN]]
    BY <1>k DEF LockTypeOK
  <2>2. ~cancelled[m][j]
    <3>1. CASE loopContext[n] = NoLoop
      BY <1>6, <3>1 DEF ReleaseBegins
    <3>2. CASE loopContext[n] # NoLoop
      <4>1. PICK i \in Slot : cancelled' = [cancelled EXCEPT ![n][i] = TRUE]
        BY Zenon, <1>6, <1>k, <3>2 DEF ReleaseBegins, LockTypeOK
      <4>2. cancelled'[n][i] /\ OthersKept(n, i)
        BY Zenon, <2>1, <4>1, CancelSets
      <4> QED BY Zenon, <4>2 DEF OthersKept
    <3> QED BY <3>1, <3>2
  <2> QED BY <1>6, <1>b, <2>2 DEF ReleaseBegins, kvVars
<1>7. ASSUME NEW n \in Node, Crash(n) PROVE owner' = loopSession'[m][j]
  <2>1. m # n
    BY <1>7, <1>k DEF Crash, Granted, LockTypeOK
  <2>2. /\ pc'[m] = pc[m] /\ cancelled'[m] = cancelled[m] /\ loopSession'[m] = loopSession[m]
        /\ UNCHANGED <<alive, owner>>
    BY <1>7, <1>k, <2>1 DEF Crash, LockTypeOK
  <2> QED BY <1>b, <2>2
<1>8. ASSUME DelayOver \/ UNCHANGED vars PROVE owner' = loopSession'[m][j]
  BY <1>8, <1>u DEF DelayOver, LockDelayOver, vars, loopVars, kvVars
<1>9. ASSUME NEW n \in Node, NEW c \in Caller,
             CallerLooks(n, c) \/ CallerCancelled(n, c) \/ CallLost(n, c) \/ CallerDone(n, c)
      PROVE  owner' = loopSession'[m][j]
  BY <1>9, <1>u DEF CallerLooks, CallerCancelled, CallLost, CallerDone, loopVars, kvVars
<1> QED
  BY Zenon, <1>1, <1>2, <1>3, <1>4, <1>5, <1>6, <1>7, <1>8, <1>9 DEF Next, AppStep, Release, Stop

\* The invariant holds along every behaviour of any number of nodes, sessions,
\* loops and callers, with any finite number of faults.
THEOREM InductiveInvariant == Spec => []IndInv
<1>1. IndInv /\ [Next]_vars => IndInv'
  <2> SUFFICES ASSUME IndInv, [Next]_vars PROVE IndInv'
    OBVIOUS
  <2>1. TypeOK'
    BY KVTypeStep, MgrTypeStep, LockTypeStep, SessionInHandStep DEF IndInv, TypeOK
  <2>2. SingleLoop' /\ SlotsClean' /\ ReleaseStopped'
    BY <2>1, SingleLoopStep DEF IndInv
  <2>3. SessionHome'
    BY <2>1, SessionHomeStep DEF IndInv
  <2>4. Backed'
    BY <2>1, BackedStep
  <2> QED BY <2>1, <2>2, <2>3, <2>4 DEF IndInv
<1> QED BY InitInv, <1>1, PTL DEF Spec

\* At most one lockLoop of a lock runs on a live context: lazyStart and stopLoop
\* agree, whatever Release, Stop and crashes do in between.
THEOREM SingleLoopAlways == Spec => []SingleLoop
<1>1. IndInv => SingleLoop
  BY DEF IndInv
<1> QED BY <1>1, InductiveInvariant, PTL

\* A loop that got the lock, and was not cancelled, owns the server's entry for
\* as long as its session is valid.
THEOREM BackedAlways == Spec => []Backed
<1>1. IndInv => Backed
  BY DEF IndInv
<1> QED BY <1>1, InductiveInvariant, PTL

\* A holder is a node whose current loop owns the entry.
LEMMA HolderOwns ==
  ASSUME IndInv, NEW n \in Holders
  PROVE  /\ n \in Node /\ owner \in Session /\ Home[owner] = n
         /\ \E i \in Slot : loopContext[n] = i /\ loopSession[n][i] = owner
<1>1. PICK i \in Slot : /\ n \in Node /\ loopContext[n] = i
                        /\ pc[n][i] \in {"monitor", "monitorDelay"}
                        /\ loopSession[n][i] \in alive
  BY DEF Holders
<1>2. ~cancelled[n][i]
  BY <1>1 DEF IndInv, SingleLoop
<1>3. owner = loopSession[n][i]
  BY <1>1, <1>2 DEF IndInv, Backed
<1>4. owner \in Session
  BY <1>1, <1>3 DEF IndInv, TypeOK, KVTypeOK
<1>5. Home[owner] = n
  BY <1>1, <1>3, <1>4, SessionAssumption DEF IndInv, SessionHome
<1> QED BY <1>1, <1>3, <1>4, <1>5

\* Two nodes never both hold the lock under sessions that are still valid.
THEOREM MutualExclusionAlways == Spec => []MutualExclusion
<1>1. IndInv => MutualExclusion
  BY HolderOwns DEF MutualExclusion
<1> QED BY <1>1, InductiveInvariant, PTL

-----------------------------------------------------------------------------
(* Refinement: dsync over Consul implements a lock with leases.              *)

\* Holders depends on the loops and the valid sessions only.
LEMMA HoldersFrame ==
  ASSUME UNCHANGED <<loopContext, pc, loopSession, alive>>
  PROVE  Holders' = Holders
BY DEF Holders

\* A step of a loop moves at most its own node into or out of the holders.
LEMMA HoldersOfLoop ==
  ASSUME IndInv, NEW n \in Node, NEW i \in Slot, LoopStep(n, i), NEW m \in Node, m # n
  PROVE  m \in Holders' <=> m \in Holders
<1>k. LockTypeOK /\ MgrTypeOK /\ TypeOK
  BY DEF IndInv, TypeOK
<1>1. UNCHANGED <<loopContext, alive>>
  BY <1>k, LoopStepFrame, LoopServerFrame DEF LoopFrame
<1>2. \A j \in Slot : pc'[m][j] = pc[m][j]
  BY <1>k, LoopStepFrame, GotoFrame DEF LoopFrame
<1>3. ASSUME NEW j \in Slot PROVE loopSession'[m][j] = loopSession[m][j]
  <2>1. \/ UNCHANGED loopSession
        \/ \E s \in Session \cup {NoSession} : loopSession' = [loopSession EXCEPT ![n][i] = s]
    BY <1>k, LoopStepFrame DEF LoopFrame, MgrTypeOK
  <2>2. ASSUME NEW s \in Session \cup {NoSession}, loopSession' = [loopSession EXCEPT ![n][i] = s]
        PROVE  loopSession'[m][j] = loopSession[m][j]
    BY <1>k, <2>2, Update2 DEF LockTypeOK
  <2> QED BY <2>1, <2>2
<1> QED BY <1>1, <1>2, <1>3 DEF Holders

\* A loop enters the holders only with the entry in the name of its session.
LEMMA LoopStepLease ==
  ASSUME IndInv, IndInv', NEW n \in Node, NEW i \in Slot, LoopStep(n, i)
  PROVE  Lease!Next \/ UNCHANGED <<Grantee, Holders>>
<1>k. TypeOK /\ LockTypeOK /\ KVTypeOK
  BY DEF IndInv, TypeOK
<1>1. \A m \in Node : m # n => (m \in Holders' <=> m \in Holders)
  BY HoldersOfLoop
<1>2. Holders \subseteq Node /\ Holders' \subseteq Node
  BY DEF Holders
<1>3. CASE UNCHANGED owner
  <2>1. UNCHANGED Grantee
    BY <1>3 DEF Grantee
  <2>2. CASE n \in Holders /\ n \notin Holders'
    <3>1. Holders' = Holders \ {n}
      BY <1>1, <1>2, <2>2
    <3> QED BY <2>1, <2>2, <3>1 DEF Lease!Next, Lease!Leave, Grantee
  <2>3. CASE n \in Holders'
    <3>1. Holders' = Holders \cup {n}
      BY <1>1, <1>2, <2>3
    <3>2. owner' \in Session /\ Home[owner'] = n
      <4>1. PICK j \in Slot : /\ loopContext'[n] = j
                              /\ pc'[n][j] \in {"monitor", "monitorDelay"}
                              /\ loopSession'[n][j] \in alive'
        BY <2>3 DEF Holders
      <4>2. ~cancelled'[n][j]
        BY Zenon, <4>1 DEF IndInv, SingleLoop
      <4>3. owner' = loopSession'[n][j]
        BY <4>1, <4>2 DEF IndInv, Backed
      <4>4. owner' \in Session
        BY <4>1, <4>3 DEF IndInv, TypeOK, KVTypeOK
      <4> QED BY <4>3, <4>4, SessionAssumption DEF IndInv, SessionHome
    <3>3. Grantee = n
      BY <1>3, <3>2, SessionAssumption DEF Grantee
    <3> QED BY <2>1, <3>1, <3>3 DEF Lease!Next, Lease!Enter, Grantee
  <2>4. CASE n \notin Holders /\ n \notin Holders'
    BY <1>1, <1>2, <2>1, <2>4
  <2> QED BY <2>2, <2>3, <2>4
<1>4. CASE owner' # owner
  <2>1. /\ owner = NoSession /\ owner' = loopSession[n][i]
        /\ pc[n][i] = "acquire" /\ pc'[n][i] \notin {"monitor", "monitorDelay"}
        /\ UNCHANGED loopSession
    BY Zenon, <1>k, <1>4, LoopServerFrame
  <2>2. owner' \in Session /\ Home[owner'] = n
    BY Zenon, <1>k, <2>1, SessionAssumption DEF IndInv, SessionHome, TypeOK, SessionInHand, WithSession
  <2>3. Grantee = NoSession /\ Grantee' = n
    BY Zenon, <2>1, <2>2, SessionAssumption DEF Grantee
  <2>4. Holders = {}
    BY <2>1, HolderOwns, SessionAssumption
  <2>5. n \notin Holders'
    <3>1. ASSUME NEW j \in Slot, loopContext[n] = j, j # i PROVE pc'[n][j] = pc[n][j]
      BY <1>k, <3>1, LoopStepFrame, GotoFrame DEF LoopFrame
    <3>2. UNCHANGED <<loopContext, alive>>
      BY <1>k, LoopStepFrame, LoopServerFrame DEF LoopFrame
    <3> QED BY <2>1, <2>4, <3>1, <3>2 DEF Holders
  <2>6. UNCHANGED Holders
    BY <1>1, <1>2, <2>4, <2>5
  <2> QED BY <2>3, <2>6 DEF Lease!Next, Lease!Grant, Grantee
<1> QED BY <1>3, <1>4

\* Every step of the system is a step of the lease lock or leaves it as it is.
LEMMA StepLease ==
  IndInv /\ IndInv' /\ [Next]_vars => Lease!Next \/ UNCHANGED <<Grantee, Holders>>
<1> DEFINE Done == Lease!Next \/ UNCHANGED <<Grantee, Holders>>
<1> SUFFICES ASSUME IndInv, IndInv', [Next]_vars PROVE Done
  OBVIOUS
<1>k. TypeOK /\ LockTypeOK /\ KVTypeOK
  BY DEF IndInv, TypeOK
<1>n. Holders \subseteq Node /\ NoSession \notin Session
  BY SessionAssumption DEF Holders
<1>u. ASSUME UNCHANGED <<loopContext, pc, loopSession, alive, owner>> PROVE Done
  BY <1>u, HoldersFrame DEF Grantee
<1>l. ASSUME NEW n \in Node, UNCHANGED owner,
             Holders' = Holders \/ (n \in Holders /\ Holders' = Holders \ {n})
      PROVE  Done
  <2>1. UNCHANGED Grantee
    BY <1>l DEF Grantee
  <2>2. CASE n \in Holders /\ Holders' = Holders \ {n}
    BY <1>l, <2>1, <2>2 DEF Lease!Next, Lease!Leave, Grantee
  <2> QED BY <1>l, <2>1, <2>2
<1>1. ASSUME NEW n \in Node, NEW i \in Slot, LoopStep(n, i) PROVE Done
  BY <1>1, LoopStepLease
<1>2. ASSUME NEW s \in Session, Expire(s) \/ Revoke(s) PROVE Done
  <2>1. /\ UNCHANGED <<loopContext, pc, loopSession>>
        /\ alive' = alive \ {s} /\ owner' = IF owner = s THEN NoSession ELSE owner
    BY <1>2 DEF Expire, Revoke, SessionExpires, SessionRevoked, InvalidateKV, lockVars, loopVars
  <2>2. CASE owner = s
    <3>1. Holders \subseteq {Home[s]}
      BY <2>2, HolderOwns
    <3>2. Holders' = {}
      <4>1. Holders' \subseteq Holders
        BY <2>1 DEF Holders
      <4>2. ASSUME NEW n \in Holders' PROVE FALSE
        <5>1. PICK i \in Slot : loopContext[n] = i /\ loopSession[n][i] = s
          BY <2>2, <4>1, <4>2, HolderOwns
        <5>2. loopSession[n][i] \in alive \ {s}
          BY <2>1, <4>2, <5>1 DEF Holders
        <5> QED BY <5>1, <5>2
      <4> QED BY <4>2
    <3>3. Grantee = Home[s] /\ Grantee' = NoSession
      BY <1>n, <2>1, <2>2 DEF Grantee
    <3>4. Home[s] # NoSession
      BY SessionAssumption
    <3>5. Holders' = Holders \ {Grantee}
      BY <3>1, <3>2, <3>3
    <3>6. Lease!Withdraw
      BY Zenon, <3>3, <3>4, <3>5 DEF Lease!Withdraw, Grantee
    <3> QED BY Zenon, <3>6 DEF Lease!Next
  <2>3. CASE owner # s
    <3>1. Holders' = Holders
      <4>1. ASSUME NEW n \in Holders PROVE n \in Holders'
        <5>1. PICK i \in Slot : loopContext[n] = i /\ loopSession[n][i] = owner
          BY <4>1, HolderOwns
        <5> QED BY <2>1, <2>3, <4>1, <5>1 DEF Holders
      <4> QED BY <2>1, <4>1 DEF Holders
    <3> QED BY <2>1, <2>3, <3>1 DEF Grantee
  <2> QED BY <2>2, <2>3
<1>3. ASSUME NEW n \in Node, SessionStep(n) PROVE Done
  <2>1. UNCHANGED <<loopContext, pc, loopSession, owner>>
    BY Zenon, <1>3 DEF SessionStep, SessionNotify, SessionTop, SessionCreate, SessionCreateFails,
                SessionCreateLost, SessionPublish, SessionKeepEnds, lockVars, loopVars, kvVars
  <2>2. ASSUME NEW s \in Session, alive' = alive \cup {s}, Fresh(s) PROVE Done
    <3>1. \A m \in Node, j \in Slot : loopSession[m][j] # s
      <4>1. ASSUME NEW m \in Node, NEW j \in Slot, loopSession[m][j] = s PROVE FALSE
        <5>1. s # NoSession
          BY SessionAssumption
        <5>2. Home[s] = m
          BY Zenon, <1>n, <4>1, <5>1 DEF IndInv, SessionHome
        <5> QED BY Zenon, <2>2, <4>1, <5>2 DEF Fresh
      <4> QED BY Zenon, <4>1
    <3>2. Holders' = Holders
      BY <2>1, <2>2, <3>1 DEF Holders
    <3> QED BY <2>1, <3>2 DEF Grantee
  <2>3. CASE UNCHANGED alive
    BY <1>u, <2>1, <2>3
  <2> QED
    BY Zenon, <1>3, <2>2, <2>3
    DEF SessionStep, SessionNotify, SessionTop, SessionCreate, SessionCreateFails,
        SessionCreateLost, SessionPublish, SessionKeepEnds, kvVars
<1>4. ASSUME NEW n \in Node, ReleaseReturns(n) \/ ReleaseFails(n) PROVE Done
  <2>1. /\ UNCHANGED <<loopContext, pc, loopSession, alive>>
        /\ owner' = owner \/ (owner = lockSession[n] /\ owner' = NoSession)
        /\ releasing[n] # "no"
    BY <1>4 DEF ReleaseReturns, ReleaseFails, ReleaseKV, loopVars
  <2>2. CASE owner' = owner
    BY <1>u, <2>1, <2>2
  <2>3. CASE owner # owner' /\ owner = lockSession[n] /\ owner' = NoSession
    <3>1. owner \in Session /\ Home[owner] = n
      BY Zenon, <1>k, <2>3 DEF IndInv, SessionHome, KVTypeOK
    <3>2. n \notin Holders
      BY <2>1, SlotAssumption DEF IndInv, ReleaseStopped, Holders
    <3>3. Holders' = Holders
      BY <2>1, HoldersFrame
    <3>4. Grantee = n /\ Grantee' = NoSession
      BY <1>n, <2>3, <3>1 DEF Grantee
    <3> QED BY Zenon, <3>2, <3>3, <3>4 DEF Lease!Next, Lease!Withdraw, Grantee
  <2> QED BY <2>1, <2>2, <2>3
<1>5. ASSUME NEW n \in Node, NEW c \in Caller, NEW kind \in {"lock", "try"}, CallLock(n, c, kind)
      PROVE  Done
  <2>1. UNCHANGED <<loopSession, alive, owner>>
    BY <1>5 DEF CallLock, kvVars
  <2>2. CASE UNCHANGED <<loopContext, pc>>
    BY <1>u, <2>1, <2>2
  <2>3. CASE ~UNCHANGED <<loopContext, pc>>
    <3>1. PICK i \in Slot : /\ loopContext[n] = NoLoop
                            /\ loopContext' = [loopContext EXCEPT ![n] = i]
                            /\ Goto(n, i, "top")
      BY <1>5, <2>3 DEF CallLock
    <3>2. /\ pc'[n][i] = "top"
          /\ \A m \in Node, j \in Slot : m # n \/ j # i => pc'[m][j] = pc[m][j]
      BY <1>k, <3>1, GotoFrame DEF LoopPCs
    <3>3. /\ loopContext'[n] = i
          /\ \A m \in Node : m # n => loopContext'[m] = loopContext[m]
      BY <1>k, <3>1 DEF LockTypeOK
    <3>4. n \notin Holders /\ n \notin Holders'
      <4>1. \A j \in Slot : j # NoLoop
        BY Zenon, SlotAssumption
      <4>2. n \notin Holders
        BY Zenon, <3>1, <4>1 DEF Holders
      <4>3. \A j \in Slot : ~(loopContext'[n] = j /\ pc'[n][j] \in {"monitor", "monitorDelay"})
        BY Zenon, <3>2, <3>3
      <4> QED BY Zenon, <4>2, <4>3 DEF Holders
    <3>5. \A m \in Node : m # n => (m \in Holders <=> m \in Holders')
      BY Zenon, <2>1, <3>2, <3>3 DEF Holders
    <3>6. Holders' = Holders
      <4>1. \A m \in Holders : m \in Node
        BY DEF Holders
      <4>2. \A m \in Holders' : m \in Node
        BY DEF Holders
      <4>3. \A m : m \in Holders <=> m \in Holders'
        BY Zenon, <3>4, <3>5, <4>1, <4>2
      <4> QED BY <4>3
    <3> QED BY <1>l, <2>1, <3>6
  <2> QED BY <2>2, <2>3
<1>6. ASSUME NEW n \in Node, NEW by, ReleaseBegins(n, by), UNCHANGED kvVars PROVE Done
  <2>1. /\ UNCHANGED <<pc, loopSession, alive, owner>>
        /\ loopContext'[n] = NoLoop
        /\ \A m \in Node : m # n => loopContext'[m] = loopContext[m]
    BY <1>6, <1>k DEF ReleaseBegins, kvVars, LockTypeOK
  <2>2. n \notin Holders'
    BY <2>1, SlotAssumption DEF Holders
  <2>3. \A m \in Node : m # n => (m \in Holders <=> m \in Holders')
    BY <2>1 DEF Holders
  <2>4. Holders' = Holders \ {n}
    BY <2>2, <2>3 DEF Holders
  <2> QED BY <1>l, <2>1, <2>4
<1>7. ASSUME NEW n \in Node, Crash(n) PROVE Done
  <2>1. /\ UNCHANGED <<alive, owner>> /\ loopContext'[n] = NoLoop
        /\ \A m \in Node : m # n => /\ loopContext'[m] = loopContext[m] /\ pc'[m] = pc[m]
                                    /\ loopSession'[m] = loopSession[m]
    BY <1>7, <1>k DEF Crash, LockTypeOK
  <2>2. n \notin Holders'
    BY <2>1, SlotAssumption DEF Holders
  <2>3. \A m \in Node : m # n => (m \in Holders <=> m \in Holders')
    BY <2>1 DEF Holders
  <2>4. Holders' = Holders \ {n}
    BY <2>2, <2>3 DEF Holders
  <2> QED BY <1>l, <2>1, <2>4
<1>8. ASSUME DelayOver \/ UNCHANGED vars PROVE Done
  BY <1>8, <1>u DEF DelayOver, LockDelayOver, vars, lockVars, loopVars, kvVars
<1>9. ASSUME NEW n \in Node, NEW c \in Caller,
             CallerLooks(n, c) \/ CallerCancelled(n, c) \/ CallLost(n, c) \/ CallerDone(n, c)
      PROVE  Done
  BY <1>9, <1>u DEF CallerLooks, CallerCancelled, CallLost, CallerDone, lockVars, loopVars, kvVars
<1> QED
  BY Zenon, <1>1, <1>2, <1>3, <1>4, <1>5, <1>6, <1>7, <1>8, <1>9 DEF Next, AppStep, Release, Stop

\* dsync over Consul implements the lock with leases: a node becomes a holder
\* only by a grant of the server, and loses both together.
THEOREM LeaseRefinement == Spec => ImplementsLease
<1>1. Init => Lease!Init
  BY Zenon, SlotAssumption DEF Init, KVInit, LockInit, Lease!Init, Holders, Grantee
<1>2. IndInv /\ IndInv' /\ [Next]_vars => [Lease!Next]_<<Grantee, Holders>>
  BY StepLease
<1>3. Spec => Lease!Init /\ [][Lease!Next]_<<Grantee, Holders>>
  BY <1>1, <1>2, InductiveInvariant, PTL DEF Spec
<1> QED BY <1>3 DEF ImplementsLease, Lease!Spec, Grantee
=============================================================================
