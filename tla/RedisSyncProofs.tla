--------------------------- MODULE RedisSyncProofs ---------------------------
(* dsync over Redis, for any number of nodes, loops, callers, retries and    *)
(* faults.                                                                   *)
EXTENDS RedisSync, TLAPS

\* monitorLock calls ExtendContext only with attempts to spare.
ExtendBound == \A l \in Loop : pc[l] \in {"extend", "extended"} => attempts[l] < Retries

TypeInv == TypeOK /\ ExtendBound

LEMMA InitType == Init => TypeInv
BY BoundAssumption
DEF Init, TypeInv, TypeOK, ExtendBound, LoopPCs, Phases

LEMMA HomeOf == (\A l \in Loop : At[l] \in Node) /\ (\A c \in Caller : At[c] \in Node)
BY LoopAssumption

\* What updateState leaves well-typed.
LEMMA UpdateStateType ==
  ASSUME TypeOK, NEW n \in Node, NEW s \in {"Unknown", "Acquired", "Error"}, UpdateState(n, s)
  PROVE  /\ state' \in [Node -> {"Unknown", "Acquired", "Error"}]
         /\ loopContext' = loopContext /\ phase' = phase
         /\ awake' \subseteq Caller /\ lost' \subseteq Caller
BY DEF UpdateState, TypeOK, CallersOf

LEMMA FaultType ==
  ASSUME TypeOK, NEW n, NEW kind, Fault(n, kind)
  PROVE  faults' \in 0..MaxFaults
BY BoundAssumption DEF TypeOK, Fault

\* A loop that only moves on.
LEMMA MoveType ==
  ASSUME TypeInv, NEW l \in Loop, NEW p \in LoopPCs, Goto(l, p), OnlyMoves,
         p \in {"extend", "extended"} => attempts[l] < Retries
  PROVE  TypeInv'
BY DEF TypeInv, TypeOK, ExtendBound, Goto, OnlyMoves, serverVars, mutexVars, lockVars, callerVars

\* A loop that moves on without touching its counters.
LEMMA GotoBound ==
  ASSUME TypeInv, NEW l \in Loop, NEW p \in LoopPCs \ {"extend", "extended"}, Goto(l, p),
         UNCHANGED attempts
  PROVE  pc' \in [Loop -> LoopPCs] /\ ExtendBound'
BY DEF TypeInv, TypeOK, ExtendBound, Goto

LEMMA ExtendFailedType ==
  ASSUME TypeInv, NEW l \in Loop, NEW e \in {"quiet", "loud"}, ExtendFailed(l, e),
         pc[l] \in {"extend", "extended"}
  PROVE  /\ pc' \in [Loop -> LoopPCs] /\ ExtendBound'
         /\ attempts' \in [Loop -> 0..Retries] /\ failing' \in [Loop -> {"no", "quiet", "loud"}]
<1>1. attempts[l] < Retries /\ attempts[l] \in 0..Retries
  BY DEF TypeInv, TypeOK, ExtendBound
<1>2. attempts' = [attempts EXCEPT ![l] = attempts[l] + 1] /\ attempts[l] + 1 \in 0..Retries
  BY <1>1, BoundAssumption DEF ExtendFailed
<1>3. attempts' \in [Loop -> 0..Retries]
  BY <1>2 DEF TypeInv, TypeOK
<1>4. pc' = [pc EXCEPT ![l] = "monitor"]
  BY DEF ExtendFailed, Goto
<1>5. pc' \in [Loop -> LoopPCs]
  BY <1>4 DEF TypeInv, TypeOK, LoopPCs
<1>6. failing' \in [Loop -> {"no", "quiet", "loud"}]
  BY DEF TypeInv, TypeOK, ExtendFailed
<1>7. ExtendBound'
  BY <1>2, <1>4 DEF TypeInv, TypeOK, ExtendBound
<1> QED BY <1>3, <1>5, <1>6, <1>7

LEMMA LoopType == ASSUME TypeInv, NEW l \in Loop, LoopStep(l) PROVE TypeInv'
<1> USE HomeOf
<1>1. CASE LoopTop(l) \/ LoopHalfTime(l) \/ LoopGivesUp(l) \/ LoopMonitorEnds(l)
  <2>1. PICK p \in LoopPCs : /\ Goto(l, p) /\ OnlyMoves
                             /\ p \in {"extend", "extended"} => attempts[l] < Retries
    BY <1>1 DEF LoopTop, LoopHalfTime, LoopGivesUp, LoopMonitorEnds, LoopPCs
  <2> QED BY <2>1, MoveType
<1>2. CASE LoopTry(l)
  <2>1. PICK p \in LoopPCs \ {"extend", "extended"} : Goto(l, p)
    BY <1>2 DEF LoopTry, LoopPCs
  <2>2. key' \in Node \cup {NoNode, Orphan} /\ fresh' \subseteq Loop /\ UNCHANGED attempts
    BY <1>2 DEF LoopTry, SetNX, TypeInv, TypeOK
  <2>3. pc' \in [Loop -> LoopPCs] /\ ExtendBound'
    BY <2>1, <2>2, GotoBound
  <2> QED BY <1>2, <2>2, <2>3 DEF LoopTry, TypeInv, TypeOK, mutexVars, lockVars, callerVars
<1>3. CASE LoopTryFails(l)
  <2>1. PICK p \in LoopPCs \ {"extend", "extended"} : Goto(l, p)
    BY <1>3 DEF LoopTryFails, LoopPCs
  <2>2. key' \in Node \cup {NoNode, Orphan} /\ UNCHANGED attempts
    BY <1>3 DEF LoopTryFails, SetNX, TypeInv, TypeOK
  <2>3. pc' \in [Loop -> LoopPCs] /\ ExtendBound'
    BY <2>1, <2>2, GotoBound
  <2>4. faults' \in 0..MaxFaults
    BY <1>3, FaultType DEF LoopTryFails, TypeInv, TypeOK
  <2> QED BY <1>3, <2>2, <2>3, <2>4 DEF LoopTryFails, TypeInv, TypeOK, mutexVars, lockVars, callerVars
<1>4. CASE LoopGranted(l)
  <2>1. PICK p \in LoopPCs \ {"extend", "extended"} : Goto(l, p)
    BY <1>4 DEF LoopGranted, LoopPCs
  <2>2. named' \subseteq Node /\ valid' \subseteq Node /\ fresh' \subseteq Loop /\ UNCHANGED attempts
    BY <1>4 DEF LoopGranted, TypeInv, TypeOK, mutexVars
  <2>3. pc' \in [Loop -> LoopPCs] /\ ExtendBound'
    BY <2>1, <2>2, GotoBound
  <2> QED BY <1>4, <2>2, <2>3 DEF LoopGranted, TypeInv, TypeOK, serverVars, lockVars, callerVars
<1>5. CASE LoopUndo(l)
  <2>1. PICK p \in LoopPCs \ {"extend", "extended"} : Goto(l, p)
    BY <1>5 DEF LoopUndo, LoopPCs
  <2>2. key' \in Node \cup {NoNode, Orphan} /\ UNCHANGED attempts
    BY <1>5 DEF LoopUndo, DeleteIfMine, TypeInv, TypeOK, serverVars
  <2>3. pc' \in [Loop -> LoopPCs] /\ ExtendBound'
    BY <2>1, <2>2, GotoBound
  <2>4. faults' \in 0..MaxFaults
    BY <1>5, FaultType DEF LoopUndo, TypeInv, TypeOK, serverVars
  <2> QED BY <1>5, <2>2, <2>3, <2>4 DEF LoopUndo, TypeInv, TypeOK, mutexVars, lockVars, callerVars
<1>6. CASE LoopAcquired(l)
  <2>1. pc' = [pc EXCEPT ![l] = "monitor"] /\ attempts' = [attempts EXCEPT ![l] = 0]
    BY <1>6 DEF LoopAcquired, Goto
  <2>2. /\ pc' \in [Loop -> LoopPCs] /\ ExtendBound' /\ attempts' \in [Loop -> 0..Retries]
        /\ failing' \in [Loop -> {"no", "quiet", "loud"}]
    BY <1>6, <2>1, BoundAssumption DEF LoopAcquired, TypeInv, TypeOK, ExtendBound, LoopPCs
  <2>3. UpdateState(At[l], "Acquired")
    BY <1>6 DEF LoopAcquired
  <2> QED BY <1>6, <2>2, <2>3, UpdateStateType DEF LoopAcquired, TypeInv, TypeOK, serverVars, mutexVars
<1>7. CASE LoopExtend(l)
  <2>1. CASE key = At[l]
    <3>1. pc' = [pc EXCEPT ![l] = "extended"] /\ UNCHANGED <<attempts, failing>>
          /\ fresh' \subseteq Loop /\ pc[l] = "extend"
      BY <1>7, <2>1 DEF LoopExtend, Goto, TypeInv, TypeOK
    <3>2. pc' \in [Loop -> LoopPCs] /\ ExtendBound'
      BY <3>1 DEF TypeInv, TypeOK, ExtendBound, LoopPCs
    <3> QED BY <1>7, <3>1, <3>2 DEF LoopExtend, TypeInv, TypeOK, serverVars, mutexVars, lockVars, callerVars
  <2>2. CASE key # At[l]
    <3>1. ExtendFailed(l, "loud") /\ UNCHANGED fresh /\ pc[l] = "extend"
      BY <1>7, <2>2 DEF LoopExtend
    <3> QED BY <1>7, <3>1, ExtendFailedType DEF LoopExtend, TypeInv, TypeOK, serverVars, mutexVars, lockVars, callerVars
  <2> QED BY <2>1, <2>2
<1>8. CASE LoopExtendFails(l)
  <2>1. PICK e \in {"quiet", "loud"} : ExtendFailed(l, e)
    BY <1>8 DEF LoopExtendFails
  <2>2. faults' \in 0..MaxFaults /\ pc[l] = "extend"
    BY <1>8, FaultType DEF LoopExtendFails, TypeInv, TypeOK
  <2> QED BY <1>8, <2>1, <2>2, ExtendFailedType DEF LoopExtendFails, TypeInv, TypeOK, mutexVars, lockVars, callerVars
<1>9. CASE LoopExtended(l)
  <2>1. CASE l \in fresh
    <3>1. pc' = [pc EXCEPT ![l] = "monitor"] /\ UNCHANGED attempts
          /\ failing' = [failing EXCEPT ![l] = "no"] /\ valid' \subseteq Node
      BY <1>9, <2>1 DEF LoopExtended, Goto, TypeInv, TypeOK
    <3>2. pc' \in [Loop -> LoopPCs] /\ ExtendBound' /\ failing' \in [Loop -> {"no", "quiet", "loud"}]
      BY <3>1 DEF TypeInv, TypeOK, ExtendBound, LoopPCs
    <3> QED BY <1>9, <3>1, <3>2 DEF LoopExtended, TypeInv, TypeOK, serverVars, lockVars, callerVars
  <2>2. CASE l \notin fresh
    <3>1. ExtendFailed(l, "loud") /\ UNCHANGED valid /\ pc[l] = "extended"
      BY <1>9, <2>2 DEF LoopExtended
    <3> QED BY <1>9, <3>1, ExtendFailedType DEF LoopExtended, TypeInv, TypeOK, serverVars, lockVars, callerVars
  <2> QED BY <2>1, <2>2
<1>10. CASE LoopFail(l)
  <2>1. Goto(l, "top") /\ UpdateState(At[l], "Error") /\ UNCHANGED attempts
    BY <1>10 DEF LoopFail
  <2>2. pc' \in [Loop -> LoopPCs] /\ ExtendBound'
    BY <2>1, GotoBound DEF LoopPCs
  <2> QED BY <1>10, <2>1, <2>2, UpdateStateType DEF LoopFail, TypeInv, TypeOK, serverVars, mutexVars
<1>11. CASE LoopUnlock(l)
  <2>1. Goto(l, "unlocked") /\ UNCHANGED attempts
    BY <1>11 DEF LoopUnlock
  <2>2. pc' \in [Loop -> LoopPCs] /\ ExtendBound'
    BY <2>1, GotoBound DEF LoopPCs
  <2>3. key' \in Node \cup {NoNode, Orphan}
    BY <1>11 DEF LoopUnlock, DeleteIfMine, TypeInv, TypeOK
  <2>4. faults' \in 0..MaxFaults
    BY <1>11, FaultType DEF LoopUnlock, TypeInv, TypeOK
  <2> QED BY <1>11, <2>2, <2>3, <2>4 DEF LoopUnlock, TypeInv, TypeOK, mutexVars, lockVars, callerVars
<1>12. CASE LoopExit(l)
  <2>1. pc' = [pc EXCEPT ![l] = "none"] /\ attempts' = [attempts EXCEPT ![l] = 0]
    BY <1>12 DEF LoopExit, Goto
  <2>2. /\ pc' \in [Loop -> LoopPCs] /\ ExtendBound' /\ attempts' \in [Loop -> 0..Retries]
        /\ failing' \in [Loop -> {"no", "quiet", "loud"}] /\ cancelled' \subseteq Loop
    BY <1>12, <2>1, BoundAssumption DEF LoopExit, TypeInv, TypeOK, ExtendBound, LoopPCs
  <2>3. UpdateState(At[l], "Unknown")
    BY <1>12 DEF LoopExit
  <2> QED BY <1>12, <2>2, <2>3, UpdateStateType DEF LoopExit, TypeInv, TypeOK, serverVars, mutexVars
<1> QED BY <1>1, <1>2, <1>3, <1>4, <1>5, <1>6, <1>7, <1>8, <1>9, <1>10, <1>11, <1>12 DEF LoopStep

LEMMA CallerType == ASSUME TypeInv, NEW c \in Caller, CallerStep(c) PROVE TypeInv'
<1>1. CASE \E kind \in {"lock", "try"} : CallLock(c, kind)
  <2>1. PICK kind \in {"lock", "try"} : CallLock(c, kind)
    BY <1>1
  <2>2. loopContext' \in [Node -> Loop \cup {NoLoop}] /\ pc' \in [Loop -> LoopPCs] /\ ExtendBound'
    <3>1. CASE UNCHANGED <<loopContext, pc>>
      BY <2>1, <3>1 DEF CallLock, TypeInv, TypeOK, ExtendBound
    <3>2. CASE \E l \in LoopsOf(At[c]) : /\ loopContext' = [loopContext EXCEPT ![At[c]] = l]
                                         /\ Goto(l, "top")
      <4>1. PICK l \in Loop : loopContext' = [loopContext EXCEPT ![At[c]] = l] /\ Goto(l, "top")
        BY Zenon, <3>2 DEF LoopsOf
      <4>2. UNCHANGED attempts
        BY <2>1 DEF CallLock
      <4> QED BY Zenon, <4>1, <4>2, GotoBound DEF TypeInv, TypeOK, LoopPCs
    <3> QED BY <2>1, <3>1, <3>2 DEF CallLock
  <2>3. phase' \in [Caller -> Phases] /\ awake' \subseteq Caller
    BY <2>1 DEF CallLock, TypeInv, TypeOK, Phases
  <2> QED BY <2>1, <2>2, <2>3 DEF CallLock, TypeInv, TypeOK, serverVars, mutexVars
<1>2. CASE CallerLooks(c)
  <2>1. phase' \in [Caller -> Phases] /\ awake' \subseteq Caller
    BY <1>2 DEF CallerLooks, TypeInv, TypeOK, Phases
  <2> QED BY <1>2, <2>1 DEF CallerLooks, TypeInv, TypeOK, ExtendBound, serverVars, mutexVars, lockVars, loopVars
<1>3. CASE CallerCancelled(c) \/ CallLost(c) \/ CallerDone(c)
  <2>1. phase' \in [Caller -> Phases] /\ lost' \subseteq Caller /\ UNCHANGED awake
    BY <1>3 DEF CallerCancelled, CallLost, CallerDone, TypeInv, TypeOK, Phases
  <2>2. UNCHANGED <<lockVars, loopVars, serverVars, mutexVars>>
    BY <1>3 DEF CallerCancelled, CallLost, CallerDone
  <2> QED BY <2>1, <2>2 DEF TypeInv, TypeOK, ExtendBound, serverVars, mutexVars, lockVars, loopVars
<1> QED BY <1>1, <1>2, <1>3 DEF CallerStep

LEMMA TypeStep == TypeInv /\ [Next]_vars => TypeInv'
<1> SUFFICES ASSUME TypeInv, [Next]_vars PROVE TypeInv'
  OBVIOUS
<1> USE HomeOf
<1>1. CASE Expires
  BY <1>1 DEF Expires, TypeInv, TypeOK, ExtendBound, mutexVars, lockVars, loopVars, callerVars
<1>2. ASSUME NEW n \in Node, Elapses(n) PROVE TypeInv'
  <2>1. faults' \in 0..MaxFaults
    BY <1>2, FaultType DEF Elapses, TypeInv, TypeOK
  <2> QED BY <1>2, <2>1 DEF Elapses, TypeInv, TypeOK, ExtendBound, lockVars, loopVars, callerVars
<1>3. ASSUME NEW n \in Node, Release(n) PROVE TypeInv'
  BY <1>3 DEF Release, TypeInv, TypeOK, ExtendBound, serverVars, mutexVars, callerVars
<1>4. ASSUME NEW n \in Node, Crash(n) PROVE TypeInv'
  <2>1. faults' \in 0..MaxFaults
    BY <1>4, FaultType DEF Crash, TypeInv
  <2>2. key' \in Node \cup {NoNode, Orphan}
    BY <1>4 DEF Crash, TypeInv, TypeOK
  <2>3. state' \in [Node -> {"Unknown", "Acquired", "Error"}]
        /\ loopContext' \in [Node -> Loop \cup {NoLoop}]
    BY <1>4 DEF Crash, TypeInv, TypeOK
  <2>4. pc' \in [Loop -> LoopPCs] /\ ExtendBound'
    BY <1>4 DEF Crash, TypeInv, TypeOK, LoopPCs, ExtendBound
  <2>5. attempts' \in [Loop -> 0..Retries] /\ failing' \in [Loop -> {"no", "quiet", "loud"}]
    BY <1>4, BoundAssumption DEF Crash, TypeInv, TypeOK
  <2>6. phase' \in [Caller -> Phases]
    BY <1>4 DEF Crash, TypeInv, TypeOK, Phases
  <2> QED BY <1>4, <2>1, <2>2, <2>3, <2>4, <2>5, <2>6 DEF Crash, TypeInv, TypeOK
<1>5. ASSUME NEW l \in Loop, LoopStep(l) PROVE TypeInv'
  BY <1>5, LoopType
<1>6. ASSUME NEW l \in Loop, AnswerOverdue(l) PROVE TypeInv'
  <2>1. faults' \in 0..MaxFaults
    BY <1>6, FaultType DEF AnswerOverdue, TypeInv
  <2> QED BY <1>6, <2>1 DEF AnswerOverdue, TypeInv, TypeOK, ExtendBound, mutexVars, lockVars, callerVars
<1>7. ASSUME NEW c \in Caller, CallerStep(c) PROVE TypeInv'
  BY <1>7, CallerType
<1>8. CASE UNCHANGED vars
  BY <1>8 DEF vars, TypeInv, TypeOK, ExtendBound, serverVars, mutexVars, lockVars, loopVars, callerVars
<1> QED BY <1>1, <1>2, <1>3, <1>4, <1>5, <1>6, <1>7, <1>8 DEF Next

\* Type correctness of RedisLock (redis/lock.go), the bound on failedAttempts
\* included.
THEOREM TypeCorrect == Spec => []TypeOK
<1>1. Spec => []TypeInv
  BY InitType, TypeStep, PTL DEF Spec
<1>2. TypeInv => TypeOK
  BY DEF TypeInv
<1> QED BY <1>1, <1>2, PTL

-----------------------------------------------------------------------------
(* The loops of a lock.                                                      *)

\* SingleLoop with what makes it inductive: a loop that does not run is not
\* cancelled, it leaves only when it is, and loopContext is one of the node's own.
LoopInv ==
    /\ SingleLoop
    /\ \A l \in Loop : pc[l] = "none" => l \notin cancelled
    /\ \A l \in Loop : pc[l] \in {"exit", "unlocked"} => l \in cancelled
    /\ \A n \in Node : loopContext[n] # NoLoop => At[loopContext[n]] = n

\* What a step of a loop does to the loops.
LEMMA LoopMoves ==
  ASSUME TypeInv, NEW l \in Loop, LoopStep(l)
  PROVE  /\ loopContext' = loopContext
         /\ pc[l] # "none"
         /\ \E p \in LoopPCs :
              /\ pc' = [pc EXCEPT ![l] = p]
              /\ \/ /\ p # "none" /\ cancelled' = cancelled
                    /\ p = "exit" => l \in cancelled
                    /\ p = "unlocked" => pc[l] = "exit"
                 \/ p = "none" /\ cancelled' = cancelled \ {l} /\ pc[l] = "unlocked"
<1>1. CASE LoopTop(l) \/ LoopHalfTime(l) \/ LoopGivesUp(l) \/ LoopMonitorEnds(l)
  BY Zenon, <1>1 DEF LoopTop, LoopHalfTime, LoopGivesUp, LoopMonitorEnds, LoopPCs, Goto, OnlyMoves, lockVars
<1>2. CASE LoopTry(l) \/ LoopTryFails(l) \/ LoopGranted(l) \/ LoopUndo(l)
  BY <1>2 DEF LoopTry, LoopTryFails, LoopGranted, LoopUndo, LoopPCs, Goto, lockVars
<1>3. CASE LoopExtend(l) \/ LoopExtendFails(l) \/ LoopExtended(l)
  BY <1>3 DEF LoopExtend, LoopExtendFails, LoopExtended, ExtendFailed, LoopPCs, Goto, lockVars
<1>4. CASE LoopAcquired(l) \/ LoopFail(l) \/ LoopExit(l)
  BY <1>4 DEF LoopAcquired, LoopFail, LoopExit, UpdateState, LoopPCs, Goto
<1>5. CASE LoopUnlock(l)
  BY <1>5 DEF LoopUnlock, LoopPCs, Goto, lockVars
<1> QED BY Zenon, <1>1, <1>2, <1>3, <1>4, <1>5 DEF LoopStep

LEMMA LoopInvStep == TypeInv /\ LoopInv /\ [Next]_vars => LoopInv'
<1> SUFFICES ASSUME TypeInv, LoopInv, [Next]_vars PROVE LoopInv'
  OBVIOUS
<1> USE HomeOf
<1>1. ASSUME NEW l \in Loop, LoopStep(l) PROVE LoopInv'
  <2>1. PICK p \in LoopPCs :
              /\ pc' = [pc EXCEPT ![l] = p]
              /\ \/ /\ p # "none" /\ cancelled' = cancelled
                    /\ p = "exit" => l \in cancelled
                    /\ p = "unlocked" => pc[l] = "exit"
                 \/ p = "none" /\ cancelled' = cancelled \ {l} /\ pc[l] = "unlocked"
    BY <1>1, LoopMoves
  <2>2. loopContext' = loopContext /\ pc[l] # "none"
    BY <1>1, LoopMoves
  <2>3. \A k \in Loop : k # l => pc'[k] = pc[k] /\ (k \in cancelled' <=> k \in cancelled)
    BY <2>1 DEF TypeInv, TypeOK
  <2>4. pc'[l] = p
    BY <2>1 DEF TypeInv, TypeOK
  <2> QED BY <2>1, <2>2, <2>3, <2>4 DEF LoopInv, SingleLoop
<1>2. ASSUME NEW c \in Caller, CallerStep(c) PROVE LoopInv'
  <2>1. CASE UNCHANGED <<loopContext, pc, cancelled>>
    BY <2>1 DEF LoopInv, SingleLoop
  <2>2. CASE ~UNCHANGED <<loopContext, pc, cancelled>>
    <3>1. PICK l \in LoopsOf(At[c]) : /\ pc[l] = "none" /\ loopContext[At[c]] = NoLoop
                                      /\ loopContext' = [loopContext EXCEPT ![At[c]] = l]
                                      /\ pc' = [pc EXCEPT ![l] = "top"]
                                      /\ cancelled' = cancelled
      BY <1>2, <2>2 DEF CallerStep, CallLock, Goto, CallerLooks, CallerCancelled, CallLost,
                        CallerDone, lockVars, loopVars
    <3>2. l \in Loop /\ At[l] = At[c] /\ At[c] \in Node
      BY DEF LoopsOf
    <3>3. pc'[l] = "top" /\ \A k \in Loop : k # l => pc'[k] = pc[k]
      BY <3>1, <3>2 DEF TypeInv, TypeOK
    <3>4. loopContext'[At[c]] = l /\ \A n \in Node : n # At[c] => loopContext'[n] = loopContext[n]
      BY <3>1, <3>2 DEF TypeInv, TypeOK
    <3>5. \A k \in Loop : At[k] = At[c] => pc[k] = "none" \/ k \in cancelled
      BY <3>1, LoopAssumption DEF LoopInv, SingleLoop
    <3> QED BY <3>1, <3>2, <3>3, <3>4, <3>5 DEF LoopInv, SingleLoop
  <2> QED BY <2>1, <2>2
<1>3. ASSUME NEW n \in Node, Release(n) PROVE LoopInv'
  <2>1. /\ loopContext[n] \in Loop /\ At[loopContext[n]] = n
        /\ cancelled' = cancelled \cup {loopContext[n]} /\ pc' = pc
        /\ pc[loopContext[n]] # "none"
    BY <1>3, LoopAssumption DEF Release, TypeInv, TypeOK, LoopInv, SingleLoop
  <2>2. loopContext'[n] = NoLoop /\ \A m \in Node : m # n => loopContext'[m] = loopContext[m]
    BY <1>3 DEF Release, TypeInv, TypeOK
  <2>3. SingleLoop'
    BY <2>1, <2>2, LoopAssumption DEF LoopInv, SingleLoop
  <2> QED BY <2>1, <2>2, <2>3 DEF LoopInv
<1>4. ASSUME NEW n \in Node, Crash(n) PROVE LoopInv'
  <2>1. /\ \A l \in Loop : At[l] = n => pc'[l] = "none"
        /\ \A l \in Loop : At[l] # n => pc'[l] = pc[l]
        /\ cancelled' = cancelled \ LoopsOf(n)
    BY <1>4 DEF Crash
  <2>2. loopContext'[n] = NoLoop /\ \A m \in Node : m # n => loopContext'[m] = loopContext[m]
    BY <1>4 DEF Crash, TypeInv, TypeOK
  <2>3. SingleLoop'
    BY <2>1, <2>2, LoopAssumption DEF LoopInv, SingleLoop, LoopsOf
  <2> QED BY <2>1, <2>2, <2>3 DEF LoopInv, LoopsOf
<1>5. CASE UNCHANGED <<loopContext, pc, cancelled>>
  BY <1>5 DEF LoopInv, SingleLoop
<1>6. CASE Expires \/ (\E n \in Node : Elapses(n)) \/ (\E l \in Loop : AnswerOverdue(l)) \/ UNCHANGED vars
  <2>1. UNCHANGED <<loopContext, pc, cancelled>>
    BY <1>6 DEF Expires, Elapses, AnswerOverdue, vars, lockVars, loopVars
  <2> QED BY <1>5, <2>1
<1> QED BY <1>1, <1>2, <1>3, <1>4, <1>6 DEF Next

LEMMA LoopInvAlways == Spec => [](TypeInv /\ LoopInv)
<1>1. Init => TypeInv /\ LoopInv
  BY InitType, LoopAssumption DEF Init, LoopInv, SingleLoop
<1>2. (TypeInv /\ LoopInv) /\ [Next]_vars => (TypeInv /\ LoopInv)'
  BY TypeStep, LoopInvStep
<1> QED BY <1>1, <1>2, PTL DEF Spec

\* lazyStart and stopLoop (redis/lock.go): the loop that runs on a live context
\* is the one Release cancels.
THEOREM SingleLoopAlways == Spec => []SingleLoop
<1>1. TypeInv /\ LoopInv => SingleLoop
  BY DEF LoopInv
<1> QED BY <1>1, LoopInvAlways, PTL

-----------------------------------------------------------------------------
(* What the callers get to know.                                             *)

\* Every loop step that touches the callers is an updateState.
LEMMA LoopStepCallers ==
  ASSUME NEW l \in Loop, LoopStep(l)
  PROVE  \/ UNCHANGED <<state, callerVars>>
         \/ \E s \in {"Unknown", "Acquired", "Error"} : UpdateState(At[l], s)
<1>1. CASE LoopAcquired(l) \/ LoopFail(l) \/ LoopExit(l)
  BY <1>1 DEF LoopAcquired, LoopFail, LoopExit
<1>2. CASE ~(LoopAcquired(l) \/ LoopFail(l) \/ LoopExit(l))
  BY Zenon, <1>2 DEF LoopStep, LoopTop, LoopHalfTime, LoopGivesUp, LoopMonitorEnds, OnlyMoves, LoopTry,
     LoopTryFails, LoopGranted, LoopUndo, LoopExtend, LoopExtendFails, LoopExtended, LoopUnlock, lockVars
<1> QED BY <1>1, <1>2

\* Where a sleeping caller may find the state, and a working one: what updateState
\* sees to.
SleepersWait ==
    \A c \in Caller :
        c \notin awake => /\ phase[c] = "lock" => state[At[c]] # "Acquired"
                          /\ phase[c] = "try" => state[At[c]] = "Unknown"

OpenIsAcquired ==
    \A c \in Caller : phase[c] = "hold" /\ c \notin lost => state[At[c]] = "Acquired"

Notified == SleepersWait /\ OpenIsAcquired

\* updateState tells every caller that has to know.
LEMMA UpdateStateTells ==
  ASSUME TypeOK, Notified, NEW n \in Node, NEW s \in {"Unknown", "Acquired", "Error"},
         UpdateState(n, s)
  PROVE  Notified'
<1>1. state'[n] = s /\ phase' = phase /\ \A m \in Node : m # n => state'[m] = state[m]
  BY DEF UpdateState, TypeOK
<1>2. awake \subseteq awake' /\ lost \subseteq lost'
  BY DEF UpdateState
<1>3. ASSUME NEW c \in Caller, At[c] = n
      PROVE  /\ c \notin awake' => /\ phase[c] = "lock" => s # "Acquired"
                                   /\ phase[c] = "try" => s = "Unknown"
             /\ phase[c] = "hold" /\ c \notin lost' => s = "Acquired"
  <2>1. CASE s = "Error" \/ state[n] # s
    BY <1>3, <2>1 DEF UpdateState, CallersOf, Notified, OpenIsAcquired
  <2>2. CASE ~(s = "Error" \/ state[n] # s)
    BY <1>2, <1>3, <2>2 DEF Notified, SleepersWait, OpenIsAcquired
  <2> QED BY <2>1, <2>2
<1>4. ASSUME NEW c \in Caller, At[c] # n
      PROVE  /\ c \notin awake' => /\ phase[c] = "lock" => state'[At[c]] # "Acquired"
                                   /\ phase[c] = "try" => state'[At[c]] = "Unknown"
             /\ phase[c] = "hold" /\ c \notin lost' => state'[At[c]] = "Acquired"
  BY <1>1, <1>2, <1>4, HomeOf DEF Notified, SleepersWait, OpenIsAcquired
<1> QED BY <1>1, <1>3, <1>4 DEF Notified, SleepersWait, OpenIsAcquired

LEMMA CallersStep == TypeInv /\ Notified /\ [Next]_vars => Notified'
<1> SUFFICES ASSUME TypeInv, Notified, [Next]_vars PROVE Notified'
  OBVIOUS
<1>0. TypeOK
  BY DEF TypeInv
<1>1. CASE UNCHANGED <<state, callerVars>>
  BY <1>1 DEF callerVars, Notified, SleepersWait, OpenIsAcquired
<1>2. ASSUME NEW l \in Loop, LoopStep(l) PROVE Notified'
  BY <1>0, <1>1, <1>2, LoopStepCallers, UpdateStateTells, HomeOf
<1>3. ASSUME NEW c \in Caller, CallerStep(c) PROVE Notified'
  <2>1. UNCHANGED state
    BY <1>3 DEF CallerStep, CallLock, CallerLooks, CallerCancelled, CallLost, CallerDone, lockVars
  <2>2. \A d \in Caller : d # c => /\ phase'[d] = phase[d]
                                   /\ d \in awake' <=> d \in awake
                                   /\ d \in lost' <=> d \in lost
    BY <1>0, <1>3 DEF CallerStep, CallLock, CallerLooks, CallerCancelled, CallLost, CallerDone, TypeOK
  <2>3. /\ c \notin awake' => /\ phase'[c] = "lock" => state[At[c]] # "Acquired"
                              /\ phase'[c] = "try" => state[At[c]] = "Unknown"
        /\ phase'[c] = "hold" /\ c \notin lost' => state[At[c]] = "Acquired"
    <3>1. CASE \E kind \in {"lock", "try"} : CallLock(c, kind)
      BY <1>0, <3>1 DEF CallLock, TypeOK
    <3>2. CASE CallerLooks(c)
      <4>1. state[At[c]] \in {"Unknown", "Acquired", "Error"}
        BY <1>0, HomeOf DEF TypeOK
      <4>2. \/ phase'[c] = "got" \/ phase'[c] = "idle"
            \/ phase'[c] = phase[c] /\ state[At[c]] # "Acquired"
               /\ (phase[c] = "try" => state[At[c]] # "Error")
        BY <1>0, <3>2 DEF CallerLooks, Succeeds, GivesUp, TypeOK
      <4> QED BY <3>2, <4>1, <4>2 DEF CallerLooks
    <3>3. CASE CallerCancelled(c) \/ CallLost(c) \/ CallerDone(c)
      BY Zenon, <1>0, <3>3 DEF CallerCancelled, CallLost, CallerDone, TypeOK
    <3> QED BY <1>3, <3>1, <3>2, <3>3 DEF CallerStep
  <2> QED BY <2>1, <2>2, <2>3 DEF Notified, SleepersWait, OpenIsAcquired
<1>4. ASSUME NEW n \in Node, Crash(n) PROVE Notified'
  <2>1. \A m \in Node : m # n => state'[m] = state[m]
    BY <1>0, <1>4 DEF Crash, TypeOK
  <2>2. \A c \in Caller : At[c] = n => phase'[c] = "idle"
    BY Zenon, <1>4 DEF Crash
  <2>3. \A c \in Caller : At[c] # n => /\ phase'[c] = phase[c]
                                       /\ c \in awake' <=> c \in awake
                                       /\ c \in lost' <=> c \in lost
    BY <1>4 DEF Crash, CallersOf
  <2> QED BY <2>1, <2>2, <2>3, HomeOf DEF Notified, SleepersWait, OpenIsAcquired
<1>5. CASE Expires \/ (\E n \in Node : Elapses(n) \/ Release(n)) \/ (\E l \in Loop : AnswerOverdue(l)) \/ UNCHANGED vars
  <2>1. UNCHANGED <<state, callerVars>>
    BY Zenon, <1>5 DEF Expires, Elapses, Release, AnswerOverdue, vars, lockVars
  <2> QED BY <1>1, <2>1
<1> QED BY <1>2, <1>3, <1>4, <1>5 DEF Next

Watches(l) == Attends(l) \/ Silent(l)

\* A state other than Unknown has a loop that is still to set it back; the state
\* Acquired has one that watches over it.
StateAttended ==
    \A n \in Node : /\ state[n] # "Unknown" => LoopAlive(n)
                    /\ state[n] = "Acquired" => \E l \in LoopsOf(n) : Watches(l)

\* A loop step keeps the loop watching, or takes the state out of Acquired. Only
\* lockLoop's last updateState ends it.
LEMMA LoopStepWatches ==
  ASSUME TypeOK, NEW l \in Loop, LoopStep(l)
  PROVE  /\ pc[l] # "none"
         /\ pc'[l] = "none" => state'[At[l]] = "Unknown"
         /\ state'[At[l]] = "Acquired" /\ (state[At[l]] # "Acquired" \/ Watches(l)) => Watches(l)'
         /\ \A k \in Loop : k # l => /\ pc'[k] = pc[k] /\ failing'[k] = failing[k]
                                     /\ k \in cancelled' <=> k \in cancelled
<1> USE HomeOf
<1>1. CASE LoopTop(l) \/ LoopHalfTime(l) \/ LoopGivesUp(l) \/ LoopMonitorEnds(l)
  BY <1>1 DEF LoopTop, LoopHalfTime, LoopGivesUp, LoopMonitorEnds, OnlyMoves, Goto, TypeOK, lockVars,
              Watches, Attends, Silent, Monitoring
<1>2. CASE LoopTry(l) \/ LoopTryFails(l) \/ LoopGranted(l) \/ LoopUndo(l) \/ LoopUnlock(l)
  BY <1>2 DEF LoopTry, LoopTryFails, LoopGranted, LoopUndo, LoopUnlock, Goto, TypeOK, lockVars,
              Watches, Attends, Silent, Monitoring
<1>3. CASE LoopExtend(l) \/ LoopExtendFails(l) \/ LoopExtended(l)
  BY <1>3 DEF LoopExtend, LoopExtendFails, LoopExtended, ExtendFailed, Goto, TypeOK, lockVars,
              Watches, Attends, Silent, Monitoring
<1>4. CASE LoopAcquired(l) \/ LoopFail(l)
  BY <1>4 DEF LoopAcquired, LoopFail, UpdateState, Goto, TypeOK, Watches, Attends, Silent, Monitoring
<1>5. CASE LoopExit(l)
  BY <1>5 DEF LoopExit, UpdateState, Goto, TypeOK
<1> QED BY <1>1, <1>2, <1>3, <1>4, <1>5 DEF LoopStep

LEMMA StateAttendedStep == TypeOK /\ StateAttended /\ [Next]_vars => StateAttended'
<1> SUFFICES ASSUME TypeOK, StateAttended, [Next]_vars PROVE StateAttended'
  OBVIOUS
<1>u. ASSUME UNCHANGED <<state, pc, cancelled, failing>> PROVE StateAttended'
  BY <1>u DEF StateAttended, LoopAlive, Watches, Attends, Silent
<1>1. ASSUME NEW l \in Loop, LoopStep(l) PROVE StateAttended'
  <2> SUFFICES ASSUME NEW n \in Node
               PROVE  /\ state'[n] # "Unknown" => \E k \in LoopsOf(n) : pc'[k] # "none"
                      /\ state'[n] = "Acquired" => \E k \in LoopsOf(n) : Watches(k)'
    BY DEF StateAttended, LoopAlive, LoopsOf
  <2>1. \A k \in Loop : k # l => Watches(k)' = Watches(k) /\ pc'[k] = pc[k]
    BY <1>1, LoopStepWatches DEF Watches, Attends, Silent
  <2>2. /\ state[n] # "Unknown" => \E k \in LoopsOf(n) : pc[k] # "none"
        /\ state[n] = "Acquired" => \E k \in LoopsOf(n) : Watches(k)
    BY DEF StateAttended, LoopAlive
  <2>3. CASE At[l] = n
    BY <1>1, <2>1, <2>2, <2>3, LoopStepWatches DEF LoopsOf
  <2>4. CASE At[l] # n
    <3>1. state'[n] = state[n]
      BY <1>1, <2>4, LoopStepCallers, HomeOf DEF UpdateState, TypeOK
    <3> QED BY <2>1, <2>2, <2>4, <3>1 DEF LoopsOf
  <2> QED BY <2>3, <2>4
<1>2. ASSUME NEW c \in Caller, CallerStep(c) PROVE StateAttended'
  <2>1. CASE UNCHANGED <<state, pc, cancelled, failing>>
    BY <1>u, <2>1
  <2>2. CASE ~UNCHANGED <<state, pc, cancelled, failing>>
    <3>1. UNCHANGED <<state, cancelled, failing>> /\ \E l \in Loop : pc[l] = "none" /\ pc' = [pc EXCEPT ![l] = "top"]
      BY <1>2, <2>2 DEF CallerStep, CallLock, CallerLooks, CallerCancelled, CallLost, CallerDone, Goto,
                        LoopsOf, lockVars, loopVars
    <3>2. \A k \in Loop : pc[k] # "none" => pc'[k] = pc[k]
      BY <3>1 DEF TypeOK
    <3>3. \A k \in Loop : Watches(k) => Watches(k)'
      BY <3>1, <3>2 DEF Watches, Attends, Silent, Monitoring
    <3> QED BY <3>1, <3>2, <3>3 DEF StateAttended, LoopAlive, LoopsOf
  <2> QED BY <2>1, <2>2
<1>3. ASSUME NEW n \in Node, Crash(n) PROVE StateAttended'
  <2>1. /\ state'[n] = "Unknown"
        /\ \A m \in Node : m # n => state'[m] = state[m]
        /\ \A k \in Loop : At[k] # n => /\ pc'[k] = pc[k] /\ failing'[k] = failing[k]
                                        /\ k \in cancelled' <=> k \in cancelled
    BY <1>3 DEF Crash, TypeOK, LoopsOf
  <2> QED BY <2>1 DEF StateAttended, LoopAlive, LoopsOf, Watches, Attends, Silent
<1>4. ASSUME NEW n \in Node, Release(n) PROVE StateAttended'
  <2>1. UNCHANGED <<state, pc, failing>> /\ cancelled \subseteq cancelled'
    BY <1>4 DEF Release
  <2> QED BY <2>1 DEF StateAttended, LoopAlive, LoopsOf, Watches, Attends, Silent
<1>5. CASE Expires \/ (\E n \in Node : Elapses(n)) \/ (\E l \in Loop : AnswerOverdue(l)) \/ UNCHANGED vars
  <2>1. UNCHANGED <<state, pc, cancelled, failing>>
    BY Zenon, <1>5 DEF Expires, Elapses, AnswerOverdue, vars, lockVars, loopVars
  <2> QED BY <1>u, <2>1
<1> QED BY <1>1, <1>2, <1>3, <1>4, <1>5 DEF Next

\* updateState, waitForState and monitorLock (redis/lock.go): along every behaviour the
\* callers are told, those that wait for the lock and those that work under it, with
\* the exceptions that NoLostWakeup and LostIsTold name.
THEOREM CallersAlways == Spec => []CallersTold
<1>1. Init => TypeInv /\ Notified /\ StateAttended
  BY InitType DEF Init, Notified, SleepersWait, OpenIsAcquired, StateAttended
<1>2. (TypeInv /\ Notified /\ StateAttended) /\ [Next]_vars => (TypeInv /\ Notified /\ StateAttended)'
  BY TypeStep, CallersStep, StateAttendedStep DEF TypeInv
<1>3. Notified /\ StateAttended => CallersTold
  <2> SUFFICES ASSUME Notified, StateAttended, NEW c \in Caller
               PROVE  /\ Asleep(c) /\ (Succeeds(At[c]) \/ GivesUp(At[c], phase[c])) =>
                           /\ loopContext[At[c]] = NoLoop
                           /\ state[At[c]] = "Unknown" \/ (phase[c] = "lock" /\ LoopAlive(At[c]))
                      /\ Open(c) => /\ state[At[c]] = "Acquired"
                                    /\ \E l \in LoopsOf(At[c]) : Attends(l) \/ Silent(l)
    BY Zenon DEF CallersTold, NoLostWakeup, LostIsTold
  <2>1. /\ c \notin awake => /\ phase[c] = "lock" => state[At[c]] # "Acquired"
                             /\ phase[c] = "try" => state[At[c]] = "Unknown"
        /\ phase[c] = "hold" /\ c \notin lost => state[At[c]] = "Acquired"
    BY Zenon DEF Notified, SleepersWait, OpenIsAcquired
  <2>2. /\ state[At[c]] # "Unknown" => LoopAlive(At[c])
        /\ state[At[c]] = "Acquired" => \E l \in LoopsOf(At[c]) : Attends(l) \/ Silent(l)
    BY Zenon, HomeOf DEF StateAttended, Watches
  <2> QED BY Zenon, <2>1, <2>2 DEF Asleep, Succeeds, GivesUp, Open
<1> QED BY <1>1, <1>2, <1>3, PTL DEF Spec

-----------------------------------------------------------------------------
(* Mutual exclusion, and the lease, for locks whose loops do not overlap: a  *)
(* node starts a loop only when its last one has ended.                      *)

OneLoopEach == \A l, k \in Loop : At[l] = At[k] => l = k

\* Where the key is known to be the node's own, until Until().
Owning == {"acquired"} \cup Monitoring

\* An answer that still counts, and an Until() in the future, mean that the key
\* is there.
KeyInv ==
    /\ \A l \in fresh : pc[l] \in {"granted", "extended"} /\ key = At[l]
    /\ \A l \in Loop : pc[l] \in Owning /\ At[l] \in valid => key = At[l]

\* What a step of a loop does to the key.
LEMMA LoopKeys ==
  ASSUME TypeInv, KeyInv, NEW l \in Loop, LoopStep(l)
  PROVE  /\ \/ key' = key
            \/ /\ (key = NoNode /\ key' = At[l]) \/ (key = At[l] /\ key' = NoNode)
               /\ pc[l] \notin Owning /\ pc'[l] \notin Owning
         /\ valid \subseteq valid' /\ valid' \subseteq valid \cup {At[l]}
         /\ fresh' \subseteq fresh \cup {l}
         /\ l \in fresh' => pc'[l] \in {"granted", "extended"} /\ key' = At[l]
         /\ pc'[l] \in Owning /\ At[l] \in valid' => key' = At[l]
<1> USE HomeOf DEF TypeInv, TypeOK, KeyInv, Owning, Monitoring, Goto
<1>1. CASE LoopTop(l) \/ LoopHalfTime(l) \/ LoopGivesUp(l) \/ LoopMonitorEnds(l)
  BY <1>1 DEF LoopTop, LoopHalfTime, LoopGivesUp, LoopMonitorEnds, OnlyMoves, serverVars, mutexVars
<1>2. CASE LoopTry(l) \/ LoopTryFails(l)
  BY <1>2 DEF LoopTry, LoopTryFails, SetNX, mutexVars
<1>3. CASE LoopGranted(l)
  BY <1>3 DEF LoopGranted, serverVars, mutexVars
<1>4. CASE LoopUndo(l) \/ LoopUnlock(l)
  BY <1>4 DEF LoopUndo, LoopUnlock, DeleteIfMine, serverVars, mutexVars
<1>5. CASE LoopAcquired(l) \/ LoopFail(l) \/ LoopExit(l)
  BY <1>5 DEF LoopAcquired, LoopFail, LoopExit, serverVars, mutexVars
<1>6. CASE LoopExtend(l) \/ LoopExtendFails(l)
  BY <1>6 DEF LoopExtend, LoopExtendFails, ExtendFailed, serverVars, mutexVars
<1>7. CASE LoopExtended(l)
  BY <1>7 DEF LoopExtended, ExtendFailed, serverVars
<1> QED BY Zenon, <1>1, <1>2, <1>3, <1>4, <1>5, <1>6, <1>7 DEF LoopStep

\* The other loops go on as they were.
LEMMA OtherLoops ==
  ASSUME TypeInv, NEW l \in Loop, LoopStep(l), NEW k \in Loop, k # l
  PROVE  pc'[k] = pc[k]
BY LoopMoves DEF TypeInv, TypeOK

LEMMA KeyInvStep == OneLoopEach /\ TypeInv /\ KeyInv /\ [Next]_vars => KeyInv'
<1> SUFFICES ASSUME OneLoopEach, TypeInv, KeyInv, [Next]_vars PROVE KeyInv'
  OBVIOUS
<1> USE HomeOf
<1>1. ASSUME NEW l \in Loop, LoopStep(l) PROVE KeyInv'
  <2>1. ASSUME NEW k \in Loop, k # l
        PROVE  /\ k \in fresh' => pc'[k] \in {"granted", "extended"} /\ key' = At[k]
               /\ pc'[k] \in Owning /\ At[k] \in valid' => key' = At[k]
    <3>1. pc'[k] = pc[k] /\ At[k] # At[l]
      BY <1>1, <2>1, OtherLoops DEF OneLoopEach
    <3>2. At[k] \in Node /\ NoNode \notin Node
      BY LoopAssumption
    <3> QED BY <1>1, <2>1, <3>1, <3>2, LoopKeys DEF KeyInv
  <2>2. fresh' \subseteq Loop
    BY Zenon, <1>1, LoopKeys DEF TypeInv, TypeOK
  <2>3. /\ l \in fresh' => pc'[l] \in {"granted", "extended"} /\ key' = At[l]
        /\ pc'[l] \in Owning /\ At[l] \in valid' => key' = At[l]
    BY Zenon, <1>1, LoopKeys
  <2> QED BY <2>1, <2>2, <2>3 DEF KeyInv
<1>2. ASSUME NEW c \in Caller, CallerStep(c) PROVE KeyInv'
  <2>1. UNCHANGED <<key, valid, fresh>>
    BY <1>2 DEF CallerStep, CallLock, CallerLooks, CallerCancelled, CallLost, CallerDone,
                serverVars, mutexVars, loopVars
  <2>2. \A l \in Loop : pc'[l] = pc[l] \/ (pc[l] = "none" /\ pc'[l] = "top")
    BY <1>2 DEF CallerStep, CallLock, Goto, CallerLooks, CallerCancelled, CallLost, CallerDone,
                loopVars, TypeInv, TypeOK, LoopsOf
  <2>3. fresh \subseteq Loop
    BY DEF TypeInv, TypeOK
  <2> QED BY <2>1, <2>2, <2>3 DEF KeyInv, Owning, Monitoring
<1>3. CASE Expires
  BY <1>3, LoopAssumption DEF Expires, KeyInv, LoopsOf, mutexVars, loopVars, TypeInv, TypeOK
<1>4. ASSUME NEW n \in Node, Crash(n) PROVE KeyInv'
  <2>1. \A l \in Loop : At[l] = n => pc'[l] = "none" /\ l \notin fresh'
    BY <1>4 DEF Crash, LoopsOf
  <2>2. \A l \in Loop : At[l] # n => pc'[l] = pc[l] /\ (l \in fresh' <=> l \in fresh)
    BY <1>4 DEF Crash, LoopsOf
  <2>3. valid' = valid \ {n} /\ fresh' \subseteq Loop /\ (key' = key \/ key = n \/ key = NoNode)
    BY Zenon, <1>4 DEF Crash, TypeInv, TypeOK
  <2> QED BY <2>1, <2>2, <2>3, LoopAssumption DEF KeyInv, Owning, Monitoring
<1>5. CASE (\E n \in Node : Elapses(n) \/ Release(n)) \/ (\E l \in Loop : AnswerOverdue(l)) \/ UNCHANGED vars
  <2>1. UNCHANGED <<key, pc>> /\ valid' \subseteq valid /\ fresh' \subseteq fresh
    BY Zenon, <1>5 DEF Elapses, Release, AnswerOverdue, vars, serverVars, mutexVars, loopVars
  <2> QED BY <2>1 DEF KeyInv
<1> QED BY <1>1, <1>2, <1>3, <1>4, <1>5 DEF Next

LEMMA KeyInvAlways == OneLoopEach => (Spec => [](TypeInv /\ LoopInv /\ KeyInv))
<1> SUFFICES ASSUME OneLoopEach PROVE Spec => [](TypeInv /\ LoopInv /\ KeyInv)
  OBVIOUS
<1>1. Init => TypeInv /\ KeyInv
  BY InitType DEF Init, KeyInv, Owning, Monitoring
<1>2. (TypeInv /\ KeyInv) /\ [Next]_vars => (TypeInv /\ KeyInv)'
  BY TypeStep, KeyInvStep
<1> QED BY <1>1, <1>2, LoopInvAlways, PTL DEF Spec

\* A holder has the key.
LEMMA HolderOwns == TypeInv /\ LoopInv /\ KeyInv => \A n \in Holders : key = n
<1> SUFFICES ASSUME TypeInv, LoopInv, KeyInv, NEW n \in Holders PROVE key = n
  OBVIOUS
<1>1. PICK l \in Loop : loopContext[n] = l /\ pc[l] \in Monitoring /\ n \in valid /\ n \in Node
  BY Zenon DEF Holders
<1>2. At[l] = n
  BY <1>1, LoopAssumption DEF LoopInv
<1> QED BY Zenon, <1>1, <1>2 DEF KeyInv, Owning

\* monitorLock (redis/lock.go): two nodes never both monitor the lock before its
\* expiry, as long as no loop of a lock object outlives the start of the next.
THEOREM MutualExclusionAlways == OneLoopEach => (Spec => []MutualExclusion)
<1>1. TypeInv /\ LoopInv /\ KeyInv => MutualExclusion
  BY HolderOwns DEF MutualExclusion
<1> QED BY <1>1, KeyInvAlways, PTL

\* Only what happens on node n makes n a holder, or no longer one.
LEMMA HoldersElsewhere ==
  ASSUME TypeInv, LoopInv, NEW n \in Node,
         \A m \in Node : m # n => loopContext'[m] = loopContext[m] /\ (m \in valid' <=> m \in valid),
         \A l \in Loop : At[l] # n => pc'[l] = pc[l]
  PROVE  Holders' \ {n} = Holders \ {n}
<1>1. ASSUME NEW m \in Node, m # n PROVE m \in Holders' <=> m \in Holders
  <2>1. \A l \in Loop : loopContext[m] = l => At[l] = m
    BY LoopAssumption DEF LoopInv
  <2> QED BY <1>1, <2>1 DEF Holders
<1> QED BY <1>1 DEF Holders

LEMMA StepLease ==
  ASSUME OneLoopEach, TypeInv, LoopInv, KeyInv, TypeInv', LoopInv', KeyInv', [Next]_vars
  PROVE  [Lease!Next]_<<Grantee, Holders>>
<1> USE HomeOf DEF Grantee
<1>0. /\ Holders \subseteq Node /\ Holders' \subseteq Node
      /\ (\A n \in Holders : key = n) /\ (\A n \in Holders' : key' = n)
      /\ NoNode \notin Node /\ Orphan \notin Node /\ NoNode # Orphan
  <2>1. TypeInv' /\ LoopInv' /\ KeyInv' => (\A n \in Holders : key = n)'
    BY HolderOwns, PTL
  <2> QED BY <2>1, HolderOwns, LoopAssumption DEF Holders
<1>1. ASSUME NEW n \in Node, UNCHANGED key, Holders' \ {n} = Holders \ {n}
      PROVE  [Lease!Next]_<<Grantee, Holders>>
  <2>1. CASE n \in Holders' /\ n \notin Holders
    <3>1. Holders' = Holders \cup {n} /\ Grantee = n /\ Grantee' = Grantee
      BY <1>0, <1>1, <2>1
    <3> QED BY <3>1 DEF Lease!Next, Lease!Enter
  <2>2. CASE n \notin Holders' /\ n \in Holders
    <3>1. Holders' = Holders \ {n} /\ Grantee' = Grantee
      BY <1>1, <2>2
    <3> QED BY <2>2, <3>1 DEF Lease!Next, Lease!Leave
  <2>3. CASE n \in Holders' <=> n \in Holders
    <3>1. Holders' = Holders /\ Grantee' = Grantee
      BY <1>1, <2>3
    <3> QED BY <3>1
  <2> QED BY <2>1, <2>2, <2>3
<1>2. ASSUME NEW l \in Loop, LoopStep(l) PROVE [Lease!Next]_<<Grantee, Holders>>
  <2>1. loopContext' = loopContext
    BY <1>2, LoopMoves
  <2>2. \A k \in Loop : At[k] # At[l] => pc'[k] = pc[k]
    BY <1>2, OtherLoops
  <2>3. \A m \in Node : m # At[l] => (m \in valid' <=> m \in valid)
    BY <1>2, LoopKeys
  <2>4. Holders' \ {At[l]} = Holders \ {At[l]}
    BY <2>1, <2>2, <2>3, HoldersElsewhere
  <2>5. CASE UNCHANGED key
    BY <1>1, <2>4, <2>5
  <2>6. CASE ~UNCHANGED key
    <3>1. /\ (key = NoNode /\ key' = At[l]) \/ (key = At[l] /\ key' = NoNode)
          /\ pc[l] \notin Owning /\ pc'[l] \notin Owning
      BY <1>2, <2>6, LoopKeys
    <3>2. At[l] \notin Holders /\ At[l] \notin Holders'
      <4>1. \A k \in Loop : loopContext[At[l]] = k => k = l
        BY LoopAssumption DEF LoopInv, OneLoopEach
      <4> QED BY <2>1, <3>1, <4>1 DEF Holders, Owning
    <3>3. Holders' = Holders
      BY <2>4, <3>2
    <3>4. CASE key = NoNode
      <4>1. Grantee = NoNode /\ Grantee' = At[l]
        BY <1>0, <3>1, <3>4
      <4> QED BY <3>3, <4>1 DEF Lease!Next, Lease!Grant
    <3>5. CASE key # NoNode
      <4>1. Grantee = At[l] /\ Grantee' = NoNode /\ Grantee # NoNode
        BY <1>0, <3>1, <3>5
      <4> QED BY <3>2, <3>3, <4>1 DEF Lease!Next, Lease!Withdraw
    <3> QED BY <3>4, <3>5
  <2> QED BY <2>5, <2>6
<1>3. ASSUME NEW c \in Caller, CallerStep(c) PROVE [Lease!Next]_<<Grantee, Holders>>
  <2>1. UNCHANGED <<key, valid>>
    BY <1>3 DEF CallerStep, CallLock, CallerLooks, CallerCancelled, CallLost, CallerDone,
                serverVars, mutexVars
  <2>2. \A m \in Node : m # At[c] => loopContext'[m] = loopContext[m]
    BY <1>3 DEF CallerStep, CallLock, CallerLooks, CallerCancelled, CallLost, CallerDone,
                lockVars, TypeInv, TypeOK
  <2>3. \A l \in Loop : At[l] # At[c] => pc'[l] = pc[l]
    BY <1>3 DEF CallerStep, CallLock, CallerLooks, CallerCancelled, CallLost, CallerDone,
                Goto, LoopsOf, loopVars, TypeInv, TypeOK
  <2>4. Holders' \ {At[c]} = Holders \ {At[c]}
    BY <2>1, <2>2, <2>3, HoldersElsewhere
  <2> QED BY <1>1, <2>1, <2>4
<1>4. ASSUME NEW n \in Node, Elapses(n) \/ Release(n) PROVE [Lease!Next]_<<Grantee, Holders>>
  <2>1. UNCHANGED <<key, pc>>
    BY Zenon, <1>4 DEF Elapses, Release, serverVars, loopVars
  <2>2. \A m \in Node : m # n => loopContext'[m] = loopContext[m] /\ (m \in valid' <=> m \in valid)
    BY Zenon, <1>4 DEF Elapses, Release, mutexVars, lockVars, TypeInv, TypeOK
  <2>3. Holders' \ {n} = Holders \ {n}
    BY <2>1, <2>2, HoldersElsewhere
  <2> QED BY <1>1, <2>1, <2>3
<1>5. ASSUME NEW n \in Node, Crash(n) PROVE [Lease!Next]_<<Grantee, Holders>>
  <2>1. /\ valid' = valid \ {n}
        /\ loopContext' = [loopContext EXCEPT ![n] = NoLoop]
        /\ pc' = [l \in Loop |-> IF At[l] = n THEN "none" ELSE pc[l]]
        /\ key = n => key' = Orphan
        /\ key # n => key' = key \/ (key = NoNode /\ key' = Orphan)
    BY Zenon, <1>5 DEF Crash
  <2>2. loopContext \in [Node -> Loop \cup {NoLoop}]
    BY DEF TypeInv, TypeOK
  <2>3. \A m \in Node : m # n => loopContext'[m] = loopContext[m] /\ (m \in valid' <=> m \in valid)
    BY <2>1, <2>2
  <2>4. \A l \in Loop : At[l] # n => pc'[l] = pc[l]
    BY <2>1
  <2>5. Holders' \ {n} = Holders \ {n}
    BY <2>3, <2>4, HoldersElsewhere
  <2>6. n \notin Holders'
    BY <2>1 DEF Holders
  <2>7. CASE key = n
    <3>1. Grantee = n /\ Grantee' = NoNode /\ Holders' = Holders \ {n}
      BY <1>0, <2>1, <2>5, <2>6, <2>7
    <3> QED BY <1>0, <3>1 DEF Lease!Next, Lease!Withdraw
  <2>8. CASE key # n
    <3>1. n \notin Holders
      BY <1>0, <2>8
    <3>2. Holders' = Holders
      BY <2>5, <2>6, <3>1
    <3>3. Grantee' = Grantee
      BY <1>0, <2>1, <2>8
    <3> QED BY <3>2, <3>3
  <2> QED BY <2>7, <2>8
<1>6. CASE Expires
  <2>1. Holders' = Holders
    BY <1>6 DEF Expires, Holders, mutexVars, lockVars, loopVars
  <2>2. CASE key = Orphan
    <3>1. Grantee' = Grantee
      BY <1>6, <2>2 DEF Expires
    <3> QED BY <2>1, <3>1
  <2>3. CASE key # Orphan
    <3>1. Grantee = key /\ Grantee' = NoNode /\ Grantee # NoNode /\ key \notin Holders
      BY Zenon, <1>0, <1>6, <2>3 DEF Expires, Holders
    <3> QED BY <2>1, <3>1 DEF Lease!Next, Lease!Withdraw
  <2> QED BY <2>2, <2>3
<1>7. CASE (\E l \in Loop : AnswerOverdue(l)) \/ UNCHANGED vars
  <2>1. UNCHANGED <<key, Holders>>
    BY Zenon, <1>7 DEF AnswerOverdue, vars, serverVars, mutexVars, lockVars, loopVars, Holders
  <2> QED BY <2>1
<1> QED BY <1>2, <1>3, <1>4, <1>5, <1>6, <1>7 DEF Next

\* dsync over Redis implements a lock with leases, under the same condition.
THEOREM LeaseRefinement == OneLoopEach => (Spec => ImplementsLease)
<1> SUFFICES ASSUME OneLoopEach PROVE Spec => ImplementsLease
  OBVIOUS
<1>1. Init => Lease!Init
  BY LoopAssumption DEF Init, Lease!Init, Holders, Grantee
<1>2. /\ TypeInv /\ LoopInv /\ KeyInv
      /\ (TypeInv /\ LoopInv /\ KeyInv)'
      /\ [Next]_vars
      => [Lease!Next]_<<Grantee, Holders>>
  BY StepLease
<1>3. Spec => Lease!Init /\ [][Lease!Next]_<<Grantee, Holders>>
  BY <1>1, <1>2, KeyInvAlways, PTL DEF Spec
<1> QED BY <1>3 DEF ImplementsLease, Lease!Spec
=============================================================================
