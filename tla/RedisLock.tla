------------------------------ MODULE RedisLock ------------------------------
(* RedisLock (dsync/redis/lock.go): on every node one lock object for the    *)
(* same key, its fields guarded by l.mtx, and the lockLoop goroutines that   *)
(* acquire and extend the key through one shared redsync.Mutex. Redis and    *)
(* redsync are external. The value redsync writes is made once per lock      *)
(* object, so all loops of a node share it, and a new process has a new one: *)
(* the key's owner is a node, or Orphan when its process has died.           *)
EXTENDS Naturals

CONSTANTS Node,         \* service instances
          Loop,         \* lockLoop goroutines that can be alive at a time
          Caller,       \* application goroutines using the lock
          At,           \* the node of a loop or a caller
          NoLoop, NoNode, Orphan,
          Retries,      \* option MaxExtendRetries
          Ops,          \* what the application of a node does: of "lock", "try",
                        \* "cancel", "done", "Release"
          FaultKinds,   \* what may happen to a node: of "rpc", "pause", "crash"
          MaxFaults     \* bound: how many of them

ASSUME LoopAssumption == /\ At \in [Loop \cup Caller -> Node]
                         /\ NoLoop \notin Loop
                         /\ NoNode \notin Node /\ Orphan \notin Node /\ NoNode # Orphan
ASSUME BoundAssumption == Retries \in Nat /\ MaxFaults \in Nat

VARIABLES key,          \* whose value the Redis key holds, NoNode if it is gone
          faults,       \* faults the environment may still inject
          named,        \* nodes whose rsMutex has a value (acquired once)
          valid,        \* nodes whose rsMutex.Until() is in the future
          state,        \* l.state; l.lockLostCh is open iff it is "Acquired"
          loopContext,  \* the loop l.loopContext belongs to
          pc,           \* where a loop is, "none" if it does not run
          cancelled,    \* loops whose context is cancelled
          fresh,        \* loops with a positive answer on its way, not overdue
          attempts,     \* failedAttempts of monitorLock
          failing,      \* err of monitorLock: "no", "quiet" for a cancellation or
                        \* a timeout, "loud" for any other error
          phase,        \* what a caller is doing
          awake,        \* waiting callers that were notified
          lost          \* callers whose Lost() channel is closed

serverVars == <<key, faults>>
mutexVars == <<named, valid>>
lockVars == <<state, loopContext>>
loopVars == <<pc, cancelled, fresh, attempts, failing>>
callerVars == <<phase, awake, lost>>
vars == <<serverVars, mutexVars, lockVars, loopVars, callerVars>>

LoopPCs == {"none", "top", "try", "granted", "undo", "undoQuiet", "acquired",
            "monitor", "extend", "extended", "expiring", "fail", "exit", "unlocked"}
Phases == {"idle", "lock", "try", "got", "hold"}

TypeOK ==
    /\ key \in Node \cup {NoNode, Orphan}
    /\ faults \in 0..MaxFaults
    /\ named \subseteq Node
    /\ valid \subseteq Node
    /\ state \in [Node -> {"Unknown", "Acquired", "Error"}]
    /\ loopContext \in [Node -> Loop \cup {NoLoop}]
    /\ pc \in [Loop -> LoopPCs]
    /\ cancelled \subseteq Loop
    /\ fresh \subseteq Loop
    /\ attempts \in [Loop -> 0..Retries]
    /\ failing \in [Loop -> {"no", "quiet", "loud"}]
    /\ phase \in [Caller -> Phases]
    /\ awake \subseteq Caller
    /\ lost \subseteq Caller

Init ==
    /\ key = NoNode
    /\ faults = MaxFaults
    /\ named = {} /\ valid = {}
    /\ state = [n \in Node |-> "Unknown"]
    /\ loopContext = [n \in Node |-> NoLoop]
    /\ pc = [l \in Loop |-> "none"]
    /\ cancelled = {} /\ fresh = {}
    /\ attempts = [l \in Loop |-> 0]
    /\ failing = [l \in Loop |-> "no"]
    /\ phase = [c \in Caller |-> "idle"]
    /\ awake = {} /\ lost = {}

Fault(n, kind) == /\ kind \in FaultKinds[n]
                  /\ faults > 0
                  /\ faults' = faults - 1

Goto(l, p) == pc' = [pc EXCEPT ![l] = p]

OnlyMoves == UNCHANGED <<cancelled, fresh, attempts, failing, serverVars, mutexVars,
                         lockVars, callerVars>>

CallersOf(n) == {c \in Caller : At[c] = n}
LoopsOf(n) == {l \in Loop : At[l] = n}

-----------------------------------------------------------------------------
(* redsync and Redis.                                                        *)

\* SET NX: the key is written unless it exists.
SetNX(n) == key' = IF key = NoNode THEN n ELSE key

\* The release script: the key is deleted if it holds the value of the caller.
DeleteIfMine(n) == key' = IF key = n THEN NoNode ELSE key

\* Until() is computed from the time before the call, less a drift: the key
\* outlives it.
Expires ==
    /\ key # NoNode
    /\ key = Orphan \/ (key \notin valid /\ LoopsOf(key) \cap fresh = {})
    /\ key' = NoNode
    /\ UNCHANGED faults
    /\ UNCHANGED <<mutexVars, lockVars, loopVars, callerVars>>

\* A loop that keeps the lock extends it before Until() is reached, unless its
\* process is paused.
Extending(n) == \E l \in LoopsOf(n) : pc[l] \in {"acquired", "monitor", "extend", "extended"}

\* Until() is reached.
Elapses(n) ==
    /\ n \in valid
    /\ valid' = valid \ {n}
    /\ IF Extending(n) THEN Fault(n, "pause") ELSE UNCHANGED faults
    /\ UNCHANGED <<key, named>>
    /\ UNCHANGED <<lockVars, loopVars, callerVars>>

\* An answer is so late that it is worth nothing any more.
AnswerOverdue(l) ==
    /\ l \in fresh
    /\ Fault(At[l], "pause")
    /\ fresh' = fresh \ {l}
    /\ UNCHANGED <<pc, cancelled, attempts, failing>>
    /\ UNCHANGED <<key, mutexVars, lockVars, callerVars>>

-----------------------------------------------------------------------------
(* updateState: a critical section of l.mtx. The Lost() channel of a caller  *)
(* is closed on the way out of Acquired; blocked callers are notified of     *)
(* every change and of every error.                                          *)

\* Mutant: no notification of an acquired lock.
UpdateStateNoBroadcast(n, s) ==
    /\ state' = [state EXCEPT ![n] = s]
    /\ lost' = IF state[n] = "Acquired" /\ s # "Acquired"
                 THEN lost \cup {c \in CallersOf(n) : phase[c] = "hold"}
                 ELSE lost
    /\ awake' = IF s = "Error"
                  THEN awake \cup {c \in CallersOf(n) : phase[c] \in {"lock", "try"}}
                  ELSE awake
    /\ UNCHANGED <<phase, loopContext>>

UpdateState(n, s) ==
    /\ state' = [state EXCEPT ![n] = s]
    /\ lost' = IF state[n] = "Acquired" /\ s # "Acquired"
                 THEN lost \cup {c \in CallersOf(n) : phase[c] = "hold"}
                 ELSE lost
    /\ awake' = IF s = "Error" \/ state[n] # s
                  THEN awake \cup {c \in CallersOf(n) : phase[c] \in {"lock", "try"}}
                  ELSE awake
    /\ UNCHANGED <<phase, loopContext>>

-----------------------------------------------------------------------------
(* lockLoop and monitorLock, one action per step between critical sections   *)
(* and calls to Redis. delay(RetryDelay) only takes time and is no step.     *)

\* The select at the top of the loop.
LoopTop(l) ==
    /\ pc[l] = "top"
    /\ Goto(l, IF l \in cancelled THEN "exit" ELSE "try")
    /\ OnlyMoves

\* TryLockContext reaches Redis: the key is set, or found to be taken.
LoopTry(l) ==
    /\ pc[l] = "try"
    /\ SetNX(At[l])
    /\ IF key = NoNode
         THEN Goto(l, "granted") /\ fresh' = fresh \cup {l}
         ELSE Goto(l, "undo") /\ UNCHANGED fresh
    /\ UNCHANGED <<cancelled, attempts, failing, faults>>
    /\ UNCHANGED <<mutexVars, lockVars, callerVars>>

\* TryLockContext gets no answer, whether or not Redis set the key: because the
\* context is cancelled, after its timeout, or with another error.
LoopTryFails(l) ==
    /\ pc[l] = "try"
    /\ \/ l \in cancelled /\ Goto(l, "undoQuiet") /\ UNCHANGED faults
       \/ Fault(At[l], "rpc") /\ (Goto(l, "undoQuiet") \/ Goto(l, "undo"))
    /\ SetNX(At[l]) \/ UNCHANGED key
    /\ UNCHANGED <<cancelled, fresh, attempts, failing>>
    /\ UNCHANGED <<mutexVars, lockVars, callerVars>>

\* redsync takes a positive answer that is not overdue.
LoopGranted(l) ==
    /\ pc[l] = "granted"
    /\ IF l \in fresh
         THEN /\ named' = named \cup {At[l]}
              /\ valid' = valid \cup {At[l]}
              /\ Goto(l, "acquired")
         ELSE Goto(l, "undo") /\ UNCHANGED mutexVars
    /\ fresh' = fresh \ {l}
    /\ UNCHANGED <<cancelled, attempts, failing>>
    /\ UNCHANGED <<serverVars, lockVars, callerVars>>

\* redsync withdraws its own value after a failed attempt, unless the context is
\* cancelled or the call fails. A cancellation or timeout is passed over.
LoopUndo(l) ==
    /\ pc[l] \in {"undo", "undoQuiet"}
    /\ \/ l \notin cancelled /\ DeleteIfMine(At[l]) /\ UNCHANGED faults
       \/ l \in cancelled /\ UNCHANGED serverVars
       \/ Fault(At[l], "rpc") /\ UNCHANGED key
    /\ Goto(l, IF pc[l] = "undo" THEN "fail" ELSE "top")
    /\ UNCHANGED <<cancelled, fresh, attempts, failing>>
    /\ UNCHANGED <<mutexVars, lockVars, callerVars>>

\* updateState(stateAcquired), and monitorLock begins.
LoopAcquired(l) ==
    /\ pc[l] = "acquired"
    /\ UpdateState(At[l], "Acquired")
    /\ Goto(l, "monitor")
    /\ attempts' = [attempts EXCEPT ![l] = 0]
    /\ failing' = [failing EXCEPT ![l] = "no"]
    /\ UNCHANGED <<cancelled, fresh>>
    /\ UNCHANGED <<serverVars, mutexVars>>

\* Mutant: MaxExtendRetries is not looked at.
LoopHalfTimeAgain(l) ==
    /\ pc[l] = "monitor"
    /\ l \notin cancelled
    /\ At[l] \in valid
    /\ Goto(l, "extend")
    /\ OnlyMoves

\* Half of the time left has passed without a cancellation: extend.
LoopHalfTime(l) ==
    /\ pc[l] = "monitor"
    /\ l \notin cancelled
    /\ At[l] \in valid
    /\ attempts[l] < Retries
    /\ Goto(l, "extend")
    /\ OnlyMoves

\* Too many failures, or too little time left, which takes a failure or a pause:
\* wait for the expiry.
LoopGivesUp(l) ==
    /\ pc[l] = "monitor"
    /\ attempts[l] = Retries \/ At[l] \notin valid \/ failing[l] # "no"
    /\ Goto(l, "expiring")
    /\ OnlyMoves

\* monitorLock returns: cancelled, or at the expiry. Its result is the error of
\* the last ExtendContext, or Canceled; lockLoop passes over a cancellation and
\* over a timeout.
LoopMonitorEnds(l) ==
    /\ \/ pc[l] = "monitor" /\ l \in cancelled
       \/ pc[l] = "expiring" /\ (l \in cancelled \/ At[l] \notin valid)
    /\ Goto(l, IF failing[l] = "loud" THEN "fail" ELSE "top")
    /\ OnlyMoves

ExtendFailed(l, e) ==
    /\ attempts' = [attempts EXCEPT ![l] = @ + 1]
    /\ failing' = [failing EXCEPT ![l] = e]
    /\ Goto(l, "monitor")

\* Mutant: the key is extended whoever it belongs to.
LoopExtendAny(l) ==
    /\ pc[l] = "extend"
    /\ Goto(l, "extended")
    /\ fresh' = fresh \cup {l}
    /\ UNCHANGED <<cancelled, attempts, failing>>
    /\ UNCHANGED <<serverVars, mutexVars, lockVars, callerVars>>

\* ExtendContext reaches Redis: the key is still ours, or it is not.
LoopExtend(l) ==
    /\ pc[l] = "extend"
    /\ IF key = At[l]
         THEN Goto(l, "extended") /\ fresh' = fresh \cup {l} /\ UNCHANGED <<attempts, failing>>
         ELSE ExtendFailed(l, "loud") /\ UNCHANGED fresh
    /\ UNCHANGED cancelled
    /\ UNCHANGED <<serverVars, mutexVars, lockVars, callerVars>>

\* ExtendContext gets no answer: cancelled, timed out, or another error.
LoopExtendFails(l) ==
    /\ pc[l] = "extend"
    /\ \/ l \in cancelled /\ ExtendFailed(l, "quiet") /\ UNCHANGED faults
       \/ Fault(At[l], "rpc") /\ \E e \in {"quiet", "loud"} : ExtendFailed(l, e)
    /\ UNCHANGED <<key, cancelled, fresh>>
    /\ UNCHANGED <<mutexVars, lockVars, callerVars>>

\* redsync takes the answer if it is not overdue.
LoopExtended(l) ==
    /\ pc[l] = "extended"
    /\ IF l \in fresh
         THEN /\ valid' = valid \cup {At[l]}
              /\ failing' = [failing EXCEPT ![l] = "no"]
              /\ Goto(l, "monitor")
              /\ UNCHANGED attempts
         ELSE ExtendFailed(l, "loud") /\ UNCHANGED valid
    /\ fresh' = fresh \ {l}
    /\ UNCHANGED <<cancelled, named>>
    /\ UNCHANGED <<serverVars, lockVars, callerVars>>

\* Mutant: an error ends the loop.
LoopFailEnds(l) ==
    /\ pc[l] = "fail"
    /\ UpdateState(At[l], "Error")
    /\ Goto(l, "exit")
    /\ UNCHANGED <<cancelled, fresh, attempts, failing>>
    /\ UNCHANGED <<serverVars, mutexVars>>

\* updateState(stateError).
LoopFail(l) ==
    /\ pc[l] = "fail"
    /\ UpdateState(At[l], "Error")
    /\ Goto(l, "top")
    /\ UNCHANGED <<cancelled, fresh, attempts, failing>>
    /\ UNCHANGED <<serverVars, mutexVars>>

\* The deferred rsMutex.Unlock(): the key is deleted if it holds the value of
\* rsMutex, which is whatever loop of this node acquired it last.
LoopUnlock(l) ==
    /\ pc[l] = "exit"
    /\ \/ /\ IF At[l] \in named THEN DeleteIfMine(At[l]) ELSE UNCHANGED key
          /\ UNCHANGED faults
       \/ Fault(At[l], "rpc") /\ UNCHANGED key
    /\ Goto(l, "unlocked")
    /\ UNCHANGED <<cancelled, fresh, attempts, failing>>
    /\ UNCHANGED <<mutexVars, lockVars, callerVars>>

\* The deferred updateState(stateUnknown).
LoopExit(l) ==
    /\ pc[l] = "unlocked"
    /\ UpdateState(At[l], "Unknown")
    /\ Goto(l, "none")
    /\ cancelled' = cancelled \ {l}
    /\ attempts' = [attempts EXCEPT ![l] = 0]
    /\ failing' = [failing EXCEPT ![l] = "no"]
    /\ UNCHANGED fresh
    /\ UNCHANGED <<serverVars, mutexVars>>

-----------------------------------------------------------------------------
(* The operations of dsync.Lock.                                             *)

\* The first half of Lock and TryLock: lazyStart starts a loop if none is current.
CallLock(c, kind) ==
    /\ kind \in Ops[At[c]]
    /\ phase[c] = "idle"
    /\ \/ loopContext[At[c]] # NoLoop /\ UNCHANGED <<loopContext, pc>>
       \/ /\ loopContext[At[c]] = NoLoop
          /\ \E l \in LoopsOf(At[c]) : /\ pc[l] = "none"
                                       /\ loopContext' = [loopContext EXCEPT ![At[c]] = l]
                                       /\ Goto(l, "top")
    /\ phase' = [phase EXCEPT ![c] = kind]
    /\ awake' = awake \cup {c}
    /\ UNCHANGED <<lost, state, cancelled, fresh, attempts, failing, serverVars, mutexVars>>

\* waitForState: the matchers of Lock and of TryLock.
Succeeds(n) == state[n] = "Acquired"
GivesUp(n, kind) == /\ ~Succeeds(n)
                    /\ \/ kind = "try" /\ state[n] = "Error"
                       \/ loopContext[n] = NoLoop

\* waitForState evaluates the matcher: the caller has the lock, gives up, or blocks in
\* stateCond.Wait.
CallerLooks(c) ==
    /\ phase[c] \in {"lock", "try"}
    /\ c \in awake
    /\ phase' = [phase EXCEPT ![c] = IF Succeeds(At[c]) THEN "got"
                                     ELSE IF GivesUp(At[c], @) THEN "idle" ELSE @]
    /\ awake' = awake \ {c}
    /\ UNCHANGED <<lost, lockVars, loopVars, serverVars, mutexVars>>

\* stateCond.Wait returns because the caller's context ended.
CallerCancelled(c) ==
    /\ "cancel" \in Ops[At[c]]
    /\ phase[c] \in {"lock", "try"}
    /\ c \notin awake
    /\ phase' = [phase EXCEPT ![c] = "idle"]
    /\ UNCHANGED <<awake, lost, lockVars, loopVars, serverVars, mutexVars>>

\* Lost(): the caller now watches the current lockLostCh.
CallLost(c) ==
    /\ phase[c] = "got"
    /\ phase' = [phase EXCEPT ![c] = "hold"]
    /\ lost' = IF state[At[c]] = "Acquired" THEN lost ELSE lost \cup {c}
    /\ UNCHANGED <<awake, lockVars, loopVars, serverVars, mutexVars>>

\* The caller stops working under the lock, told by Lost() or on its own.
CallerDone(c) ==
    /\ phase[c] = "hold"
    /\ c \in lost \/ "done" \in Ops[At[c]]
    /\ phase' = [phase EXCEPT ![c] = "idle"]
    /\ lost' = lost \ {c}
    /\ UNCHANGED <<awake, lockVars, loopVars, serverVars, mutexVars>>

\* Release, also called by RedisSyncManager.Stop: stopLoop and nothing more, the
\* loop itself gives the key back.
Release(n) ==
    /\ "Release" \in Ops[n]
    /\ loopContext[n] # NoLoop
    /\ cancelled' = cancelled \cup {loopContext[n]}
    /\ loopContext' = [loopContext EXCEPT ![n] = NoLoop]
    /\ UNCHANGED <<state, pc, fresh, attempts, failing>>
    /\ UNCHANGED <<callerVars, serverVars, mutexVars>>

\* The process of node n dies and is replaced. A SET under way may still be
\* executed; what the key holds is nobody's value from now on.
Crash(n) ==
    /\ Fault(n, "crash")
    /\ \/ key' = IF key = n THEN Orphan ELSE key
       \/ key = NoNode /\ (\E l \in LoopsOf(n) : pc[l] = "try") /\ key' = Orphan
    /\ named' = named \ {n}
    /\ valid' = valid \ {n}
    /\ state' = [state EXCEPT ![n] = "Unknown"]
    /\ loopContext' = [loopContext EXCEPT ![n] = NoLoop]
    /\ pc' = [l \in Loop |-> IF At[l] = n THEN "none" ELSE pc[l]]
    /\ cancelled' = cancelled \ LoopsOf(n)
    /\ fresh' = fresh \ LoopsOf(n)
    /\ attempts' = [l \in Loop |-> IF At[l] = n THEN 0 ELSE attempts[l]]
    /\ failing' = [l \in Loop |-> IF At[l] = n THEN "no" ELSE failing[l]]
    /\ phase' = [c \in Caller |-> IF At[c] = n THEN "idle" ELSE phase[c]]
    /\ awake' = awake \ CallersOf(n)
    /\ lost' = lost \ CallersOf(n)

-----------------------------------------------------------------------------
LoopStep(l) ==
    \/ LoopTop(l) \/ LoopTry(l) \/ LoopTryFails(l) \/ LoopGranted(l) \/ LoopUndo(l)
    \/ LoopAcquired(l) \/ LoopHalfTime(l) \/ LoopGivesUp(l) \/ LoopMonitorEnds(l)
    \/ LoopExtend(l) \/ LoopExtendFails(l) \/ LoopExtended(l)
    \/ LoopFail(l) \/ LoopUnlock(l) \/ LoopExit(l)

CallerStep(c) ==
    \/ \E kind \in {"lock", "try"} : CallLock(c, kind)
    \/ CallerLooks(c) \/ CallerCancelled(c) \/ CallLost(c) \/ CallerDone(c)

Next ==
    \/ Expires
    \/ \E n \in Node : Elapses(n) \/ Release(n) \/ Crash(n)
    \/ \E l \in Loop : LoopStep(l) \/ AnswerOverdue(l)
    \/ \E c \in Caller : CallerStep(c)

Spec == Init /\ [][Next]_vars

\* Goroutines are scheduled, Redis answers, and time passes. Faults are never
\* forced.
Calm(A) == A /\ UNCHANGED faults

Fairness ==
    /\ WF_vars(Expires)
    /\ \A n \in Node : WF_vars(Calm(Elapses(n)))
    /\ \A l \in Loop : WF_vars(Calm(LoopStep(l)))
    /\ \A c \in Caller : WF_vars(CallerLooks(c)) /\ WF_vars(CallLost(c))

FairSpec == Spec /\ Fairness
=============================================================================
